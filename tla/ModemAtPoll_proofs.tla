-------------------------- MODULE ModemAtPoll_proofs --------------------------
(***************************************************************************)
(* The polling loop of modem_at_send reports the truth about its answer,   *)
(* for every size of buffer and every length of the timeouts.  PollInv is   *)
(* the inductive core.  The strings of the C code end at places that the    *)
(* model chooses; the first part shows that they exist and what they are.    *)
(***************************************************************************)
EXTENDS ModemAtPoll, SequenceTheorems, WellFoundedInduction, TLAPS

(* A set of places that is not empty has a first one.                       *)
LEMMA LeastExists ==
  ASSUME NEW S \in SUBSET Nat, S # {}
  PROVE  \E m \in S : \A k \in S : m <= k
<1>1. IsWellFoundedOn(OpToRel(<, Nat), Nat)
  BY NatLessThanWellFounded
<1>2. PICK m \in S : \A k \in S : ~(<<k, m>> \in OpToRel(<, Nat))
  BY <1>1, WFMin
<1>3. \A k \in S : ~(k < m)
  BY <1>2 DEF OpToRel
<1>. QED  BY <1>3

---------------------------------------------------------------------------
(* The beginning of a string, up to its first byte in a set.                *)

EndsBefore(s, S, n) ==
  /\ n \in 0 .. Len(s)
  /\ n < Len(s) => s[n + 1] \in S
  /\ \A i \in 1 .. n : s[i] \notin S

LEMMA EndIsUnique ==
  ASSUME NEW s \in Seq(Tokens), NEW S, NEW m, NEW n,
         EndsBefore(s, S, m), EndsBefore(s, S, n)
  PROVE  m = n
<1>1. Len(s) \in Nat
  BY LenProperties
<1>2. m \in Nat /\ n \in Nat /\ m <= Len(s) /\ n <= Len(s)
  BY <1>1 DEF EndsBefore
<1>3. ~(m < n)
  <2>. SUFFICES ASSUME m < n PROVE FALSE
    OBVIOUS
  <2>1. m + 1 \in 1 .. n /\ m < Len(s)
    BY <1>1, <1>2
  <2>. QED  BY <2>1 DEF EndsBefore
<1>4. ~(n < m)
  <2>. SUFFICES ASSUME n < m PROVE FALSE
    OBVIOUS
  <2>1. n + 1 \in 1 .. m /\ n < Len(s)
    BY <1>1, <1>2
  <2>. QED  BY <2>1 DEF EndsBefore
<1>. QED  BY <1>2, <1>3, <1>4

LEMMA BeforeIs ==
  ASSUME NEW s \in Seq(Tokens), NEW S, NEW n, EndsBefore(s, S, n)
  PROVE  Before(s, S) = SubSeq(s, 1, n)
<1>. DEFINE Ends(m) == (m < Len(s) => s[m + 1] \in S) /\ \A i \in 1 .. m : s[i] \notin S
            c == CHOOSE m \in 0 .. Len(s) : Ends(m)
<1>1. n \in 0 .. Len(s) /\ Ends(n)
  BY DEF EndsBefore
<1>2. c \in 0 .. Len(s) /\ Ends(c)
  <2>. HIDE DEF Ends
  <2>. QED  BY <1>1, Zenon
<1>3. c = n
  <2>. HIDE DEF c
  <2>1. EndsBefore(s, S, c)
    BY <1>2 DEF EndsBefore
  <2>. QED  BY <2>1, EndIsUnique
<1>4. Before(s, S) = SubSeq(s, 1, c)
  BY Zenon DEF Before
<1>. QED  BY <1>3, <1>4

LEMMA EndExists ==
  ASSUME NEW s \in Seq(Tokens), NEW S
  PROVE  \E n : EndsBefore(s, S, n)
<1>. DEFINE T == {n \in 0 .. Len(s) : n < Len(s) => s[n + 1] \in S}
<1>1. Len(s) \in Nat
  BY LenProperties
<1>2. T \in SUBSET Nat /\ T # {}
  BY <1>1
<1>3. PICK m \in T : \A k \in T : m <= k
  BY <1>2, LeastExists
<1>4. \A i \in 1 .. m : s[i] \notin S
  <2>. SUFFICES ASSUME NEW i \in 1 .. m, s[i] \in S PROVE FALSE
    OBVIOUS
  <2>1. m \in Nat /\ i \in Nat /\ ~(m <= i - 1)
    BY <1>1, <1>3
  <2>2. i - 1 \in T
    BY <1>1, <1>3
  <2>. HIDE DEF T
  <2>. QED  BY <1>3, <2>1, <2>2
<1>. QED  BY <1>1, <1>3, <1>4 DEF EndsBefore

LEMMA CutType ==
  ASSUME NEW s \in Seq(Tokens), NEW n \in 0 .. Len(s)
  PROVE  /\ SubSeq(s, 1, n) \in Seq(Tokens) /\ Len(SubSeq(s, 1, n)) = n
         /\ \A i \in 1 .. n : SubSeq(s, 1, n)[i] = s[i]
<1>1. Len(s) \in Nat /\ n \in Nat /\ \A i \in 1 .. n : s[i] \in Tokens
  BY LenProperties, ElementOfSeq
<1>2. /\ SubSeq(s, 1, n) \in Seq(Tokens)
      /\ Len(SubSeq(s, 1, n)) = IF 1 <= n THEN n - 1 + 1 ELSE 0
      /\ \A i \in 1 .. n - 1 + 1 : SubSeq(s, 1, n)[i] = s[1 + i - 1]
  BY <1>1, SubSeqProperties
<1>. QED  BY <1>1, <1>2

---------------------------------------------------------------------------
(* The trimmed answer is a part of the stored one.                          *)

PartOf(t, s) == t \in Seq(Tokens) /\ Len(t) <= Len(s)

LEMMA BeforeType ==
  ASSUME NEW s \in Seq(Tokens), NEW S
  PROVE  PartOf(Before(s, S), s)
<1>1. PICK n : EndsBefore(s, S, n)
  BY EndExists
<1>2. n \in 0 .. Len(s) /\ Len(s) \in Nat
  BY <1>1, LenProperties DEF EndsBefore
<1>3. Before(s, S) = SubSeq(s, 1, n)
  BY <1>1, BeforeIs
<1>4. SubSeq(s, 1, n) \in Seq(Tokens) /\ Len(SubSeq(s, 1, n)) = n
  BY <1>2, CutType
<1>. QED  BY <1>2, <1>3, <1>4 DEF PartOf

LEMMA TrailingType ==
  ASSUME NEW s \in Seq(Tokens)
  PROVE  PartOf(WithoutTrailing(s), s)
<1>. DEFINE Blank(n) == \A i \in n + 1 .. Len(s) : s[i] \in Blanks
            Ends(n)  == (n > 0 => s[n] \notin Blanks) /\ Blank(n)
            T == {n \in 0 .. Len(s) : Blank(n)}
            c == CHOOSE n \in 0 .. Len(s) : Ends(n)
<1>1. Len(s) \in Nat
  BY LenProperties
<1>2. T \in SUBSET Nat /\ T # {}
  <2>1. Len(s) \in T
    BY <1>1
  <2>. QED  BY <1>1, <2>1
<1>3. PICK m \in T : \A k \in T : m <= k
  BY <1>2, LeastExists
<1>4. m > 0 => s[m] \notin Blanks
  <2>. SUFFICES ASSUME m > 0, s[m] \in Blanks PROVE FALSE
    OBVIOUS
  <2>1. m - 1 \in T
    <3>1. m - 1 \in 0 .. Len(s)
      BY <1>1, <1>3
    <3>2. ASSUME NEW i \in (m - 1) + 1 .. Len(s) PROVE s[i] \in Blanks
      <4>1. i = m \/ i \in m + 1 .. Len(s)
        BY <1>1, <1>3
      <4>. QED  BY <1>3, <4>1
    <3>. QED  BY <3>1, <3>2
  <2>2. m \in Nat /\ ~(m <= m - 1)
    BY <1>1, <1>3
  <2>. HIDE DEF T
  <2>. QED  BY <1>3, <2>1, <2>2
<1>5. m \in 0 .. Len(s) /\ Ends(m)
  BY <1>3, <1>4
<1>6. c \in 0 .. Len(s)
  <2>. HIDE DEF Ends
  <2>. QED  BY <1>5, Zenon
<1>7. WithoutTrailing(s) = SubSeq(s, 1, c)
  BY Zenon DEF WithoutTrailing
<1>. HIDE DEF c
<1>. QED  BY <1>1, <1>6, <1>7, CutType DEF PartOf

LEMMA LeadingType ==
  ASSUME NEW s \in Seq(Tokens)
  PROVE  PartOf(WithoutLeading(s), s)
<1>. DEFINE b == Len(Before(s, Tokens \ Blanks))
<1>1. b \in Nat /\ b <= Len(s) /\ Len(s) \in Nat
  BY BeforeType, LenProperties DEF PartOf
<1>. HIDE DEF b
<1>2. \A i \in b + 1 .. Len(s) : s[i] \in Tokens
  BY <1>1, ElementOfSeq
<1>3. /\ SubSeq(s, b + 1, Len(s)) \in Seq(Tokens)
      /\ Len(SubSeq(s, b + 1, Len(s))) = IF b + 1 <= Len(s) THEN Len(s) - (b + 1) + 1 ELSE 0
  BY <1>1, <1>2, SubSeqProperties
<1>4. WithoutLeading(s) = SubSeq(s, b + 1, Len(s))
  BY DEF WithoutLeading, b
<1>. QED  BY <1>1, <1>3, <1>4 DEF PartOf

LEMMA TrimmedType ==
  ASSUME NEW s \in Seq(Tokens)
  PROVE  PartOf(Trimmed(s), s)
<1>1. PartOf(WithoutTrailing(s), s)
  BY TrailingType
<1>2. PartOf(Visible(WithoutTrailing(s)), WithoutTrailing(s))
  BY <1>1, BeforeType DEF PartOf, Visible
<1>3. PartOf(Trimmed(s), Visible(WithoutTrailing(s)))
  BY <1>2, LeadingType DEF PartOf, Trimmed
<1>. QED  BY <1>1, <1>2, <1>3, LenProperties DEF PartOf

---------------------------------------------------------------------------
(* What strstr sees of a string that grows by a byte.                       *)

NulFree(s) == \A i \in 1 .. Len(s) : s[i] # "nul"

LEMMA AllVisible ==
  ASSUME NEW s \in Seq(Tokens), NulFree(s)
  PROVE  Visible(s) = s
<1>1. Len(s) \in Nat
  BY LenProperties
<1>2. EndsBefore(s, {"nul"}, Len(s))
  BY <1>1 DEF EndsBefore, NulFree
<1>. QED  BY <1>2, BeforeIs, SubSeqFull DEF Visible

(* A 0 byte, and what comes after one, changes nothing.                     *)
LEMMA HiddenVisible ==
  ASSUME NEW s \in Seq(Tokens), NEW ch \in Tokens, ch = "nul" \/ ~NulFree(s)
  PROVE  Visible(Append(s, ch)) = Visible(s)
<1>. DEFINE t == Append(s, ch)
<1>1. /\ t \in Seq(Tokens) /\ Len(t) = Len(s) + 1 /\ Len(s) \in Nat
      /\ \A i \in 1 .. Len(s) : t[i] = s[i]
      /\ t[Len(s) + 1] = ch
  BY AppendProperties, LenProperties
<1>. HIDE DEF t
<1>2. PICK n : EndsBefore(s, {"nul"}, n)
  BY EndExists
<1>3. n \in Nat /\ n <= Len(s) /\ \A i \in 1 .. n : s[i] # "nul"
  BY <1>1, <1>2 DEF EndsBefore
<1>4. t[n + 1] = "nul"
  <2>1. CASE n < Len(s)
    BY <1>1, <1>2, <1>3, <2>1 DEF EndsBefore
  <2>2. CASE n = Len(s)
    BY <1>1, <1>3, <2>2 DEF NulFree
  <2>. QED  BY <1>1, <1>3, <2>1, <2>2
<1>5. EndsBefore(t, {"nul"}, n)
  BY <1>1, <1>3, <1>4 DEF EndsBefore
<1>6. Visible(s) = SubSeq(s, 1, n) /\ Visible(t) = SubSeq(t, 1, n)
  BY <1>1, <1>2, <1>5, BeforeIs DEF Visible
<1>7. SubSeq(t, 1, n) = SubSeq(s, 1, n)
  <2>1. /\ SubSeq(s, 1, n) \in Seq(Tokens) /\ Len(SubSeq(s, 1, n)) = n
        /\ \A i \in 1 .. n : SubSeq(s, 1, n)[i] = s[i]
    BY <1>1, <1>3, CutType
  <2>2. /\ SubSeq(t, 1, n) \in Seq(Tokens) /\ Len(SubSeq(t, 1, n)) = n
        /\ \A i \in 1 .. n : SubSeq(t, 1, n)[i] = t[i]
    BY <1>1, <1>3, CutType
  <2>3. \A i \in 1 .. n : t[i] = s[i]
    BY <1>1, <1>3
  <2>. QED  BY <2>1, <2>2, <2>3, SeqEqual
<1>. QED  BY <1>6, <1>7 DEF t

LEMMA LinePlaces ==
  ASSUME NEW s \in Seq(Tokens), NEW w
  PROVE  HasLine(s, w) <=>
           \E i \in 1 .. Len(s) - 2 : s[i] = "nl" /\ s[i + 1] = w /\ s[i + 2] = "nl"
<1>1. Len(s) \in Nat
  BY LenProperties
<1>2. ASSUME NEW i \in 1 .. Len(s) - 2
      PROVE  SubSeq(s, i, i + 2) = <<"nl", w, "nl">> <=>
               s[i] = "nl" /\ s[i + 1] = w /\ s[i + 2] = "nl"
  <2>. DEFINE u == SubSeq(s, i, i + 2)
  <2>1. \A k \in i .. i + 2 : s[k] \in Tokens
    BY <1>1, ElementOfSeq
  <2>2. /\ u \in Seq(Tokens)
        /\ Len(u) = IF i <= i + 2 THEN i + 2 - i + 1 ELSE 0
        /\ \A k \in 1 .. i + 2 - i + 1 : u[k] = s[i + k - 1]
    BY <1>1, <2>1, SubSeqProperties
  <2>3. Len(u) = 3 /\ u[1] = s[i] /\ u[2] = s[i + 1] /\ u[3] = s[i + 2]
    BY <1>1, <2>2
  <2>. HIDE DEF u
  <2>4. u = <<u[1], u[2], u[3]>>
    BY <2>2, <2>3
  <2>5. u = <<"nl", w, "nl">> <=> u[1] = "nl" /\ u[2] = w /\ u[3] = "nl"
    BY <2>4
  <2>. QED  BY <2>3, <2>5 DEF u
<1>3. \A i \in 1 .. Len(s) : i + 2 <= Len(s) <=> i \in 1 .. Len(s) - 2
  BY <1>1
<1>4. \A i \in 1 .. Len(s) - 2 : i \in 1 .. Len(s)
  BY <1>1
<1>. QED  BY <1>2, <1>3, <1>4 DEF HasLine

(* A byte completes an answer line exactly if the two before it began one.   *)
LEMMA LineInAppend ==
  ASSUME NEW s \in Seq(Tokens), NEW ch \in Tokens, NEW w, ~HasLine(s, w)
  PROVE  HasLine(Append(s, ch), w) <=>
           Len(s) >= 2 /\ s[Len(s) - 1] = "nl" /\ s[Len(s)] = w /\ ch = "nl"
<1>. DEFINE t == Append(s, ch)
<1>1. /\ t \in Seq(Tokens) /\ Len(t) = Len(s) + 1 /\ Len(s) \in Nat
      /\ \A i \in 1 .. Len(s) : t[i] = s[i]
      /\ t[Len(s) + 1] = ch
  BY AppendProperties, LenProperties
<1>. HIDE DEF t
<1>2. ASSUME NEW i \in 1 .. Len(t) - 2, t[i] = "nl", t[i + 1] = w, t[i + 2] = "nl"
      PROVE  Len(s) >= 2 /\ s[Len(s) - 1] = "nl" /\ s[Len(s)] = w /\ ch = "nl"
  <2>1. CASE i \in 1 .. Len(s) - 2
    <3>1. s[i] = "nl" /\ s[i + 1] = w /\ s[i + 2] = "nl"
      BY <1>1, <1>2, <2>1
    <3>. QED  BY <2>1, <3>1, LinePlaces
  <2>2. CASE i = Len(s) - 1
    BY <1>1, <1>2, <2>2
  <2>. QED  BY <1>1, <2>1, <2>2
<1>3. ASSUME Len(s) >= 2, s[Len(s) - 1] = "nl", s[Len(s)] = w, ch = "nl"
      PROVE  \E i \in 1 .. Len(t) - 2 : t[i] = "nl" /\ t[i + 1] = w /\ t[i + 2] = "nl"
  <2>1. Len(s) - 1 \in 1 .. Len(t) - 2
    BY <1>1, <1>3
  <2>2. t[Len(s) - 1] = "nl" /\ t[(Len(s) - 1) + 1] = w /\ t[(Len(s) - 1) + 2] = "nl"
    BY <1>1, <1>3
  <2>. QED  BY <2>1, <2>2
<1>4. HasLine(t, w) <=>
        \E i \in 1 .. Len(t) - 2 : t[i] = "nl" /\ t[i + 1] = w /\ t[i + 2] = "nl"
  BY <1>1, LinePlaces
<1>. QED  BY <1>2, <1>3, <1>4 DEF t

---------------------------------------------------------------------------
(* The history's last two bytes are those of the buffer.                    *)

LastTwo(x, s) ==
  /\ Len(x) = IF Len(s) <= 2 THEN Len(s) ELSE 2
  /\ \A k \in 1 .. Len(x) : x[k] = s[Len(s) - Len(x) + k]

Slide(x, ch) == IF Len(Append(x, ch)) <= 2 THEN Append(x, ch) ELSE Tail(Append(x, ch))

LEMMA TwoAndOne ==
  ASSUME NEW n \in Nat, NEW m, m = n + 1
  PROVE  m = 3 <=> n = 2
OBVIOUS

LEMMA AtMostTwo ==
  ASSUME NEW n \in Nat, NEW m, m = IF n <= 2 THEN n ELSE 2
  PROVE  m \in Nat /\ m <= 2 /\ m <= n /\ (n >= 2 <=> m = 2)
OBVIOUS

LEMMA LastTwoLen ==
  ASSUME NEW s \in Seq(Tokens), NEW x \in Seq(Tokens), LastTwo(x, s)
  PROVE  /\ Len(s) \in Nat /\ Len(x) \in Nat /\ Len(x) <= 2 /\ Len(x) <= Len(s)
         /\ Len(s) >= 2 <=> Len(x) = 2
<1>1. Len(s) \in Nat
  BY LenProperties
<1>2. Len(x) = IF Len(s) <= 2 THEN Len(s) ELSE 2
  BY Zenon DEF LastTwo
<1>. QED  BY <1>1, <1>2, AtMostTwo, Zenon

LEMMA SlideLastTwo ==
  ASSUME NEW s \in Seq(Tokens), NEW x \in Seq(Tokens), NEW ch \in Tokens, LastTwo(x, s)
  PROVE  /\ LastTwo(Slide(x, ch), Append(s, ch))
         /\ Slide(x, ch) \in Seq(Tokens) /\ Len(Slide(x, ch)) <= 2
<1>. DEFINE r == Append(s, ch)
            t == Append(x, ch)
<1>1. /\ r \in Seq(Tokens) /\ Len(r) = Len(s) + 1 /\ Len(s) \in Nat
      /\ \A i \in 1 .. Len(s) : r[i] = s[i]
      /\ r[Len(s) + 1] = ch
  BY AppendProperties, LenProperties
<1>2. /\ t \in Seq(Tokens) /\ Len(t) = Len(x) + 1 /\ Len(x) \in Nat
      /\ \A i \in 1 .. Len(x) : t[i] = x[i]
      /\ t[Len(x) + 1] = ch
  BY AppendProperties, LenProperties
<1>. HIDE DEF r, t
<1>3. Len(x) <= 2 /\ Len(x) <= Len(s)
  BY LastTwoLen
<1>4. \A k \in 1 .. Len(t) : t[k] = r[Len(r) - Len(t) + k]
  <2>. SUFFICES ASSUME NEW k \in 1 .. Len(t) PROVE t[k] = r[Len(r) - Len(t) + k]
    OBVIOUS
  <2>1. CASE k \in 1 .. Len(x)
    <3>1. t[k] = s[Len(s) - Len(x) + k]
      BY <1>2, <2>1 DEF LastTwo
    <3>2. Len(s) - Len(x) + k \in 1 .. Len(s) /\ Len(r) - Len(t) + k = Len(s) - Len(x) + k
      BY <1>1, <1>2, <1>3, <2>1
    <3>. QED  BY <1>1, <3>1, <3>2
  <2>2. CASE k = Len(x) + 1
    <3>1. Len(r) - Len(t) + k = Len(s) + 1
      BY <1>1, <1>2, <2>2
    <3>. QED  BY <1>1, <1>2, <2>2, <3>1
  <2>. QED  BY <1>2, <2>1, <2>2
<1>5. CASE Len(t) <= 2
  <2>1. Slide(x, ch) = t
    BY <1>5 DEF Slide, t
  <2>2. Len(t) = IF Len(r) <= 2 THEN Len(r) ELSE 2
    BY <1>1, <1>2, <1>3, <1>5 DEF LastTwo
  <2>. QED  BY <1>2, <1>4, <1>5, <2>1, <2>2 DEF LastTwo, r
<1>6. CASE ~(Len(t) <= 2)
  <2>. DEFINE u == Tail(t)
  <2>1. Slide(x, ch) = u
    BY <1>6 DEF Slide, t
  <2>2. Len(t) = 3 /\ t # << >>
    BY <1>2, <1>3, <1>6, EmptySeq
  <2>3. u \in Seq(Tokens) /\ Len(u) = 2 /\ \A i \in 1 .. 2 : u[i] = t[i + 1]
    <3>1. /\ u \in Seq(Tokens) /\ Len(u) = Len(t) - 1
          /\ \A i \in 1 .. Len(u) : u[i] = t[i + 1]
      BY <1>2, <2>2, HeadTailProperties, Zenon
    <3>2. Len(u) = 2
      BY <2>2, <3>1
    <3>. QED  BY <3>1, <3>2
  <2>. HIDE DEF u
  <2>4. Len(r) >= 3
    <3>1. Len(x) = 2
      BY <1>2, <2>2, TwoAndOne, Zenon
    <3>2. Len(s) >= 2
      BY <3>1, LastTwoLen, Zenon
    <3>. QED  BY <1>1, <3>2
  <2>5. \A k \in 1 .. Len(u) : u[k] = r[Len(r) - Len(u) + k]
    <3>. SUFFICES ASSUME NEW k \in 1 .. 2 PROVE u[k] = r[Len(r) - 2 + k]
      BY <2>3
    <3>1. k + 1 \in 1 .. Len(t) /\ Len(r) - Len(t) + (k + 1) = Len(r) - 2 + k
      BY <1>1, <2>2
    <3>2. t[k + 1] = r[Len(r) - Len(t) + (k + 1)]
      BY <1>4, <3>1
    <3>. QED  BY <2>3, <3>1, <3>2
  <2>6. Len(u) = IF Len(r) <= 2 THEN Len(r) ELSE 2
    BY <1>1, <2>3, <2>4
  <2>. QED  BY <2>1, <2>3, <2>5, <2>6 DEF LastTwo, r
<1>. QED  BY <1>5, <1>6

Line(w) == <<"nl", w, "nl">>

LEMMA LineInText ==
  ASSUME NEW s \in Seq(Tokens), NEW x \in Seq(Tokens), NEW ch \in Tokens, LastTwo(x, s),
         NEW w
  PROVE  Append(x, ch) = Line(w) <=>
           Len(s) >= 2 /\ s[Len(s) - 1] = "nl" /\ s[Len(s)] = w /\ ch = "nl"
<1>. DEFINE t == Append(x, ch)
<1>1. /\ t \in Seq(Tokens) /\ Len(t) = Len(x) + 1 /\ Len(x) \in Nat /\ Len(s) \in Nat
      /\ \A i \in 1 .. Len(x) : t[i] = x[i]
      /\ t[Len(x) + 1] = ch
  BY AppendProperties, LenProperties
<1>. HIDE DEF t
<1>2. CASE Len(s) >= 2
  <2>1. Len(x) = 2
    BY <1>2, LastTwoLen, Zenon
  <2>2. x[1] = s[Len(s) - 2 + 1] /\ x[2] = s[Len(s) - 2 + 2]
    <3>1. \A k \in 1 .. 2 : x[k] = s[Len(s) - 2 + k]
      BY <2>1, Zenon DEF LastTwo
    <3>. QED  BY <3>1
  <2>3. Len(s) - 2 + 1 = Len(s) - 1 /\ Len(s) - 2 + 2 = Len(s)
    BY <1>1
  <2>4. Len(t) = 3 /\ t[1] = s[Len(s) - 1] /\ t[2] = s[Len(s)] /\ t[3] = ch
    BY <1>1, <2>1, <2>2, <2>3
  <2>5. t = <<t[1], t[2], t[3]>>
    <3>1. t \in Seq(Tokens) /\ Len(t) = 3
      BY <1>1, <2>4
    <3>. HIDE <2>4
    <3>. QED  BY <3>1
  <2>6. t = <<"nl", w, "nl">> <=> t[1] = "nl" /\ t[2] = w /\ t[3] = "nl"
    BY <2>5
  <2>. QED  BY <1>2, <2>4, <2>6 DEF t, Line
<1>3. CASE ~(Len(s) >= 2)
  <2>1. Len(t) # 3
    <3>1. Len(x) # 2
      BY <1>3, LastTwoLen, Zenon
    <3>. QED  BY <1>1, <3>1, TwoAndOne, Zenon
  <2>2. Len(<<"nl", w, "nl">>) = 3
    OBVIOUS
  <2>. QED  BY <1>3, <2>1, <2>2 DEF t, Line
<1>. QED  BY <1>2, <1>3

LEMMA LineMatches ==
  ASSUME NEW s \in Seq(Tokens), NEW x \in Seq(Tokens), NEW ch \in Tokens, LastTwo(x, s),
         NEW w, ~HasLine(s, w)
  PROVE  HasLine(Append(s, ch), w) <=> Append(x, ch) = Line(w)
<1>. DEFINE L == Len(s) >= 2 /\ s[Len(s) - 1] = "nl" /\ s[Len(s)] = w /\ ch = "nl"
<1>1. HasLine(Append(s, ch), w) <=> L
  BY LineInAppend, Zenon
<1>2. Append(x, ch) = Line(w) <=> L
  BY LineInText
<1>. QED  BY <1>1, <1>2, Zenon

---------------------------------------------------------------------------
(* The loop matches an answer line when the history completes one.           *)

Found(a, t, ch) ==
  IF a # "none" THEN a
  ELSE IF ch = "nul" THEN "hidden"
  ELSE IF t = <<"nl", "OK", "nl">> THEN "matched-ok"
  ELSE IF t = <<"nl", "ERROR", "nl">> THEN "matched-error" ELSE "none"

Hides(s) == IF \E i \in 1 .. Len(s) : s[i] = "nul" THEN "hidden" ELSE "none"

LEMMA HidesAppend ==
  ASSUME NEW s \in Seq(Tokens), NEW ch \in Tokens
  PROVE  Hides(Append(s, ch)) = IF ch = "nul" THEN "hidden" ELSE Hides(s)
<1>. DEFINE r == Append(s, ch)
<1>1. /\ r \in Seq(Tokens) /\ Len(r) = Len(s) + 1 /\ Len(s) \in Nat
      /\ \A i \in 1 .. Len(s) : r[i] = s[i]
      /\ r[Len(s) + 1] = ch
  BY AppendProperties, LenProperties
<1>. HIDE DEF r
<1>2. (\E i \in 1 .. Len(r) : r[i] = "nul")
        <=> ch = "nul" \/ \E i \in 1 .. Len(s) : s[i] = "nul"
  BY <1>1
<1>. QED  BY <1>2 DEF Hides, r

LEMMA MatchAppend ==
  ASSUME NEW s \in Seq(Tokens), NEW x \in Seq(Tokens), NEW ch \in Tokens, LastTwo(x, s),
         NEW a, a = Hides(s), Match(s) = "none"
  PROVE  IF Match(Append(s, ch)) = "none"
         THEN Found(a, Append(x, ch), ch) = Hides(Append(s, ch))
         ELSE Found(a, Append(x, ch), ch) = Match(Append(s, ch))
<1>. DEFINE r == Append(s, ch)
            t == Append(x, ch)
<1>1. Hides(r) = IF ch = "nul" THEN "hidden" ELSE Hides(s)
  BY HidesAppend
<1>2. Hides(s) = IF NulFree(s) THEN "none" ELSE "hidden"
  BY DEF Hides, NulFree
<1>3. CASE ch = "nul" \/ ~NulFree(s)
  <2>1. Match(r) = "none"
    BY <1>3, HiddenVisible, Zenon DEF Match
  <2>2. Found(a, t, ch) = "hidden"
    BY <1>2, <1>3 DEF Found
  <2>. QED  BY <1>1, <1>2, <1>3, <2>1, <2>2
<1>4. CASE ch # "nul" /\ NulFree(s)
  <2>1. r \in Seq(Tokens) /\ Hides(r) = "none" /\ a = "none"
    BY <1>1, <1>2, <1>4, AppendProperties
  <2>2. NulFree(r)
    BY <2>1 DEF Hides, NulFree
  <2>3. Visible(s) = s /\ Visible(r) = r
    BY <1>4, <2>1, <2>2, AllVisible
  <2>4. ~HasLine(s, "OK") /\ ~HasLine(s, "ERROR")
    BY <2>3 DEF Match
  <2>5. /\ HasLine(r, "OK") <=> t = <<"nl", "OK", "nl">>
        /\ HasLine(r, "ERROR") <=> t = <<"nl", "ERROR", "nl">>
    <3>1. ASSUME NEW w, ~HasLine(s, w) PROVE HasLine(r, w) <=> t = Line(w)
      BY <3>1, LineMatches
    <3>. HIDE DEF r, t
    <3>. QED  BY <2>4, <3>1 DEF Line
  <2>. HIDE DEF r, t
  <2>6. Found(a, t, ch) = IF t = <<"nl", "OK", "nl">> THEN "matched-ok"
                          ELSE IF t = <<"nl", "ERROR", "nl">> THEN "matched-error"
                          ELSE "none"
    BY <1>4, <2>1 DEF Found
  <2>7. Found(a, t, ch) = Match(r)
    BY <2>3, <2>5, <2>6 DEF Match
  <2>. QED  BY <2>1, <2>7 DEF r, t
<1>. QED  BY <1>3, <1>4

---------------------------------------------------------------------------
(* The loop: every step keeps the types, PollInv and the two properties.     *)

Safe == TypeOK /\ PollInv /\ ExitTellsWhy /\ CutAfterSilence

LEMMA SizeOne ==
  ASSUME NEW n \in Nat, NEW k \in Nat, k <= n, n < ResponseSize
  PROVE  k < ResponseSize /\ k \in 0 .. ResponseSize - 1
BY PollAssumption

LEMMA TicksDown ==
  ASSUME NEW n \in 0 .. ResponseTicks, n # 0
  PROVE  n - 1 \in 0 .. ResponseTicks
BY PollAssumption

LEMMA TrimmedFits ==
  ASSUME NEW s \in Seq(Tokens), Len(s) < ResponseSize
  PROVE  /\ Trimmed(s) \in Seq(Tokens) /\ Len(Trimmed(s)) < ResponseSize
         /\ Len(Trimmed(s)) \in 0 .. ResponseSize - 1
<1>1. Trimmed(s) \in Seq(Tokens) /\ Len(Trimmed(s)) <= Len(s)
  BY TrimmedType DEF PartOf
<1>2. Len(s) \in Nat /\ Len(Trimmed(s)) \in Nat
  BY <1>1, LenProperties
<1>. QED  BY <1>1, <1>2, SizeOne, Zenon

LEMMA InitSafe ==
  ASSUME Init PROVE Safe
<1>1. TypeOK
  <2>1. response \in Seq(Tokens) /\ Len(response) = 0 /\ text \in Seq(Tokens) /\ Len(text) = 0
    BY EmptySeq DEF Init
  <2>2. polling \in BOOLEAN /\ sawAnyByte \in BOOLEAN
    BY Zenon DEF Init
  <2>. QED  BY <2>1, <2>2, PollAssumption DEF Init, TypeOK, Exits
<1>2. PollInv /\ ExitTellsWhy /\ CutAfterSilence
  BY Zenon DEF Init, PollInv, ExitTellsWhy, CutAfterSilence, Finished
<1>. QED  BY <1>1, <1>2 DEF Safe

LEMMA EmptyAnswers ==
  ASSUME NEW s, s = << >>
  PROVE  Match(s) = "none" /\ Hides(s) = "none" /\ LastTwo(s, s)
<1>1. s \in Seq(Tokens) /\ Len(s) = 0
  BY EmptySeq
<1>2. NulFree(s)
  BY <1>1 DEF NulFree
<1>3. Visible(s) = s
  BY <1>1, <1>2, AllVisible
<1>4. \A w : ~HasLine(s, w)
  BY <1>1 DEF HasLine
<1>. QED  BY <1>1, <1>3, <1>4 DEF Match, Hides, LastTwo

LEMMA SendSafe ==
  ASSUME Safe, NEW ready \in BOOLEAN, Send(ready)
  PROVE  Safe'
<1>1. CASE ready
  <2>1. /\ polling' = TRUE /\ exit' = "none" /\ sawAnyByte' = FALSE /\ bytesReceived' = 0
        /\ response' = << >> /\ left' = ResponseTicks /\ interLeft' = ResponseTicks
        /\ burst' = 0 /\ quiet' = 0 /\ text' = << >> /\ answer' = "none" /\ result' = result
    BY <1>1, Zenon DEF Send
  <2>2. TypeOK'
    <3>1. /\ response' \in Seq(Tokens) /\ Len(response') = 0
          /\ text' \in Seq(Tokens) /\ Len(text') = 0
      BY <2>1, EmptySeq
    <3>2. polling' \in BOOLEAN /\ sawAnyByte' \in BOOLEAN
      BY <2>1, Zenon
    <3>3. result' \in {"OK", "ENODEV", "ENOSPC", "EIO", "ETIMEDOUT"}
      BY <2>1, Zenon DEF Safe, TypeOK
    <3>. QED  BY <2>1, <3>1, <3>2, <3>3, PollAssumption DEF TypeOK, Exits
  <2>3. PollInv'
    <3>1. ClockInv'
      BY <2>1, PollAssumption DEF ClockInv
    <3>2. TextInv' /\ AnswerInv'
      <4>1. Match(response') = "none" /\ Hides(response') = "none" /\ LastTwo(response', response')
        BY <2>1, EmptyAnswers, Zenon
      <4>. QED  BY <2>1, <4>1 DEF TextInv, AnswerInv, LastTwo, Hides
    <3>. QED  BY <2>1, <3>1, <3>2, Zenon DEF PollInv
  <2>4. ExitTellsWhy' /\ CutAfterSilence'
    BY <2>1, Zenon DEF ExitTellsWhy, CutAfterSilence, Finished
  <2>. QED  BY <2>2, <2>3, <2>4 DEF Safe
<1>2. CASE ~ready
  <2>1. /\ ~polling /\ result' = "ENODEV"
        /\ UNCHANGED <<polling, response, left, interLeft, exit, sawAnyByte, bytesReceived, burst,
                        quiet, text, answer>>
    BY <1>2, Zenon DEF Send, diagnostics, history
  <2>2. TypeOK'
    BY <2>1 DEF Safe, TypeOK
  <2>3. PollInv' /\ ExitTellsWhy' /\ CutAfterSilence'
    BY <2>1, Zenon DEF PollInv, ExitTellsWhy, CutAfterSilence, Finished
  <2>. QED  BY <2>2, <2>3 DEF Safe
<1>. QED  BY <1>1, <1>2, Zenon

(* What the history says of an answer after a byte, and when the loop ends.  *)
LEMMA HeardByte ==
  ASSUME Safe, polling, NEW ch \in Tokens, ch # "cr", Hear(ch)
  PROVE  /\ text' \in Seq(Tokens) /\ Len(text') <= 2
         /\ answer' \in {"none", "matched-ok", "matched-error", "hidden"}
         /\ LastTwo(text', Append(response, ch))
         /\ IF Match(Append(response, ch)) = "none"
            THEN answer' = Hides(Append(response, ch))
            ELSE answer' = Match(Append(response, ch))
<1>1. response \in Seq(Tokens) /\ text \in Seq(Tokens)
  BY DEF Safe, TypeOK
<1>2. LastTwo(text, response) /\ answer = Hides(response) /\ Match(response) = "none"
  BY Zenon DEF Safe, PollInv, TextInv, AnswerInv, LastTwo, Hides
<1>3. text' = Slide(text, ch) /\ answer' = Found(answer, Append(text, ch), ch)
  BY Zenon DEF Hear, Slide, Found
<1>4. IF Match(Append(response, ch)) = "none"
      THEN Found(answer, Append(text, ch), ch) = Hides(Append(response, ch))
      ELSE Found(answer, Append(text, ch), ch) = Match(Append(response, ch))
  BY <1>1, <1>2, MatchAppend, Zenon
<1>5. Match(Append(response, ch)) \in {"none", "matched-ok", "matched-error"}
  BY Zenon DEF Match
<1>6. Hides(Append(response, ch)) \in {"none", "hidden"}
  BY Zenon DEF Hides
<1>. HIDE DEF Found, Match, Hides
<1>7. answer' \in {"none", "matched-ok", "matched-error", "hidden"}
  BY <1>3, <1>4, <1>5, <1>6
<1>. QED  BY <1>1, <1>2, <1>3, <1>4, <1>7, SlideLastTwo, Zenon

LEMMA PollByteSafe ==
  ASSUME Safe, NEW ch \in Tokens, PollByte(ch)
  PROVE  Safe'
<1>. DEFINE s == Append(response, ch)
<1>1. /\ polling /\ left > 0 /\ burst < MaxBurst
      /\ sawAnyByte' = TRUE /\ interLeft' = InterCharTicks /\ left' = left
      /\ burst' = burst + 1
      /\ Store(ch) /\ Hear(ch)
  BY Zenon DEF PollByte
<1>2. quiet' = 0
  BY <1>1, Zenon DEF Hear
<1>3. exit = "none" /\ TextInv /\ AnswerInv
  BY <1>1, Zenon DEF Safe, PollInv
<1>4. /\ left' \in 0 .. ResponseTicks /\ interLeft' \in 0 .. ResponseTicks
      /\ burst' \in 0 .. MaxBurst /\ quiet' \in 0 .. ResponseTicks
  BY <1>1, <1>2, PollAssumption DEF Safe, TypeOK
<1>5. sawAnyByte' \in BOOLEAN
  BY <1>1, Zenon
<1>6. ClockInv'
  BY <1>1, <1>2, PollAssumption DEF ClockInv
<1>7. /\ s \in Seq(Tokens) /\ Len(s) = Len(response) + 1 /\ Len(response) \in Nat
      /\ Len(response) < ResponseSize /\ response \in Seq(Tokens)
  BY AppendProperties, LenProperties DEF Safe, TypeOK
<1>8. /\ result \in {"OK", "ENODEV", "ENOSPC", "EIO", "ETIMEDOUT"} /\ polling \in BOOLEAN
      /\ bytesReceived \in 0 .. ResponseSize - 1 /\ exit \in Exits
      /\ text \in Seq(Tokens) /\ Len(text) <= 2
      /\ answer \in {"none", "matched-ok", "matched-error", "hidden"}
  BY Zenon DEF Safe, TypeOK
<1>a. CASE ch = "cr"
  <2>1. /\ polling' = polling /\ result' = result /\ response' = response
        /\ exit' = exit /\ bytesReceived' = bytesReceived
    BY <1>1, <1>a, Zenon DEF Store, Dropped, GoOn
  <2>2. text' = text /\ answer' = answer
    BY <1>1, <1>a, Zenon DEF Hear
  <2>3. TypeOK'
    BY <1>4, <1>5, <1>7, <1>8, <2>1, <2>2, Zenon DEF TypeOK
  <2>4. TextInv' /\ AnswerInv'
    BY <1>3, <2>1, <2>2 DEF TextInv, AnswerInv, Match
  <2>5. exit' = "none"
    BY <1>3, <2>1
  <2>6. PollInv' /\ ExitTellsWhy' /\ CutAfterSilence'
    BY <1>6, <2>4, <2>5, Zenon DEF PollInv, ExitTellsWhy, CutAfterSilence, Finished
  <2>. QED  BY <2>3, <2>6, Zenon DEF Safe
<1>b. CASE ch # "cr"
  <2>0. ch \notin Dropped
    BY <1>b DEF Dropped
  <2>1. /\ text' \in Seq(Tokens) /\ Len(text') <= 2
        /\ answer' \in {"none", "matched-ok", "matched-error", "hidden"}
        /\ LastTwo(text', s)
        /\ IF Match(s) = "none" THEN answer' = Hides(s) ELSE answer' = Match(s)
    BY <1>1, <1>b, HeardByte, Zenon
  <2>. HIDE DEF s
  <2>a. CASE ~Room
    <3>1. /\ polling' = FALSE /\ result' = "ENOSPC" /\ exit' = "buffer-full"
          /\ bytesReceived' = bytesReceived /\ response' = response
      BY <1>1, <2>0, <2>a, Zenon DEF Store, Fail
    <3>2. /\ polling' \in BOOLEAN /\ exit' \in Exits
          /\ result' \in {"OK", "ENODEV", "ENOSPC", "EIO", "ETIMEDOUT"}
      BY <3>1, Zenon DEF Exits
    <3>3. TypeOK'
      BY <1>4, <1>5, <1>7, <1>8, <2>1, <3>1, <3>2, Zenon DEF TypeOK
    <3>4. PollInv' /\ CutAfterSilence'
      BY <3>1, Zenon DEF PollInv, CutAfterSilence
    <3>5. ExitTellsWhy'
      BY <3>1, Zenon DEF ExitTellsWhy
    <3>. QED  BY <3>3, <3>4, <3>5, Zenon DEF Safe
  <2>b. CASE Room /\ Match(s) # "none"
    <3>1. Finish(s, TRUE, Match(s))
      BY <1>1, <2>0, <2>b, Zenon DEF Store, s
    <3>2. /\ polling' = FALSE /\ result' = "OK" /\ exit' = Match(s)
          /\ response' = Trimmed(s) /\ bytesReceived' = Len(Trimmed(s))
      BY <3>1, Zenon DEF Finish
    <3>3. Match(s) \in {"matched-ok", "matched-error"}
      BY <2>b, Zenon DEF Match
    <3>4. /\ polling' \in BOOLEAN /\ exit' \in Exits
          /\ result' \in {"OK", "ENODEV", "ENOSPC", "EIO", "ETIMEDOUT"}
      BY <3>2, <3>3, Zenon DEF Exits
    <3>5. /\ Trimmed(s) \in Seq(Tokens) /\ Len(Trimmed(s)) < ResponseSize
          /\ Len(Trimmed(s)) \in 0 .. ResponseSize - 1
      <4>1. Len(s) < ResponseSize
        BY <1>7, <2>b DEF Room
      <4>. QED  BY <1>7, <4>1, TrimmedFits, Zenon
    <3>6. TypeOK'
      BY <1>4, <1>5, <2>1, <3>2, <3>4, <3>5, Zenon DEF TypeOK
    <3>7. answer' = Match(s)
      BY <2>1, <2>b, Zenon
    <3>8. PollInv'
      BY <3>2, Zenon DEF PollInv
    <3>9. CutAfterSilence'
      BY <3>2, <3>3, Zenon DEF CutAfterSilence
    <3>10. ExitTellsWhy'
      BY <3>2, <3>3, <3>7, Zenon DEF ExitTellsWhy
    <3>. QED  BY <3>6, <3>8, <3>9, <3>10, Zenon DEF Safe
  <2>c. CASE Room /\ Match(s) = "none"
    <3>1. /\ polling' = polling /\ result' = result /\ response' = s
          /\ bytesReceived' = Len(s) /\ exit' = exit
      BY <1>1, <2>0, <2>c, Zenon DEF Store, GoOn, s
    <3>2. Len(s) < ResponseSize /\ Len(s) \in 0 .. ResponseSize - 1
      BY <1>7, <2>c, PollAssumption DEF Room
    <3>3. TypeOK'
      BY <1>4, <1>5, <1>7, <1>8, <2>1, <3>1, <3>2, Zenon DEF TypeOK
    <3>4. answer' = Hides(s)
      BY <2>1, <2>c, Zenon
    <3>5. Match(response') = "none"
      BY <2>c, <3>1 DEF Match
    <3>6. TextInv' /\ AnswerInv'
      BY <2>1, <3>1, <3>4, <3>5, Zenon DEF TextInv, AnswerInv, LastTwo, Hides
    <3>7. exit' = "none"
      BY <1>3, <3>1
    <3>8. PollInv' /\ ExitTellsWhy' /\ CutAfterSilence'
      BY <1>6, <3>6, <3>7, Zenon DEF PollInv, ExitTellsWhy, CutAfterSilence, Finished
    <3>. QED  BY <3>3, <3>8, Zenon DEF Safe
  <2>. QED  BY <2>a, <2>b, <2>c, Zenon
<1>. QED  BY <1>a, <1>b, Zenon

LEMMA PollNothingSafe ==
  ASSUME Safe, PollNothing
  PROVE  Safe'
<1>1. /\ polling /\ left > 0
      /\ sawAnyByte' = sawAnyByte /\ text' = text /\ answer' = answer
  BY Zenon DEF PollNothing
<1>2. exit = "none" /\ ClockInv /\ TextInv /\ AnswerInv
  BY <1>1, Zenon DEF Safe, PollInv
<1>3. TypeOK
  BY DEF Safe
<1>a. CASE sawAnyByte /\ interLeft = 0
  <2>1. /\ Finish(response, TRUE, "inter-char-timeout")
        /\ left' = left /\ interLeft' = interLeft /\ burst' = burst /\ quiet' = quiet
    BY <1>a, Zenon DEF PollNothing
  <2>2. /\ polling' = FALSE /\ result' = "OK" /\ exit' = "inter-char-timeout"
        /\ response' = Trimmed(response) /\ bytesReceived' = Len(Trimmed(response))
    BY <2>1, Zenon DEF Finish
  <2>3. /\ polling' \in BOOLEAN /\ exit' \in Exits
        /\ result' \in {"OK", "ENODEV", "ENOSPC", "EIO", "ETIMEDOUT"}
    BY <2>2, Zenon DEF Exits
  <2>4. /\ Trimmed(response) \in Seq(Tokens) /\ Len(Trimmed(response)) < ResponseSize
        /\ Len(Trimmed(response)) \in 0 .. ResponseSize - 1
    BY <1>3, TrimmedFits, Zenon DEF TypeOK
  <2>5. TypeOK'
    BY <1>1, <1>3, <2>1, <2>2, <2>3, <2>4, Zenon DEF TypeOK
  <2>6. PollInv'
    BY <2>2, Zenon DEF PollInv
  <2>7. answer' \in {"none", "hidden"}
    BY <1>1, <1>2, Zenon DEF AnswerInv
  <2>8. ExitTellsWhy'
    BY <2>2, <2>7, Zenon DEF ExitTellsWhy
  <2>9. quiet + interLeft = InterCharTicks
    BY <1>2, <1>a, Zenon DEF ClockInv
  <2>10. quiet' = InterCharTicks
    BY <1>3, <1>a, <2>1, <2>9 DEF TypeOK
  <2>11. CutAfterSilence'
    BY <2>10, Zenon DEF CutAfterSilence
  <2>. QED  BY <2>5, <2>6, <2>8, <2>11, Zenon DEF Safe
<1>b. CASE ~(sawAnyByte /\ interLeft = 0)
  <2>1. /\ polling' = polling /\ result' = result
        /\ response' = response /\ exit' = exit /\ bytesReceived' = bytesReceived
        /\ left' = left - 1 /\ interLeft' = Less(interLeft) /\ burst' = 0 /\ quiet' = quiet + 1
    BY <1>b, Zenon DEF PollNothing, GoOn
  <2>2. /\ left \in 0 .. ResponseTicks /\ interLeft \in 0 .. ResponseTicks
        /\ quiet \in 0 .. ResponseTicks
    BY <1>3, Zenon DEF TypeOK
  <2>3. left' \in 0 .. ResponseTicks /\ interLeft' \in 0 .. ResponseTicks
    BY <1>1, <2>1, <2>2, PollAssumption DEF Less
  <2>4. ClockInv' /\ quiet' \in 0 .. ResponseTicks
    <3>1. CASE sawAnyByte
      <4>1. quiet + interLeft = InterCharTicks
        BY <1>2, <3>1, Zenon DEF ClockInv
      <4>2. interLeft # 0
        BY <1>b, <3>1, Zenon
      <4>3. interLeft' = interLeft - 1
        BY <2>1, <4>2, Zenon DEF Less
      <4>4. /\ quiet' + interLeft' = InterCharTicks /\ quiet' \in 0 .. ResponseTicks
        BY <2>1, <2>2, <4>1, <4>2, <4>3, PollAssumption
      <4>. QED  BY <1>1, <3>1, <4>4, Zenon DEF ClockInv
    <3>2. CASE ~sawAnyByte
      <4>1. quiet + left = ResponseTicks
        BY <1>2, <3>2, Zenon DEF ClockInv
      <4>2. /\ quiet' + left' = ResponseTicks /\ quiet' \in 0 .. ResponseTicks
        BY <1>1, <2>1, <2>2, <4>1, PollAssumption
      <4>. QED  BY <1>1, <3>2, <4>2, Zenon DEF ClockInv
    <3>. QED  BY <3>1, <3>2, Zenon
  <2>5. burst' \in 0 .. MaxBurst
    BY <2>1, PollAssumption
  <2>6. TypeOK'
    BY <1>1, <1>3, <2>1, <2>3, <2>4, <2>5, Zenon DEF TypeOK
  <2>7. TextInv' /\ AnswerInv'
    BY <1>1, <1>2, <2>1 DEF TextInv, AnswerInv, Match
  <2>8. exit' = "none"
    BY <1>2, <2>1
  <2>9. PollInv' /\ ExitTellsWhy' /\ CutAfterSilence'
    BY <2>4, <2>7, <2>8, Zenon DEF PollInv, ExitTellsWhy, CutAfterSilence, Finished
  <2>. QED  BY <2>6, <2>9, Zenon DEF Safe
<1>. QED  BY <1>a, <1>b, Zenon

LEMMA PollErrorSafe ==
  ASSUME Safe, PollError
  PROVE  Safe'
<1>1. /\ polling' = FALSE /\ result' = "EIO" /\ exit' = "uart-error"
      /\ UNCHANGED <<bytesReceived, response, left, interLeft, sawAnyByte, burst, quiet, text, answer>>
  BY Zenon DEF PollError, Fail, history
<1>2. /\ polling' \in BOOLEAN /\ exit' \in Exits
      /\ result' \in {"OK", "ENODEV", "ENOSPC", "EIO", "ETIMEDOUT"}
  BY <1>1, Zenon DEF Exits
<1>3. TypeOK'
  BY <1>1, <1>2, Zenon DEF Safe, TypeOK
<1>4. PollInv' /\ CutAfterSilence'
  BY <1>1, Zenon DEF PollInv, CutAfterSilence
<1>5. ExitTellsWhy'
  BY <1>1, Zenon DEF ExitTellsWhy
<1>. QED  BY <1>3, <1>4, <1>5, Zenon DEF Safe

LEMMA DeadlineSafe ==
  ASSUME Safe, Deadline
  PROVE  Safe'
<1>1. /\ polling /\ Finish(response, sawAnyByte, "overall-timeout")
      /\ UNCHANGED <<left, interLeft, sawAnyByte, burst, quiet, text, answer>>
  BY Zenon DEF Deadline, history
<1>2. AnswerInv
  BY <1>1, Zenon DEF Safe, PollInv
<1>3. answer' \in {"none", "hidden"}
  BY <1>1, <1>2, Zenon DEF AnswerInv
<1>4. polling' = FALSE /\ exit' = "overall-timeout"
  BY <1>1, Zenon DEF Finish
<1>5. IF sawAnyByte
      THEN result' = "OK" /\ response' = Trimmed(response) /\ bytesReceived' = Len(Trimmed(response))
      ELSE result' = "ETIMEDOUT" /\ response' = response /\ bytesReceived' = bytesReceived
  BY <1>1, Zenon DEF Finish
<1>6. /\ polling' \in BOOLEAN /\ exit' \in Exits
      /\ result' \in {"OK", "ENODEV", "ENOSPC", "EIO", "ETIMEDOUT"}
  BY <1>4, <1>5, Zenon DEF Exits
<1>7. /\ response \in Seq(Tokens) /\ Len(response) < ResponseSize
      /\ bytesReceived \in 0 .. ResponseSize - 1
      /\ Trimmed(response) \in Seq(Tokens) /\ Len(Trimmed(response)) < ResponseSize
      /\ Len(Trimmed(response)) \in 0 .. ResponseSize - 1
  BY TrimmedFits, Zenon DEF Safe, TypeOK
<1>8. /\ response' \in Seq(Tokens) /\ Len(response') < ResponseSize
      /\ bytesReceived' \in 0 .. ResponseSize - 1
  BY <1>5, <1>7, Zenon
<1>9. TypeOK'
  BY <1>1, <1>6, <1>8, Zenon DEF Safe, TypeOK
<1>10. PollInv' /\ CutAfterSilence'
  BY <1>4, Zenon DEF PollInv, CutAfterSilence
<1>11. ExitTellsWhy'
  <2>1. CASE sawAnyByte
    <3>1. result' = "OK" /\ sawAnyByte'
      BY <1>1, <1>5, <2>1, Zenon
    <3>. QED  BY <1>3, <1>4, <3>1, Zenon DEF ExitTellsWhy
  <2>2. CASE ~sawAnyByte
    <3>1. result' = "ETIMEDOUT" /\ ~sawAnyByte'
      BY <1>1, <1>5, <2>2, Zenon
    <3>. QED  BY <1>3, <1>4, <3>1, Zenon DEF ExitTellsWhy
  <2>. QED  BY <2>1, <2>2, Zenon
<1>. QED  BY <1>9, <1>10, <1>11, Zenon DEF Safe

(* Every step of modem_at_send's loop keeps the inductive invariant.          *)
THEOREM PollSafe == Spec => []Safe
<1>1. Init => Safe
  BY InitSafe
<1>2. ASSUME Safe, [Next]_vars PROVE Safe'
  <2>1. CASE \E ready \in BOOLEAN : Send(ready)
    BY <1>2, <2>1, SendSafe, Zenon
  <2>2. CASE \E ch \in Tokens : PollByte(ch)
    BY <1>2, <2>2, PollByteSafe, Zenon
  <2>3. CASE PollNothing
    BY <1>2, <2>3, PollNothingSafe, Zenon
  <2>4. CASE PollError
    BY <1>2, <2>4, PollErrorSafe, Zenon
  <2>5. CASE Deadline
    BY <1>2, <2>5, DeadlineSafe, Zenon
  <2>6. CASE UNCHANGED vars
    <3>1. UNCHANGED <<polling, response, left, interLeft, result, exit, sawAnyByte, bytesReceived,
                      burst, quiet, text, answer>>
      BY <2>6, Zenon DEF vars, diagnostics, history
    <3>2. TypeOK'
      BY <1>2, <3>1, Zenon DEF Safe, TypeOK
    <3>3. ExitTellsWhy' /\ CutAfterSilence'
      BY <1>2, <3>1, Zenon DEF Safe, ExitTellsWhy, CutAfterSilence, Finished
    <3>4. PollInv'
      BY <1>2, <3>1 DEF Safe, PollInv, ClockInv, TextInv, AnswerInv, Match
    <3>. QED  BY <3>2, <3>3, <3>4, Zenon DEF Safe
  <2>. QED  BY <1>2, <2>1, <2>2, <2>3, <2>4, <2>5, <2>6, Zenon DEF Next, Poll
<1>. QED  BY <1>1, <1>2, PTL DEF Spec

(* What modem_at_send stores stays within the caller's buffer with its 0,    *)
(* as the length that the diagnostics report does.                          *)
THEOREM PollTypes == Spec => []TypeOK
BY PollSafe, PTL DEF Safe

(* The exit reason of modem_at_get_last_diagnostics names the first answer    *)
(* line that came, and tells every error and every other 0 apart.           *)
THEOREM ExitIsTrue == Spec => []ExitTellsWhy
BY PollSafe, PTL DEF Safe

(* modem_at_send takes an answer for complete only after a silence of the     *)
(* whole MODEM_AT_INTER_CHAR_TIMEOUT_MS, dropped bytes included.            *)
THEOREM CutIsSilence == Spec => []CutAfterSilence
BY PollSafe, PTL DEF Safe
=============================================================================
