------------------------- MODULE PassthroughEscape -------------------------
(***************************************************************************)
(* How modem_passthrough_bypass_cb finds the escape, Ctrl-X then Ctrl-Q, in *)
(* what is typed during a passthrough session.  The shell hands the input  *)
(* over in chunks cut anywhere, also between the two keys; the callback    *)
(* remembers one byte, passthroughTail, from call to call.  ModemPassthrough*)
(* abstracts a call to TypedData or TypedEscape.                           *)
(***************************************************************************)
EXTENDS Naturals, Sequences

CONSTANTS
  Keys,      \* the bytes a terminal may send
  MaxChunk,  \* most bytes in one call
  MaxTyped   \* bound: bytes typed in one session

EscapePrefix == 24   \* Ctrl-X, MODEM_PASSTHROUGH_ESCAPE_PREFIX
EscapeSuffix == 17   \* Ctrl-Q, MODEM_PASSTHROUGH_ESCAPE_SUFFIX

ASSUME EscapeAssumption ==
  /\ {EscapePrefix, EscapeSuffix} \subseteq Keys
  /\ Keys \subseteq 0 .. 255
  /\ MaxChunk \in Nat
  /\ MaxTyped \in Nat

VARIABLES
  active,    \* passthroughActive
  tail,      \* passthroughTail
  typed,     \* history: everything typed since the session started
  forwarded  \* history: what of it went to the modem

vars == <<active, tail, typed, forwarded>>

Chunks == UNION {[1 .. n -> Keys] : n \in 0 .. MaxChunk}

TypeOK ==
  /\ active \in BOOLEAN
  /\ tail \in Keys \cup {0}
  /\ typed \in Seq(Keys)
  /\ forwarded \in Seq(Keys)

Init ==
  /\ active = FALSE
  /\ tail = 0
  /\ typed = <<>>
  /\ forwarded = <<>>

(* The end of cmd_modem_passthrough: a new session, no key typed yet.       *)
Start ==
  /\ ~active
  /\ active' = TRUE
  /\ tail' = 0
  /\ typed' = <<>>
  /\ forwarded' = <<>>

(* The two keys next to each other somewhere in s.                          *)
HasEscape(s) ==
  \E i \in 1 .. Len(s) : i + 1 <= Len(s) /\ s[i] = EscapePrefix /\ s[i + 1] = EscapeSuffix

\* A bug to exclude: only the pair inside one chunk is looked for.
EscapesInChunkOnly(data) == HasEscape(data)

(* The test of the callback: across the cut, or inside the chunk.           *)
Escapes(data) ==
  \/ tail = EscapePrefix /\ data[1] = EscapeSuffix
  \/ HasEscape(data)

\* A bug to exclude: the chunk goes out before it is looked at.
InputForwardsFirst(data) ==
  /\ active
  /\ data # <<>>
  /\ active' = ~Escapes(data)
  /\ tail' = IF Escapes(data) THEN 0 ELSE data[Len(data)]
  /\ typed' = typed \o data
  /\ forwarded' = forwarded \o data

\* A bug to exclude: what is remembered is where the last byte is.
InputKeepsIndex(data) ==
  /\ active
  /\ data # <<>>
  /\ active' = ~Escapes(data)
  /\ tail' = IF Escapes(data) THEN 0 ELSE Len(data) - 1
  /\ typed' = typed \o data
  /\ forwarded' = IF Escapes(data) THEN forwarded ELSE forwarded \o data

(* One call of modem_passthrough_bypass_cb with data; an empty call changes  *)
(* nothing.  An escape stops the session and the chunk it is in is dropped, *)
(* the bytes before the escape included.  The write cannot fail here: it    *)
(* does only if the UART is not ready, and then no session starts.          *)
Input(data) ==
  /\ active
  /\ data # <<>>
  /\ active' = ~Escapes(data)
  /\ tail' = IF Escapes(data) THEN 0 ELSE data[Len(data)]
  /\ typed' = typed \o data
  /\ forwarded' = IF Escapes(data) THEN forwarded ELSE forwarded \o data

Next ==
  \/ Start
  \/ \E data \in Chunks : Len(typed) + Len(data) <= MaxTyped /\ Input(data)

Spec == Init /\ [][Next]_vars

---------------------------------------------------------------------------
(* Properties.                                                              *)

(* However the input is cut into chunks, the session ends with the first     *)
(* call by which Ctrl-X, Ctrl-Q was typed, and with no other.  (Before the  *)
(* first session nothing is typed and none is active.)                      *)
EscapeExact == typed # <<>> => (active <=> ~HasEscape(typed))

(* While the session is on the modem got every typed byte, in order; when it *)
(* has ended, it never saw the escape pair.                                 *)
ForwardedExact ==
  /\ active => forwarded = typed
  /\ ~HasEscape(forwarded)

---------------------------------------------------------------------------
(* What makes the two inductive: the remembered byte is the last typed one.  *)
TailInv ==
  active => tail = IF typed = <<>> THEN 0 ELSE typed[Len(typed)]
=============================================================================
