------------------------------ MODULE RxLease ------------------------------
(***************************************************************************)
(* What the users of the modem's receive path promise each other: the path *)
(* is free or lent to one of them, it goes from one to the next only        *)
(* through free, and what reaches the screen reaches it while passthrough  *)
(* holds the path, in the order of arrival and never twice.                *)
(* ModemPassthrough implements this.                                       *)
(***************************************************************************)
EXTENDS Naturals, Sequences

VARIABLES
  holder,   \* who holds the path
  screen    \* the bytes that were handed to the passthrough session

vars == <<holder, screen>>

Holders == {"none", "at", "passthrough"}

InOrder(s) == \A i, j \in 1 .. Len(s) : i < j => s[i] < s[j]

Init == holder = "none" /\ screen = <<>>

Lend(o) == holder = "none" /\ holder' = o /\ UNCHANGED screen

GiveBack == holder # "none" /\ holder' = "none" /\ UNCHANGED screen

(* Later bytes than all before are added to the screen.                     *)
Deliver ==
  /\ holder = "passthrough"
  /\ Len(screen') > Len(screen)
  /\ SubSeq(screen', 1, Len(screen)) = screen
  /\ InOrder(screen')
  /\ UNCHANGED holder

Next == (\E o \in Holders : Lend(o)) \/ GiveBack \/ Deliver

Spec == Init /\ [][Next]_vars
=============================================================================
