-------------------------- MODULE PowerOnRequests --------------------------
(***************************************************************************)
(* What `modem power on|cycle` takes its exchanges for: requests, one at a  *)
(* time, each answered for itself.  A request is put to the modem, the modem*)
(* makes up its mind about it, and the command reports what became of this  *)
(* request and not of an earlier one.  There are no queues here, no late    *)
(* answers and no timeouts.  ModemPowerOn implements this for a modem that  *)
(* is never late.                                                          *)
(***************************************************************************)
VARIABLES
  asking,   \* the request the command is at, or "nothing"
  outcome,  \* what the modem made of it, or "none" so far
  result,   \* what the last request, or the last command, returned
  awake     \* since power on, the modem has accepted AT+KSLEEP=2

vars == <<asking, outcome, result, awake>>

Requests == {"AT", "AT+KSLEEP=2"}

Init == asking = "nothing" /\ outcome = "none" /\ result = "ENODEV" /\ awake = FALSE

PowerOn ==
  /\ asking = "nothing"
  /\ \/ asking' = "AT" /\ result' = "ETIMEDOUT"
     \/ asking' = asking /\ result' = "EIO"
  /\ awake' = FALSE
  /\ UNCHANGED outcome

(* The modem accepts the request, refuses it or loses it.                   *)
Decide(o) ==
  /\ asking # "nothing" /\ outcome = "none"
  /\ outcome' = o
  /\ awake' = (awake \/ (asking = "AT+KSLEEP=2" /\ o = "OK"))
  /\ UNCHANGED <<asking, result>>

Reported == CASE outcome = "none" -> "ENODEV"     \* it could not be put
              [] outcome = "lost" -> "ETIMEDOUT"
              [] outcome = "EIO"  -> "EIO"
              [] outcome = "OK"   -> "OK"

(* After an accepted AT comes AT+KSLEEP=2; one that was not accepted may be  *)
(* repeated.                                                               *)
Report ==
  /\ asking # "nothing"
  /\ result' = Reported
  /\ asking' \in IF asking = "AT+KSLEEP=2" THEN {"nothing"}
                 ELSE IF outcome = "OK" THEN {"AT+KSLEEP=2"} ELSE {"AT", "nothing"}
  /\ outcome' = "none"
  /\ UNCHANGED awake

Next == PowerOn \/ (\E o \in {"OK", "EIO", "lost"} : Decide(o)) \/ Report

Spec == Init /\ [][Next]_vars

---------------------------------------------------------------------------
(* What power on promises, and the invariant behind it.                     *)
OkMeansAwake == asking = "nothing" /\ result = "OK" => awake

RequestInv ==
  /\ asking \in Requests \cup {"nothing"}
  /\ outcome \in {"none", "OK", "EIO", "lost"}
  /\ asking = "nothing" => outcome = "none"
  /\ asking = "AT+KSLEEP=2" /\ outcome = "OK" => awake
  /\ OkMeansAwake
=============================================================================
