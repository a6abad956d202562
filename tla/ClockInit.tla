----------------------------- MODULE ClockInit -----------------------------
(***************************************************************************)
(* clock_init of the board's soc.c: each stage of the boot (bootloader,    *)
(* then application) finds the clock tree as the stage before left it, and *)
(* either accepts it or programs it field by field while it runs on it.    *)
(*                                                                         *)
(* The fields of the clock controller are the fields of one record.  The   *)
(* frequencies (MHz) that follow from them are the hardware's.             *)
(***************************************************************************)
EXTENDS Naturals, Sequences

CONSTANTS
  PllDividers,  \* ARM PLL loop dividers an earlier stage may have set
  CoreRating,   \* the part's highest core frequency
  IpgRating,    \* and that of its peripheral bus
  Stages        \* how many stages run clock_init

(* The PLL locks on loop dividers from 54 to 108 only.                       *)
ASSUME ClockAssumption ==
  /\ PllDividers \subseteq 54 .. 108
  /\ CoreRating \in Nat /\ IpgRating \in Nat
  /\ Stages \in Nat \ {0}

VARIABLES
  regs,   \* the clock tree's fields
  volt,   \* VDD_SOC: as found, settling at the target, or there
  stage,  \* the boot stage
  pc,     \* "check", "program", "done"
  step    \* the next statement of the programming branch

vars == <<regs, volt, stage, pc, step>>

(* What clock_init wants each field to be.                                  *)
Wanted ==
  [arm_pll |-> 88, sys_pll |-> 1, arm_podf |-> 1, pre_periph |-> 3,
   periph_clk2 |-> 1, periph_clk2_podf |-> 0, periph |-> 0, ahb_podf |-> 0,
   ipg_podf |-> 3, perclk |-> 0, perclk_podf |-> 1, flexspi |-> 3,
   lpspi |-> 2, lpspi_podf |-> 7, lpi2c |-> 0, lpi2c_podf |-> 5,
   uart |-> 0, uart_podf |-> 0, lpm |-> 0]

Fields == DOMAIN Wanted

(* The fields it looks at: not the ARM divider, the system PLL and the      *)
(* low-power mode.                                                          *)
Checked == Fields \ {"arm_podf", "sys_pll", "lpm"}

---------------------------------------------------------------------------
(* The clock tree.  PERIPH is fed by PLL1 / ARM_PODF or PLL2, or by the      *)
(* auxiliary clock (24 MHz oscillator or PLL3).                             *)
ArmPll(r) == 12 * r.arm_pll
SysPll(r) == 480 + 48 * r.sys_pll

PrePeriph(r) == IF r.pre_periph = 3 THEN ArmPll(r) \div (r.arm_podf + 1)
                                    ELSE SysPll(r)
PeriphClk2(r) ==
  (IF r.periph_clk2 = 1 THEN 24 ELSE 480) \div (r.periph_clk2_podf + 1)

Core(r) ==
  (IF r.periph = 0 THEN PrePeriph(r) ELSE PeriphClk2(r)) \div (r.ahb_podf + 1)
Ipg(r) == Core(r) \div (r.ipg_podf + 1)

Rated(r) == Core(r) <= CoreRating /\ Ipg(r) <= IpgRating

(* The part may run at the clocks that clock_init wants.                     *)
ASSUME WantedAssumption == Rated(Wanted)

CoreUses(r, pll) ==
  r.periph = 0 /\ (r.pre_periph = 3 <=> pll = "arm_pll")

(* What the stage before may leave: any running tree within the rating, with *)
(* the peripherals' fields as wanted but for at most one.                  *)
CoreFields == {"arm_pll", "sys_pll", "arm_podf", "pre_periph", "periph_clk2",
               "periph", "ahb_podf", "ipg_podf"}

Another(v) == IF v = 0 THEN 1 ELSE v - 1

CoreTree(pll, sys, podf, pre, clk2, per, ahb, ipg) ==
  [Wanted EXCEPT !.arm_pll = pll, !.sys_pll = sys, !.arm_podf = podf,
                 !.pre_periph = pre, !.periph_clk2 = clk2, !.periph = per,
                 !.ahb_podf = ahb, !.ipg_podf = ipg]

CoreTrees ==
  {CoreTree(pll, sys, podf, pre, clk2, per, ahb, ipg) :
     pll \in PllDividers, sys \in 0 .. 1, podf \in 0 .. 1, pre \in {0, 3},
     clk2 \in 0 .. 1, per \in 0 .. 1, ahb \in 0 .. 1, ipg \in {1, 3}}

FoundTrees ==
  LET odd == {[r EXCEPT ![f] = Another(@)] : r \in CoreTrees, f \in Fields \ CoreFields}
  IN {r \in CoreTrees \cup odd : Rated(r)}

---------------------------------------------------------------------------
(* The programming branch, statement by statement.                          *)
Set(f, v) == [op |-> "set", field |-> f, value |-> v]
Do(op)    == [op |-> op, field |-> "none", value |-> 0]

ParkCore   == <<Set("periph_clk2", 1), Set("periph", 1)>>
SetVoltage == <<Do("voltage"), Do("await")>>
SetPlls    == <<Set("arm_pll", 88), Set("sys_pll", 1)>>
SetPodfs   == <<Set("arm_podf", 1), Set("ahb_podf", 0), Set("ipg_podf", 3)>>
UnparkCore == <<Set("pre_periph", 3), Set("periph", 0)>>
SetPeripherals ==
  <<Set("uart", 0), Set("uart_podf", 0), Set("lpi2c", 0), Set("lpi2c_podf", 5),
    Set("lpspi", 2), Set("lpspi_podf", 7), Set("lpm", 0)>>

\* Bugs to exclude: the core goes back to the PLL before its divider is set;
\* the PLL is changed under the core; a peripheral is forgotten.
ProgramUnparksEarly ==
  ParkCore \o SetVoltage \o SetPlls \o UnparkCore \o SetPodfs \o SetPeripherals
ProgramWithoutParking ==
  SetVoltage \o SetPlls \o SetPodfs \o UnparkCore \o SetPeripherals
ProgramForgetsUart ==
  ParkCore \o SetVoltage \o SetPlls \o SetPodfs \o UnparkCore
    \o SubSeq(SetPeripherals, 3, 7)

Program ==
  ParkCore \o SetVoltage \o SetPlls \o SetPodfs \o UnparkCore \o SetPeripherals

(* The fields that are checked but that no statement writes.                *)
Kept == {"periph_clk2_podf", "perclk", "perclk_podf", "flexspi"}

---------------------------------------------------------------------------
Init ==
  /\ regs \in FoundTrees
  /\ volt = "found"
  /\ stage = 1
  /\ pc = "check"
  /\ step = 1

(* The condition: a tree that is as wanted is kept, any other is programmed. *)
Accept ==
  /\ pc = "check"
  /\ \A f \in Checked : regs[f] = Wanted[f]
  /\ pc' = "done"
  /\ UNCHANGED <<regs, volt, stage, step>>

Reject ==
  /\ pc = "check"
  /\ \E f \in Checked : regs[f] # Wanted[f]
  /\ pc' = "program" /\ step' = 1
  /\ UNCHANGED <<regs, volt, stage>>

Doing(op) == pc = "program" /\ Program[step].op = op

Advance ==
  IF step = Len(Program) THEN pc' = "done" /\ UNCHANGED step
                         ELSE step' = step + 1 /\ UNCHANGED pc

(* CLOCK_SetMux, CLOCK_SetDiv, CLOCK_Init...Pll, CLOCK_SetMode               *)
WriteField ==
  /\ Doing("set")
  /\ regs' = [regs EXCEPT ![Program[step].field] = Program[step].value]
  /\ Advance
  /\ UNCHANGED <<volt, stage>>

TargetVoltage ==
  /\ Doing("voltage")
  /\ volt' = IF volt = "there" THEN "there" ELSE "settling"
  /\ Advance
  /\ UNCHANGED <<regs, stage>>

AwaitVoltage ==
  /\ Doing("await")
  /\ volt = "there"
  /\ Advance
  /\ UNCHANGED <<regs, volt, stage>>

(* The converter asserts DC_OK.                                             *)
Settle ==
  /\ volt = "settling"
  /\ volt' = "there"
  /\ UNCHANGED <<regs, stage, pc, step>>

(* The next stage starts with the tree this one leaves.                     *)
NextStage ==
  /\ pc = "done" /\ stage < Stages
  /\ stage' = stage + 1
  /\ pc' = "check"
  /\ UNCHANGED <<regs, volt, step>>

Next == Accept \/ Reject \/ WriteField \/ TargetVoltage \/ AwaitVoltage \/ Settle \/ NextStage

Spec == Init /\ [][Next]_vars

---------------------------------------------------------------------------
(* Properties.                                                              *)

(* Whatever tree clock_init finds, no statement of it leaves the core or the *)
(* peripheral bus above the part's rating, not even until the next one.     *)
WithinRating == Rated(regs)

(* No PLL is reprogrammed while the core runs on it, and the core never goes *)
(* faster before the voltage for it is there.                               *)
QuietChange ==
  [][/\ \A pll \in {"arm_pll", "sys_pll"} :
          regs'[pll] # regs[pll] => ~CoreUses(regs, pll)
     /\ Core(regs') > Core(regs) => volt = "there"]_vars

(* The branch writes what the condition asks for: the application accepts    *)
(* the tree the bootloader programmed and leaves the running clocks alone,  *)
(* provided the fields the branch does not write were right.                *)
ProgrammedOnce ==
  stage > 1 /\ (\A f \in Kept : regs[f] = Wanted[f]) => pc # "program"

(* What the comment above the branch says: if any clock is not configured,   *)
(* it is configured explicitly.  The code does not: four of the fields it   *)
(* checks are never written.                                                *)
ConfiguredWhenDone ==
  pc = "done" => \A f \in Checked : regs[f] = Wanted[f]

---------------------------------------------------------------------------
(* What makes WithinRating, QuietChange and ProgrammedOnce inductive: of the  *)
(* statements that ran, the last one to write a field still holds; from the  *)
(* wait on the voltage is there; a field that the branch does not write was  *)
(* wrong if the branch runs in a later stage.                               *)
TreeInv ==
  /\ regs \in [Fields -> Nat]
  /\ regs.arm_pll \in 54 .. 108 /\ regs.arm_podf \in 0 .. 7

Holds(n) ==
  \A i \in 1 .. n :
    Program[i].op = "set" /\ (\A j \in i + 1 .. n : Program[j].field # Program[i].field)
      => regs[Program[i].field] = Program[i].value

BranchInv ==
  pc = "program" =>
    /\ step \in 1 .. Len(Program)
    /\ Holds(step - 1)
    /\ (\E i \in 1 .. step - 1 : Program[i].op = "await") => volt = "there"
    /\ stage > 1 => \E f \in Kept : regs[f] # Wanted[f]

BootInv ==
  /\ pc \in {"check", "program", "done"} /\ stage \in Nat \ {0}
  /\ TreeInv /\ BranchInv
  /\ pc = "done" \/ (pc = "check" /\ stage > 1)
       => \A f \in Checked \ Kept : regs[f] = Wanted[f]
=============================================================================
