--------------------------- MODULE ClockInit_proofs ---------------------------
(***************************************************************************)
(* clock_init never overclocks the part, changes no PLL under the core and   *)
(* programs what it tests, whatever loop dividers an earlier stage may have  *)
(* set, on any part that is rated for the wanted tree, and for any number of  *)
(* stages.  BootInv is the inductive core; it speaks of the program as of a *)
(* list of statements, and the first part tells what that list is.          *)
(***************************************************************************)
EXTENDS ClockInit, SequenceTheorems, TLAPS

Statement ==
  {Set("periph_clk2", 1), Set("periph", 1), Do("voltage"), Do("await"),
   Set("arm_pll", 88), Set("sys_pll", 1), Set("arm_podf", 1), Set("ahb_podf", 0),
   Set("ipg_podf", 3), Set("pre_periph", 3), Set("periph", 0), Set("uart", 0),
   Set("uart_podf", 0), Set("lpi2c", 0), Set("lpi2c_podf", 5), Set("lpspi", 2),
   Set("lpspi_podf", 7), Set("lpm", 0)}

LEMMA SetIs ==
  ASSUME NEW f, NEW v
  PROVE  Set(f, v).op = "set" /\ Set(f, v).field = f /\ Set(f, v).value = v
BY DEF Set

LEMMA DoIs ==
  ASSUME NEW op
  PROVE  Do(op).op = op /\ Do(op).field = "none"
BY DEF Do

LEMMA PartsAre ==
  /\ ParkCore \in Seq(Statement) /\ Len(ParkCore) = 2
  /\ SetVoltage \in Seq(Statement) /\ Len(SetVoltage) = 2
  /\ SetPlls \in Seq(Statement) /\ Len(SetPlls) = 2
  /\ SetPodfs \in Seq(Statement) /\ Len(SetPodfs) = 3
  /\ UnparkCore \in Seq(Statement) /\ Len(UnparkCore) = 2
  /\ SetPeripherals \in Seq(Statement) /\ Len(SetPeripherals) = 7
<1>1. ParkCore \in Seq(Statement) /\ Len(ParkCore) = 2
  BY DEF Statement, ParkCore
<1>2. SetVoltage \in Seq(Statement) /\ Len(SetVoltage) = 2
  BY DEF Statement, SetVoltage
<1>3. SetPlls \in Seq(Statement) /\ Len(SetPlls) = 2
  BY DEF Statement, SetPlls
<1>4. SetPodfs \in Seq(Statement) /\ Len(SetPodfs) = 3
  BY DEF Statement, SetPodfs
<1>5. UnparkCore \in Seq(Statement) /\ Len(UnparkCore) = 2
  BY DEF Statement, UnparkCore
<1>6. SetPeripherals \in Seq(Statement) /\ Len(SetPeripherals) = 7
  BY DEF Statement, SetPeripherals
<1>. QED  BY <1>1, <1>2, <1>3, <1>4, <1>5, <1>6

(* Where the statements of t are in s \o t.                                 *)
LEMMA Joined ==
  ASSUME NEW s \in Seq(Statement), NEW t \in Seq(Statement)
  PROVE  /\ s \o t \in Seq(Statement) /\ Len(s \o t) = Len(s) + Len(t)
         /\ \A i \in 1 .. Len(s) : (s \o t)[i] = s[i]
         /\ \A i \in 1 .. Len(t) : (s \o t)[Len(s) + i] = t[i]
<1>1. Len(s) \in Nat /\ Len(t) \in Nat
  BY LenProperties
<1>2. /\ s \o t \in Seq(Statement) /\ Len(s \o t) = Len(s) + Len(t)
      /\ \A i \in 1 .. Len(s) + Len(t) :
           (s \o t)[i] = IF i <= Len(s) THEN s[i] ELSE t[i - Len(s)]
  BY ConcatProperties
<1>3. ASSUME NEW i \in 1 .. Len(t) PROVE (s \o t)[Len(s) + i] = t[i]
  BY <1>1, <1>2
<1>4. ASSUME NEW i \in 1 .. Len(s) PROVE (s \o t)[i] = s[i]
  BY <1>1, <1>2
<1>. QED  BY <1>2, <1>3, <1>4

LEMMA ProgramIs ==
  /\ Len(Program) = 18
  /\ Program[1] = Set("periph_clk2", 1) /\ Program[2] = Set("periph", 1)
  /\ Program[3] = Do("voltage") /\ Program[4] = Do("await")
  /\ Program[5] = Set("arm_pll", 88) /\ Program[6] = Set("sys_pll", 1)
  /\ Program[7] = Set("arm_podf", 1) /\ Program[8] = Set("ahb_podf", 0)
  /\ Program[9] = Set("ipg_podf", 3) /\ Program[10] = Set("pre_periph", 3)
  /\ Program[11] = Set("periph", 0)
  /\ Program[12] = Set("uart", 0) /\ Program[13] = Set("uart_podf", 0)
  /\ Program[14] = Set("lpi2c", 0) /\ Program[15] = Set("lpi2c_podf", 5)
  /\ Program[16] = Set("lpspi", 2) /\ Program[17] = Set("lpspi_podf", 7)
  /\ Program[18] = Set("lpm", 0)
<1>. DEFINE p1 == ParkCore \o SetVoltage
            p2 == p1 \o SetPlls
            p3 == p2 \o SetPodfs
            p4 == p3 \o UnparkCore
            p5 == p4 \o SetPeripherals
<1>1. /\ p1 \in Seq(Statement) /\ Len(p1) = 4
      /\ p1[1] = Set("periph_clk2", 1) /\ p1[2] = Set("periph", 1)
      /\ p1[3] = Do("voltage") /\ p1[4] = Do("await")
  <2>1. /\ ParkCore[1] = Set("periph_clk2", 1) /\ ParkCore[2] = Set("periph", 1)
        /\ SetVoltage[1] = Do("voltage") /\ SetVoltage[2] = Do("await")
    BY DEF ParkCore, SetVoltage
  <2>2. /\ p1 \in Seq(Statement) /\ Len(p1) = Len(ParkCore) + Len(SetVoltage)
        /\ \A i \in 1 .. Len(ParkCore) : p1[i] = ParkCore[i]
        /\ \A i \in 1 .. Len(SetVoltage) : p1[Len(ParkCore) + i] = SetVoltage[i]
    BY PartsAre, Joined
  <2>. HIDE DEF p1
  <2>. QED  BY PartsAre, <2>1, <2>2
<1>. HIDE DEF p1
<1>2. /\ p2 \in Seq(Statement) /\ Len(p2) = 6
      /\ \A i \in 1 .. 4 : p2[i] = p1[i]
      /\ p2[5] = Set("arm_pll", 88) /\ p2[6] = Set("sys_pll", 1)
  <2>1. SetPlls[1] = Set("arm_pll", 88) /\ SetPlls[2] = Set("sys_pll", 1)
    BY DEF SetPlls
  <2>2. /\ p2 \in Seq(Statement) /\ Len(p2) = Len(p1) + Len(SetPlls)
        /\ \A i \in 1 .. Len(p1) : p2[i] = p1[i]
        /\ \A i \in 1 .. Len(SetPlls) : p2[Len(p1) + i] = SetPlls[i]
    BY <1>1, PartsAre, Joined
  <2>. HIDE DEF p2
  <2>. QED  BY <1>1, PartsAre, <2>1, <2>2
<1>. HIDE DEF p2
<1>3. /\ p3 \in Seq(Statement) /\ Len(p3) = 9
      /\ \A i \in 1 .. 6 : p3[i] = p2[i]
      /\ p3[7] = Set("arm_podf", 1) /\ p3[8] = Set("ahb_podf", 0) /\ p3[9] = Set("ipg_podf", 3)
  <2>1. /\ SetPodfs[1] = Set("arm_podf", 1) /\ SetPodfs[2] = Set("ahb_podf", 0)
        /\ SetPodfs[3] = Set("ipg_podf", 3)
    BY DEF SetPodfs
  <2>2. /\ p3 \in Seq(Statement) /\ Len(p3) = Len(p2) + Len(SetPodfs)
        /\ \A i \in 1 .. Len(p2) : p3[i] = p2[i]
        /\ \A i \in 1 .. Len(SetPodfs) : p3[Len(p2) + i] = SetPodfs[i]
    BY <1>2, PartsAre, Joined
  <2>. HIDE DEF p3
  <2>. QED  BY <1>2, PartsAre, <2>1, <2>2
<1>. HIDE DEF p3
<1>4. /\ p4 \in Seq(Statement) /\ Len(p4) = 11
      /\ \A i \in 1 .. 9 : p4[i] = p3[i]
      /\ p4[10] = Set("pre_periph", 3) /\ p4[11] = Set("periph", 0)
  <2>1. UnparkCore[1] = Set("pre_periph", 3) /\ UnparkCore[2] = Set("periph", 0)
    BY DEF UnparkCore
  <2>2. /\ p4 \in Seq(Statement) /\ Len(p4) = Len(p3) + Len(UnparkCore)
        /\ \A i \in 1 .. Len(p3) : p4[i] = p3[i]
        /\ \A i \in 1 .. Len(UnparkCore) : p4[Len(p3) + i] = UnparkCore[i]
    BY <1>3, PartsAre, Joined
  <2>. HIDE DEF p4
  <2>. QED  BY <1>3, PartsAre, <2>1, <2>2
<1>. HIDE DEF p4
<1>5. /\ p5 \in Seq(Statement) /\ Len(p5) = 18
      /\ \A i \in 1 .. 11 : p5[i] = p4[i]
      /\ p5[12] = Set("uart", 0) /\ p5[13] = Set("uart_podf", 0)
      /\ p5[14] = Set("lpi2c", 0) /\ p5[15] = Set("lpi2c_podf", 5)
      /\ p5[16] = Set("lpspi", 2) /\ p5[17] = Set("lpspi_podf", 7) /\ p5[18] = Set("lpm", 0)
  <2>1. /\ SetPeripherals[1] = Set("uart", 0) /\ SetPeripherals[2] = Set("uart_podf", 0)
        /\ SetPeripherals[3] = Set("lpi2c", 0) /\ SetPeripherals[4] = Set("lpi2c_podf", 5)
        /\ SetPeripherals[5] = Set("lpspi", 2) /\ SetPeripherals[6] = Set("lpspi_podf", 7)
        /\ SetPeripherals[7] = Set("lpm", 0)
    BY DEF SetPeripherals
  <2>2. /\ p5 \in Seq(Statement) /\ Len(p5) = Len(p4) + Len(SetPeripherals)
        /\ \A i \in 1 .. Len(p4) : p5[i] = p4[i]
        /\ \A i \in 1 .. Len(SetPeripherals) : p5[Len(p4) + i] = SetPeripherals[i]
    BY <1>4, PartsAre, Joined
  <2>. HIDE DEF p5
  <2>. QED  BY <1>4, PartsAre, <2>1, <2>2
<1>6. Program = p5
  BY DEF Program, p1, p2, p3, p4
<1>. HIDE DEF p5
<1>. QED  BY <1>1, <1>2, <1>3, <1>4, <1>5, <1>6

LEMMA ProgramFields ==
  /\ Program[1].field = "periph_clk2" /\ Program[1].value = 1 /\ Program[1].op = "set"
  /\ Program[2].field = "periph" /\ Program[2].value = 1 /\ Program[2].op = "set"
  /\ Program[3].field = "none" /\ Program[3].op = "voltage"
  /\ Program[4].field = "none" /\ Program[4].op = "await"
  /\ Program[5].field = "arm_pll" /\ Program[5].value = 88 /\ Program[5].op = "set"
  /\ Program[6].field = "sys_pll" /\ Program[6].value = 1 /\ Program[6].op = "set"
  /\ Program[7].field = "arm_podf" /\ Program[7].value = 1 /\ Program[7].op = "set"
  /\ Program[8].field = "ahb_podf" /\ Program[8].value = 0 /\ Program[8].op = "set"
  /\ Program[9].field = "ipg_podf" /\ Program[9].value = 3 /\ Program[9].op = "set"
  /\ Program[10].field = "pre_periph" /\ Program[10].value = 3 /\ Program[10].op = "set"
  /\ Program[11].field = "periph" /\ Program[11].value = 0 /\ Program[11].op = "set"
  /\ Program[12].field = "uart" /\ Program[12].value = 0 /\ Program[12].op = "set"
  /\ Program[13].field = "uart_podf" /\ Program[13].value = 0 /\ Program[13].op = "set"
  /\ Program[14].field = "lpi2c" /\ Program[14].value = 0 /\ Program[14].op = "set"
  /\ Program[15].field = "lpi2c_podf" /\ Program[15].value = 5 /\ Program[15].op = "set"
  /\ Program[16].field = "lpspi" /\ Program[16].value = 2 /\ Program[16].op = "set"
  /\ Program[17].field = "lpspi_podf" /\ Program[17].value = 7 /\ Program[17].op = "set"
  /\ Program[18].field = "lpm" /\ Program[18].value = 0 /\ Program[18].op = "set"
BY ProgramIs, SetIs, DoIs

LEMMA FieldsAre ==
  Fields = {"arm_pll", "sys_pll", "arm_podf", "pre_periph", "periph_clk2", "periph_clk2_podf",
            "periph", "ahb_podf", "ipg_podf", "perclk", "perclk_podf", "flexspi", "lpspi",
            "lpspi_podf", "lpi2c", "lpi2c_podf", "uart", "uart_podf", "lpm"}
BY DEF Fields, Wanted

LEMMA PlaceIs ==
  ASSUME NEW i \in 1 .. 18
  PROVE  \/ i = 1 \/ i = 2 \/ i = 3 \/ i = 4 \/ i = 5 \/ i = 6 \/ i = 7 \/ i = 8 \/ i = 9
         \/ i = 10 \/ i = 11 \/ i = 12 \/ i = 13 \/ i = 14 \/ i = 15 \/ i = 16 \/ i = 17 \/ i = 18
OBVIOUS

(* Only the switch of the core is written twice: away from the PLL and back. *)
LEMMA WrittenOnce ==
  ASSUME NEW i \in 1 .. 18, NEW j \in 1 .. 18, i < j, Program[i].op = "set",
         Program[i].field = Program[j].field
  PROVE  i = 2 /\ j = 11
BY ProgramFields, PlaceIs

LEMMA WrittenType ==
  ASSUME NEW i \in 1 .. 18, Program[i].op = "set"
  PROVE  /\ Program[i].field \in Fields \ Kept /\ Program[i].value \in Nat
         /\ Program[i].field = "arm_pll" => i = 5 /\ Program[i].value = 88
         /\ Program[i].field = "sys_pll" => i = 6
         /\ Program[i].field = "arm_podf" => Program[i].value = 1
BY ProgramFields, PlaceIs, FieldsAre DEF Kept

---------------------------------------------------------------------------
(* What ran still holds, and what follows from it.                          *)

HoldsIn(r, n) ==
  \A i \in 1 .. n :
    Program[i].op = "set" /\ (\A j \in i + 1 .. n : Program[j].field # Program[i].field)
      => r[Program[i].field] = Program[i].value

LEMMA Written ==
  ASSUME NEW r, NEW n \in 1 .. 18, HoldsIn(r, n), NEW i \in 1 .. n, Program[i].op = "set",
         i # 2 \/ n < 11
  PROVE  r[Program[i].field] = Program[i].value
<1>1. \A j \in i + 1 .. n : i \in 1 .. 18 /\ j \in 1 .. 18 /\ i < j /\ ~(i = 2 /\ j = 11)
  OBVIOUS
<1>2. \A j \in i + 1 .. n : Program[j].field # Program[i].field
  BY <1>1, WrittenOnce
<1>. QED  BY <1>2 DEF HoldsIn

LEMMA HoldsParked ==
  ASSUME NEW r, NEW n \in 2 .. 10, HoldsIn(r, n)
  PROVE  r.periph = 1 /\ r.periph_clk2 = 1
<1>1. n \in 1 .. 18 /\ 1 \in 1 .. n /\ 2 \in 1 .. n /\ n < 11 /\ 1 # 2
  OBVIOUS
<1>. QED  BY <1>1, Written, ProgramFields

LEMMA HoldsUnparked ==
  ASSUME NEW r, NEW n \in 11 .. 18, HoldsIn(r, n)
  PROVE  /\ r.arm_pll = 88 /\ r.arm_podf = 1 /\ r.pre_periph = 3 /\ r.periph = 0
         /\ r.ahb_podf = 0 /\ r.ipg_podf = 3
<1>1. /\ n \in 1 .. 18 /\ 5 \in 1 .. n /\ 7 \in 1 .. n /\ 8 \in 1 .. n /\ 9 \in 1 .. n
      /\ 10 \in 1 .. n /\ 11 \in 1 .. n
  OBVIOUS
<1>. QED  BY <1>1, Written, ProgramFields

LEMMA HoldsAll ==
  ASSUME NEW r, HoldsIn(r, 18)
  PROVE  \A f \in Checked \ Kept : r[f] = Wanted[f]
<1>1. \A i \in 1 .. 18 : Program[i].op = "set" /\ i # 2 => r[Program[i].field] = Program[i].value
  BY Written
<1>2. /\ r.periph_clk2 = 1 /\ r.arm_pll = 88 /\ r.ahb_podf = 0 /\ r.ipg_podf = 3
      /\ r.pre_periph = 3 /\ r.periph = 0 /\ r.uart = 0 /\ r.uart_podf = 0
      /\ r.lpi2c = 0 /\ r.lpi2c_podf = 5 /\ r.lpspi = 2 /\ r.lpspi_podf = 7
  BY <1>1, ProgramFields
<1>3. /\ Wanted.periph_clk2 = 1 /\ Wanted.arm_pll = 88 /\ Wanted.ahb_podf = 0 /\ Wanted.ipg_podf = 3
      /\ Wanted.pre_periph = 3 /\ Wanted.periph = 0 /\ Wanted.uart = 0 /\ Wanted.uart_podf = 0
      /\ Wanted.lpi2c = 0 /\ Wanted.lpi2c_podf = 5 /\ Wanted.lpspi = 2 /\ Wanted.lpspi_podf = 7
  BY DEF Wanted
<1>4. Checked \ Kept = {"periph_clk2", "arm_pll", "ahb_podf", "ipg_podf", "pre_periph", "periph",
                        "uart", "uart_podf", "lpi2c", "lpi2c_podf", "lpspi", "lpspi_podf"}
  BY FieldsAre DEF Checked, Kept
<1>. QED  BY <1>2, <1>3, <1>4

LEMMA HoldsNext ==
  ASSUME NEW k \in 1 .. 18, NEW r \in [Fields -> Nat], HoldsIn(r, k - 1), NEW q,
         \/ /\ Program[k].op = "set"
            /\ q = [r EXCEPT ![Program[k].field] = Program[k].value]
         \/ Program[k].op # "set" /\ q = r
  PROVE  HoldsIn(q, k)
<1>. SUFFICES ASSUME NEW i \in 1 .. k, Program[i].op = "set",
                     \A j \in i + 1 .. k : Program[j].field # Program[i].field
              PROVE  q[Program[i].field] = Program[i].value
  BY Zenon DEF HoldsIn
<1>1. Program[i].field \in Fields
  BY WrittenType
<1>2. CASE i = k
  BY <1>1, <1>2
<1>3. CASE i # k
  <2>1. i \in 1 .. k - 1 /\ k \in i + 1 .. k /\ \A j \in i + 1 .. k - 1 : j \in i + 1 .. k
    BY <1>3
  <2>2. r[Program[i].field] = Program[i].value
    BY <2>1 DEF HoldsIn
  <2>3. Program[k].field # Program[i].field
    BY <2>1
  <2>. QED  BY <1>1, <2>2, <2>3
<1>. QED  BY <1>2, <1>3

---------------------------------------------------------------------------
(* The frequencies.                                                         *)

LEMMA DivLe ==
  ASSUME NEW n \in Nat, NEW d \in Nat
  PROVE  n \div (d + 1) \in Nat /\ n \div (d + 1) <= n
OBVIOUS

LEMMA DivMono ==
  ASSUME NEW m \in Nat, NEW n \in Nat, NEW d \in Nat, m <= n
  PROVE  m \div (d + 1) <= n \div (d + 1)
OBVIOUS

LEMMA DivArm ==
  ASSUME NEW a \in 54 .. 108, NEW p \in 0 .. 7
  PROVE  24 <= (12 * a) \div (p + 1)
<1>1. p = 0 \/ p = 1 \/ p = 2 \/ p = 3 \/ p = 4 \/ p = 5 \/ p = 6 \/ p = 7
  OBVIOUS
<1>. QED  BY <1>1

TreeOf(r) == r \in [Fields -> Nat] /\ r.arm_pll \in 54 .. 108 /\ r.arm_podf \in 0 .. 7

LEMMA FieldType ==
  ASSUME NEW r \in [Fields -> Nat]
  PROVE  /\ r.arm_pll \in Nat /\ r.sys_pll \in Nat /\ r.arm_podf \in Nat /\ r.ahb_podf \in Nat
         /\ r.ipg_podf \in Nat /\ r.periph_clk2_podf \in Nat
BY FieldsAre

LEMMA FeedType ==
  ASSUME NEW r \in [Fields -> Nat]
  PROVE  PrePeriph(r) \in Nat /\ PeriphClk2(r) \in Nat
<1>1. ArmPll(r) \in Nat /\ SysPll(r) \in Nat
  BY FieldType DEF ArmPll, SysPll
<1>2. ArmPll(r) \div (r.arm_podf + 1) \in Nat
  BY <1>1, FieldType, DivLe
<1>3. (IF r.periph_clk2 = 1 THEN 24 ELSE 480) \in Nat
  OBVIOUS
<1>4. PeriphClk2(r) \in Nat
  BY <1>3, FieldType, DivLe DEF PeriphClk2
<1>. QED  BY <1>1, <1>2, <1>4 DEF PrePeriph

LEMMA CoreType ==
  ASSUME NEW r \in [Fields -> Nat]
  PROVE  Core(r) \in Nat /\ Ipg(r) \in Nat /\ Ipg(r) <= Core(r)
<1>1. Core(r) \in Nat
  <2>1. (IF r.periph = 0 THEN PrePeriph(r) ELSE PeriphClk2(r)) \in Nat
    BY FeedType
  <2>. QED  BY <2>1, FieldType, DivLe DEF Core
<1>. QED  BY <1>1, FieldType, DivLe DEF Ipg

(* The part is rated for the wanted tree, and for the oscillator.            *)
LEMMA UnparkedCore ==
  ASSUME NEW r,
         r.arm_pll = 88, r.arm_podf = 1, r.pre_periph = 3, r.periph = 0, r.ahb_podf = 0, r.ipg_podf = 3
  PROVE  Core(r) = 528 /\ Ipg(r) = 132
<1>1. PrePeriph(r) = 528
  BY DEF PrePeriph, ArmPll
<1>2. Core(r) = 528
  BY <1>1 DEF Core
<1>. QED  BY <1>2 DEF Ipg

LEMMA RatingIs ==
  CoreRating \in Nat /\ IpgRating \in Nat /\ 528 <= CoreRating /\ 132 <= IpgRating
<1>1. /\ Wanted.arm_pll = 88 /\ Wanted.arm_podf = 1 /\ Wanted.pre_periph = 3
      /\ Wanted.periph = 0 /\ Wanted.ahb_podf = 0 /\ Wanted.ipg_podf = 3
  BY DEF Wanted
<1>2. Core(Wanted) = 528 /\ Ipg(Wanted) = 132
  BY <1>1, UnparkedCore
<1>. QED  BY <1>2, ClockAssumption, WantedAssumption DEF Rated

LEMMA OscillatorCore ==
  ASSUME NEW r \in [Fields -> Nat], r.periph # 0, r.periph_clk2 = 1
  PROVE  Core(r) <= 24 /\ Rated(r)
<1>1. PeriphClk2(r) \in Nat /\ PeriphClk2(r) <= 24
  <2>1. PeriphClk2(r) = 24 \div (r.periph_clk2_podf + 1)
    BY DEF PeriphClk2
  <2>. QED  BY <2>1, FieldType, DivLe
<1>2. Core(r) = PeriphClk2(r) \div (r.ahb_podf + 1)
  BY DEF Core
<1>3. Core(r) <= PeriphClk2(r)
  BY <1>1, <1>2, FieldType, DivLe
<1>. QED  BY <1>1, <1>3, CoreType, RatingIs DEF Rated

LEMMA PrePeriphLeast ==
  ASSUME NEW r, TreeOf(r)
  PROVE  24 <= PrePeriph(r)
<1>1. r.sys_pll \in Nat
  BY FieldType DEF TreeOf
<1>2. 24 <= 480 + 48 * r.sys_pll
  BY <1>1
<1>3. 24 <= (12 * r.arm_pll) \div (r.arm_podf + 1)
  BY DivArm DEF TreeOf
<1>4. CASE r.pre_periph = 3
  <2>1. PrePeriph(r) = (12 * r.arm_pll) \div (r.arm_podf + 1)
    BY <1>4 DEF PrePeriph, ArmPll
  <2>. QED  BY <1>3, <2>1
<1>5. CASE r.pre_periph # 3
  <2>1. PrePeriph(r) = 480 + 48 * r.sys_pll
    BY <1>5 DEF PrePeriph, SysPll
  <2>. QED  BY <1>2, <2>1
<1>. QED  BY <1>4, <1>5

(* The first two statements: neither makes the core faster.                 *)
LEMMA SelectOscillator ==
  ASSUME NEW r, TreeOf(r), Rated(r), NEW q, q = [r EXCEPT !["periph_clk2"] = 1]
  PROVE  Core(q) <= Core(r) /\ Rated(q)
<1>1. /\ r \in [Fields -> Nat] /\ q \in [Fields -> Nat] /\ q.periph_clk2 = 1
      /\ q.periph = r.periph /\ q.ahb_podf = r.ahb_podf /\ q.ipg_podf = r.ipg_podf
      /\ q.periph_clk2_podf = r.periph_clk2_podf
      /\ q.pre_periph = r.pre_periph /\ q.arm_pll = r.arm_pll /\ q.arm_podf = r.arm_podf
      /\ q.sys_pll = r.sys_pll
  BY FieldsAre DEF TreeOf
<1>2. CASE r.periph = 0
  <2>1. PrePeriph(q) = PrePeriph(r)
    BY <1>1 DEF PrePeriph, ArmPll, SysPll
  <2>2. Core(q) = Core(r)
    BY <1>1, <1>2, <2>1 DEF Core
  <2>3. Ipg(q) = Ipg(r)
    BY <1>1, <2>2 DEF Ipg
  <2>. QED  BY <1>1, <2>2, <2>3, CoreType DEF Rated
<1>3. CASE r.periph # 0
  <2>1. Rated(q)
    BY <1>1, <1>3, OscillatorCore
  <2>2. PeriphClk2(q) <= PeriphClk2(r)
    <3>1. PeriphClk2(q) = 24 \div (r.periph_clk2_podf + 1)
      BY <1>1 DEF PeriphClk2
    <3>2. CASE r.periph_clk2 = 1
      <4>1. PeriphClk2(r) = 24 \div (r.periph_clk2_podf + 1)
        BY <3>2 DEF PeriphClk2
      <4>. QED  BY <1>1, <3>1, <4>1, FeedType
    <3>3. CASE r.periph_clk2 # 1
      <4>1. PeriphClk2(r) = 480 \div (r.periph_clk2_podf + 1)
        BY <3>3 DEF PeriphClk2
      <4>. QED  BY <1>1, <3>1, <4>1, FieldType, DivMono
    <3>. QED  BY <3>2, <3>3
  <2>3. PeriphClk2(q) \div (r.ahb_podf + 1) <= PeriphClk2(r) \div (r.ahb_podf + 1)
    BY <1>1, <2>2, FeedType, FieldType, DivMono
  <2>4. Core(q) = PeriphClk2(q) \div (r.ahb_podf + 1) /\ Core(r) = PeriphClk2(r) \div (r.ahb_podf + 1)
    BY <1>1, <1>3 DEF Core
  <2>. QED  BY <2>1, <2>3, <2>4
<1>. QED  BY <1>2, <1>3

LEMMA SwitchToOscillator ==
  ASSUME NEW r, TreeOf(r), r.periph_clk2 = 1, NEW q, q = [r EXCEPT !["periph"] = 1]
  PROVE  Core(q) <= Core(r)
<1>1. /\ r \in [Fields -> Nat] /\ q \in [Fields -> Nat] /\ q.periph = 1
      /\ q.periph_clk2 = 1 /\ q.ahb_podf = r.ahb_podf /\ q.periph_clk2_podf = r.periph_clk2_podf
  BY FieldsAre DEF TreeOf
<1>2. PeriphClk2(q) = 24 \div (r.periph_clk2_podf + 1) /\ PeriphClk2(r) = PeriphClk2(q)
  BY <1>1 DEF PeriphClk2
<1>3. Core(q) = PeriphClk2(q) \div (r.ahb_podf + 1)
  BY <1>1 DEF Core
<1>4. CASE r.periph = 0
  <2>1. PeriphClk2(q) <= 24
    BY <1>1, <1>2, FieldType, DivLe
  <2>2. PeriphClk2(q) <= PrePeriph(r)
    <3>1. 24 <= PrePeriph(r) /\ PrePeriph(r) \in Nat /\ PeriphClk2(q) \in Nat
      BY <1>1, PrePeriphLeast, FeedType
    <3>. QED  BY <2>1, <3>1
  <2>3. PeriphClk2(q) \div (r.ahb_podf + 1) <= PrePeriph(r) \div (r.ahb_podf + 1)
    BY <1>1, <2>2, FeedType, FieldType, DivMono
  <2>4. Core(r) = PrePeriph(r) \div (r.ahb_podf + 1)
    BY <1>4 DEF Core
  <2>. QED  BY <1>3, <2>3, <2>4
<1>5. CASE r.periph # 0
  <2>1. Core(r) = Core(q)
    BY <1>1, <1>2, <1>3, <1>5 DEF Core
  <2>. QED  BY <1>1, <2>1, CoreType
<1>. QED  BY <1>4, <1>5

---------------------------------------------------------------------------
(* A statement that writes a field, seen from the tree r it finds.           *)

Wrote(r, k) == [r EXCEPT ![Program[k].field] = Program[k].value]

LEMMA WriteTree ==
  ASSUME NEW k \in 1 .. 18, Program[k].op = "set", NEW r, TreeOf(r), Rated(r),
         HoldsIn(r, k - 1), NEW q, q = Wrote(r, k)
  PROVE  /\ TreeOf(q) /\ Rated(q) /\ HoldsIn(q, k)
         /\ \A f \in Kept : q[f] = r[f]
         /\ \A pll \in {"arm_pll", "sys_pll"} : q[pll] # r[pll] => r.periph # 0
         /\ k < 4 => Core(q) <= Core(r)
<1>. DEFINE f == Program[k].field
            v == Program[k].value
<1>1. /\ f \in Fields \ Kept /\ v \in Nat
      /\ f = "arm_pll" => k = 5 /\ v = 88
      /\ f = "sys_pll" => k = 6
      /\ f = "arm_podf" => v = 1
  BY WrittenType
<1>2. r \in [Fields -> Nat] /\ q = [r EXCEPT ![f] = v]
  BY DEF TreeOf, Wrote
<1>3. HoldsIn(q, k)
  BY HoldsNext, <1>2
<1>. HIDE DEF f, v
<1>4. TreeOf(q)
  <2>1. q \in [Fields -> Nat]
    BY <1>1, <1>2
  <2>2. "arm_pll" \in Fields /\ "arm_podf" \in Fields
    BY FieldsAre
  <2>3. q.arm_pll \in 54 .. 108
    BY <1>1, <1>2, <2>2 DEF TreeOf
  <2>4. q.arm_podf \in 0 .. 7
    BY <1>1, <1>2, <2>2 DEF TreeOf
  <2>. QED  BY <2>1, <2>3, <2>4 DEF TreeOf
<1>5. \A g \in Kept : q[g] = r[g]
  <2>1. Kept \subseteq Fields
    BY FieldsAre DEF Kept
  <2>. QED  BY <1>1, <1>2, <2>1
<1>6. ASSUME NEW pll \in {"arm_pll", "sys_pll"}, q[pll] # r[pll] PROVE r.periph # 0
  <2>1. pll \in Fields
    BY FieldsAre
  <2>2. f = pll
    BY <1>1, <1>2, <1>6, <2>1
  <2>3. k - 1 \in 2 .. 10
    BY <1>1, <2>2
  <2>4. r.periph = 1
    BY <2>3, HoldsParked
  <2>. QED  BY <2>4
<1>7. CASE k = 1
  <2>1. q = [r EXCEPT !["periph_clk2"] = 1]
    BY <1>7, ProgramFields DEF Wrote
  <2>2. Rated(q) /\ Core(q) <= Core(r)
    BY <2>1, SelectOscillator
  <2>. QED  BY <1>3, <1>4, <1>5, <1>6, <2>2
<1>8. CASE k \in 2 .. 10
  <2>1. q.periph = 1 /\ q.periph_clk2 = 1
    BY <1>3, <1>8, HoldsParked
  <2>2. Rated(q)
    <3>1. q \in [Fields -> Nat] /\ q.periph # 0
      BY <1>4, <2>1 DEF TreeOf
    <3>. QED  BY <2>1, <3>1, OscillatorCore
  <2>3. ASSUME k < 4 PROVE Core(q) <= Core(r)
    <3>1. k = 2
      <4>1. k = 2 \/ k = 3
        BY <1>8, <2>3
      <4>2. Program[3].op # "set"
        BY ProgramFields
      <4>. QED  BY <4>1, <4>2
    <3>2. 1 \in 1 .. 1 /\ Program[1].op = "set" /\ \A j \in 2 .. 1 : Program[j].field # Program[1].field
      BY ProgramFields
    <3>3. r.periph_clk2 = 1
      <4>1. HoldsIn(r, 1) /\ 1 \in 1 .. 18 /\ 1 \in 1 .. 1
        BY <3>1
      <4>2. r[Program[1].field] = Program[1].value
        BY <3>2, <4>1, Written
      <4>. QED  BY <4>2, ProgramFields
    <3>4. q = [r EXCEPT !["periph"] = 1]
      BY <3>1, ProgramFields DEF Wrote
    <3>. QED  BY <3>3, <3>4, SwitchToOscillator
  <2>. QED  BY <1>3, <1>4, <1>5, <1>6, <2>2, <2>3
<1>9. CASE k \in 11 .. 18
  <2>1. Core(q) = 528 /\ Ipg(q) = 132
    BY <1>3, <1>9, HoldsUnparked, UnparkedCore
  <2>2. Rated(q) /\ ~(k < 4)
    BY <1>9, <2>1, RatingIs DEF Rated
  <2>. QED  BY <1>3, <1>4, <1>5, <1>6, <2>2
<1>10. k = 1 \/ k \in 2 .. 10 \/ k \in 11 .. 18
  OBVIOUS
<1>. QED  BY <1>7, <1>8, <1>9, <1>10

---------------------------------------------------------------------------
(* The steps of the boot.                                                   *)

Safe == BootInv /\ WithinRating

LEMMA CoreTreesType ==
  ASSUME NEW r \in CoreTrees
  PROVE  TreeOf(r)
<1>1. PICK pll \in PllDividers, sys \in 0 .. 1, podf \in 0 .. 1, pre \in {0, 3},
           clk2 \in 0 .. 1, per \in 0 .. 1, ahb \in 0 .. 1, ipg \in {1, 3} :
        r = CoreTree(pll, sys, podf, pre, clk2, per, ahb, ipg)
  BY DEF CoreTrees
<1>2. pll \in 54 .. 108
  BY ClockAssumption
<1>3. Wanted \in [Fields -> Nat]
  <2>1. \A f \in Fields : Wanted[f] \in Nat
    BY FieldsAre DEF Wanted
  <2>2. Wanted = [f \in Fields |-> Wanted[f]]
    BY DEF Fields, Wanted
  <2>. QED  BY <2>1, <2>2
<1>4. r \in [Fields -> Nat]
  <2>. DEFINE w1 == [Wanted EXCEPT !.arm_pll = pll]
              w2 == [w1 EXCEPT !.sys_pll = sys]
              w3 == [w2 EXCEPT !.arm_podf = podf]
              w4 == [w3 EXCEPT !.pre_periph = pre]
              w5 == [w4 EXCEPT !.periph_clk2 = clk2]
              w6 == [w5 EXCEPT !.periph = per]
              w7 == [w6 EXCEPT !.ahb_podf = ahb]
              w8 == [w7 EXCEPT !.ipg_podf = ipg]
  <2>1. w1 \in [Fields -> Nat]
    BY <1>2, <1>3
  <2>2. w2 \in [Fields -> Nat]
    <3>. HIDE DEF w1
    <3>. QED  BY <2>1
  <2>3. w3 \in [Fields -> Nat]
    <3>. HIDE DEF w2
    <3>. QED  BY <2>2
  <2>4. w4 \in [Fields -> Nat]
    <3>. HIDE DEF w3
    <3>. QED  BY <2>3
  <2>5. w5 \in [Fields -> Nat]
    <3>. HIDE DEF w4
    <3>. QED  BY <2>4
  <2>6. w6 \in [Fields -> Nat]
    <3>. HIDE DEF w5
    <3>. QED  BY <2>5
  <2>7. w7 \in [Fields -> Nat]
    <3>. HIDE DEF w6
    <3>. QED  BY <2>6
  <2>8. w8 \in [Fields -> Nat]
    <3>. HIDE DEF w7
    <3>. QED  BY <2>7
  <2>9. r = w8
    BY <1>1 DEF CoreTree
  <2>. QED  BY <2>8, <2>9
<1>5. r.arm_pll = pll /\ r.arm_podf = podf
  BY <1>1, <1>3, FieldsAre DEF CoreTree
<1>. QED  BY <1>2, <1>4, <1>5 DEF TreeOf

LEMMA FoundTreesType ==
  ASSUME NEW q \in FoundTrees
  PROVE  TreeOf(q) /\ Rated(q)
<1>1. CASE q \in CoreTrees
  BY <1>1, CoreTreesType DEF FoundTrees
<1>2. CASE q \notin CoreTrees
  <2>1. Rated(q)
    BY DEF FoundTrees
  <2>2. PICK r \in CoreTrees, f \in Fields \ CoreFields : q = [r EXCEPT ![f] = Another(@)]
    BY <1>2 DEF FoundTrees
  <2>3. TreeOf(r)
    BY CoreTreesType
  <2>4. Another(r[f]) \in Nat
    <3>1. r[f] \in Nat
      BY <2>3 DEF TreeOf
    <3>. QED  BY <3>1 DEF Another
  <2>5. f # "arm_pll" /\ f # "arm_podf"
    BY DEF CoreFields
  <2>6. TreeOf(q)
    BY <2>2, <2>3, <2>4, <2>5, FieldsAre DEF TreeOf
  <2>. QED  BY <2>1, <2>6
<1>. QED  BY <1>1, <1>2

LEMMA InitSafe ==
  ASSUME Init PROVE Safe
<1>1. TreeOf(regs) /\ Rated(regs)
  BY FoundTreesType DEF Init
<1>2. BootInv
  BY <1>1 DEF Init, BootInv, TreeInv, BranchInv, TreeOf
<1>. QED  BY <1>1, <1>2 DEF Safe, WithinRating

LEMMA BootIs ==
  BootInv <=>
    /\ pc \in {"check", "program", "done"} /\ stage \in Nat \ {0}
    /\ TreeOf(regs)
    /\ pc = "program" =>
         /\ step \in 1 .. 18 /\ HoldsIn(regs, step - 1)
         /\ (\E i \in 1 .. step - 1 : Program[i].op = "await") => volt = "there"
         /\ stage > 1 => \E f \in Kept : regs[f] # Wanted[f]
    /\ pc = "done" \/ (pc = "check" /\ stage > 1)
         => \A f \in Checked \ Kept : regs[f] = Wanted[f]
<1>1. TreeInv <=> TreeOf(regs)
  BY Zenon DEF TreeInv, TreeOf
<1>2. Holds(step - 1) <=> HoldsIn(regs, step - 1)
  BY Zenon DEF Holds, HoldsIn
<1>. QED  BY <1>1, <1>2, ProgramIs, Zenon DEF BootInv, BranchInv

(* Every statement of the branch ends in Advance, with `Holds` one longer.   *)
LEMMA BranchSafe ==
  ASSUME BootInv, WithinRating, pc = "program", Advance, stage' = stage,
         TreeOf(regs'), Rated(regs'), HoldsIn(regs', step),
         \A f \in Kept : regs'[f] = regs[f],
         (\E i \in 1 .. step : Program[i].op = "await") => volt' = "there"
  PROVE  Safe'
<1>1. /\ step \in 1 .. 18 /\ stage \in Nat \ {0}
      /\ stage > 1 => \E f \in Kept : regs[f] # Wanted[f]
  BY BootIs
<1>2. CASE step = 18
  <2>1. pc' = "done"
    BY <1>2, ProgramIs DEF Advance
  <2>2. \A f \in Checked \ Kept : regs'[f] = Wanted[f]
    BY <1>2, HoldsAll
  <2>3. BootInv'
    <3>1. TreeInv'
      BY Zenon DEF TreeInv, TreeOf
    <3>2. BranchInv'
      BY <2>1 DEF BranchInv
    <3>. QED  BY <1>1, <2>1, <2>2, <3>1, <3>2 DEF BootInv
  <2>. QED  BY <2>3 DEF Safe, WithinRating
<1>3. CASE step # 18
  <2>1. pc' = "program" /\ step' = step + 1
    BY <1>3, ProgramIs DEF Advance
  <2>2. step' \in 1 .. 18 /\ step' - 1 = step
    BY <1>1, <1>3, <2>1
  <2>3. BranchInv'
    <3>1. Holds(step - 1)'
      BY <2>2, Zenon DEF Holds, HoldsIn
    <3>2. (\E i \in 1 .. step' - 1 : Program[i].op = "await") => volt' = "there"
      BY <2>2
    <3>3. stage' > 1 => \E f \in Kept : regs'[f] # Wanted[f]
      BY <1>1
    <3>4. step' \in 1 .. Len(Program)
      BY <2>2, ProgramIs
    <3>. QED  BY <3>1, <3>2, <3>3, <3>4, Zenon DEF BranchInv
  <2>4. TreeInv'
    BY Zenon DEF TreeInv, TreeOf
  <2>5. BootInv'
    BY <1>1, <2>1, <2>3, <2>4 DEF BootInv
  <2>. QED  BY <2>5 DEF Safe, WithinRating
<1>. QED  BY <1>2, <1>3

Quiet ==
  /\ \A pll \in {"arm_pll", "sys_pll"} : regs'[pll] # regs[pll] => ~CoreUses(regs, pll)
  /\ Core(regs') > Core(regs) => volt = "there"

LEMMA SameTreeQuiet ==
  ASSUME TreeOf(regs), regs' = regs
  PROVE  Quiet
<1>1. Core(regs) \in Nat /\ Core(regs') = Core(regs)
  BY CoreType DEF TreeOf
<1>. QED  BY <1>1 DEF Quiet

LEMMA WriteFieldSafe ==
  ASSUME Safe, WriteField
  PROVE  Safe' /\ Quiet
<1>1. /\ pc = "program" /\ Program[step].op = "set" /\ Advance
      /\ regs' = [regs EXCEPT ![Program[step].field] = Program[step].value]
      /\ stage' = stage /\ volt' = volt
  BY Zenon DEF WriteField, Doing
<1>2. BootInv /\ WithinRating
  BY DEF Safe
<1>3. /\ step \in 1 .. 18 /\ TreeOf(regs) /\ HoldsIn(regs, step - 1)
      /\ (\E i \in 1 .. step - 1 : Program[i].op = "await") => volt = "there"
  BY <1>1, <1>2, BootIs
<1>4. /\ TreeOf(regs') /\ Rated(regs') /\ HoldsIn(regs', step)
      /\ \A f \in Kept : regs'[f] = regs[f]
      /\ \A pll \in {"arm_pll", "sys_pll"} : regs'[pll] # regs[pll] => regs.periph # 0
      /\ step < 4 => Core(regs') <= Core(regs)
  <2>1. Rated(regs)
    BY <1>2 DEF WithinRating
  <2>2. regs' = Wrote(regs, step)
    BY <1>1, Zenon DEF Wrote
  <2>. QED  BY <1>1, <1>3, <2>1, <2>2, WriteTree, Zenon
<1>5. (\E i \in 1 .. step : Program[i].op = "await") => volt' = "there"
  <2>1. ASSUME NEW i \in 1 .. step, Program[i].op = "await" PROVE i \in 1 .. step - 1
    <3>1. i # step
      BY <1>1, <2>1
    <3>. QED  BY <1>3, <3>1
  <2>. QED  BY <1>1, <1>3, <2>1
<1>6. Safe'
  BY <1>1, <1>2, <1>4, <1>5, BranchSafe
<1>7. Core(regs') > Core(regs) => volt = "there"
  <2>1. CASE step < 4
    <3>1. Core(regs) \in Nat /\ Core(regs') \in Nat
      BY <1>3, <1>4, CoreType DEF TreeOf
    <3>. QED  BY <1>4, <2>1, <3>1
  <2>2. CASE step = 4
    BY <1>1, <2>2, ProgramFields
  <2>3. CASE step > 4
    <3>1. 4 \in 1 .. step - 1 /\ Program[4].op = "await"
      BY <1>3, <2>3, ProgramFields
    <3>. QED  BY <1>3, <3>1
  <2>. QED  BY <1>3, <2>1, <2>2, <2>3
<1>. QED  BY <1>4, <1>6, <1>7 DEF Quiet, CoreUses

(* The two statements about the voltage leave the tree alone.                *)
LEMMA VoltageSafe ==
  ASSUME Safe, TargetVoltage \/ AwaitVoltage
  PROVE  Safe' /\ Quiet
<1>1. /\ pc = "program" /\ Program[step].op # "set" /\ Advance
      /\ regs' = regs /\ stage' = stage
      /\ volt = "there" => volt' = "there"
      /\ Program[step].op = "await" => volt' = "there"
  BY DEF TargetVoltage, AwaitVoltage, Doing
<1>2. BootInv /\ WithinRating
  BY DEF Safe
<1>3. /\ step \in 1 .. 18 /\ TreeOf(regs) /\ HoldsIn(regs, step - 1)
      /\ (\E i \in 1 .. step - 1 : Program[i].op = "await") => volt = "there"
  BY <1>1, <1>2, BootIs
<1>4. HoldsIn(regs', step)
  BY <1>1, <1>3, HoldsNext DEF TreeOf
<1>5. (\E i \in 1 .. step : Program[i].op = "await") => volt' = "there"
  <2>1. ASSUME NEW i \in 1 .. step PROVE i = step \/ i \in 1 .. step - 1
    BY <1>3
  <2>. QED  BY <1>1, <1>3, <2>1
<1>6. TreeOf(regs') /\ Rated(regs') /\ \A f \in Kept : regs'[f] = regs[f]
  BY <1>1, <1>2, <1>3 DEF WithinRating
<1>7. Safe'
  BY <1>1, <1>2, <1>4, <1>5, <1>6, BranchSafe
<1>. QED  BY <1>1, <1>3, <1>7, SameTreeQuiet

LEMMA CheckSafe ==
  ASSUME Safe, Accept \/ Reject
  PROVE  Safe' /\ Quiet
<1>1. pc = "check" /\ regs' = regs /\ volt' = volt /\ stage' = stage
  BY DEF Accept, Reject
<1>2. BootInv /\ WithinRating
  BY DEF Safe
<1>3. /\ TreeOf(regs) /\ TreeInv /\ stage \in Nat \ {0}
      /\ stage > 1 => \A f \in Checked \ Kept : regs[f] = Wanted[f]
  BY <1>1, <1>2, BootIs DEF BootInv
<1>4. TreeInv' /\ WithinRating'
  BY <1>1, <1>2, <1>3 DEF TreeInv, WithinRating
<1>5. CASE Accept
  <2>1. pc' = "done" /\ \A f \in Checked : regs[f] = Wanted[f]
    BY <1>5 DEF Accept
  <2>2. BranchInv'
    BY <2>1 DEF BranchInv
  <2>3. BootInv'
    BY <1>1, <1>3, <1>4, <2>1, <2>2 DEF BootInv
  <2>. QED  BY <1>1, <1>3, <1>4, <2>3, SameTreeQuiet DEF Safe
<1>6. CASE Reject
  <2>1. pc' = "program" /\ step' = 1 /\ \E f \in Checked : regs[f] # Wanted[f]
    BY <1>6 DEF Reject
  <2>2. stage > 1 => \E f \in Kept : regs[f] # Wanted[f]
    BY <1>3, <2>1
  <2>3. BranchInv'
    <3>1. step' \in 1 .. Len(Program) /\ \A i \in 1 .. step' - 1 : FALSE
      BY <2>1, ProgramIs
    <3>2. Holds(step - 1)'
      BY <3>1, Zenon DEF Holds
    <3>. QED  BY <1>1, <2>2, <3>1, <3>2, Zenon DEF BranchInv
  <2>4. BootInv'
    BY <1>1, <1>3, <1>4, <2>1, <2>3 DEF BootInv
  <2>. QED  BY <1>1, <1>3, <1>4, <2>4, SameTreeQuiet DEF Safe
<1>. QED  BY <1>5, <1>6

LEMMA SettleSafe ==
  ASSUME Safe, Settle
  PROVE  Safe' /\ Quiet
<1>1. /\ volt' = "there" /\ regs' = regs /\ stage' = stage /\ pc' = pc /\ step' = step
  BY DEF Settle
<1>2. BootInv /\ WithinRating /\ TreeOf(regs)
  BY BootIs DEF Safe
<1>3. TreeInv' /\ WithinRating'
  BY <1>1, <1>2 DEF BootInv, TreeInv, WithinRating
<1>4. Holds(step - 1)' <=> Holds(step - 1)
  BY <1>1 DEF Holds
<1>5. BranchInv'
  BY <1>1, <1>2, <1>4 DEF BootInv, BranchInv
<1>6. BootInv'
  BY <1>1, <1>2, <1>3, <1>5 DEF BootInv
<1>. QED  BY <1>1, <1>2, <1>3, <1>6, SameTreeQuiet DEF Safe

LEMMA NextStageSafe ==
  ASSUME Safe, NextStage
  PROVE  Safe' /\ Quiet
<1>1. pc = "done" /\ pc' = "check" /\ stage' = stage + 1 /\ regs' = regs
  BY DEF NextStage
<1>2. BootInv /\ WithinRating /\ TreeOf(regs)
  BY BootIs DEF Safe
<1>3. TreeInv' /\ WithinRating'
  BY <1>1, <1>2 DEF BootInv, TreeInv, WithinRating
<1>4. BranchInv'
  BY <1>1 DEF BranchInv
<1>5. BootInv'
  BY <1>1, <1>2, <1>3, <1>4 DEF BootInv
<1>. QED  BY <1>1, <1>2, <1>3, <1>5, SameTreeQuiet DEF Safe

LEMMA StepSafe ==
  ASSUME Safe, Next
  PROVE  Safe' /\ Quiet
BY WriteFieldSafe, VoltageSafe, CheckSafe, SettleSafe, NextStageSafe, Zenon DEF Next

---------------------------------------------------------------------------
(* Every statement of clock_init keeps the inductive invariant.              *)
THEOREM BootSafe == Spec => []Safe
<1>1. Init => Safe
  BY InitSafe
<1>2. ASSUME Safe, [Next]_vars PROVE Safe'
  <2>1. CASE Next
    BY <1>2, <2>1, StepSafe
  <2>2. CASE UNCHANGED vars
    <3>1. regs' = regs /\ volt' = volt /\ stage' = stage /\ pc' = pc /\ step' = step
      BY <2>2 DEF vars
    <3>2. Holds(step - 1)' <=> Holds(step - 1)
      BY <3>1 DEF Holds
    <3>3. BranchInv'
      BY <1>2, <3>1, <3>2 DEF Safe, BootInv, BranchInv
    <3>4. TreeInv' /\ WithinRating'
      BY <1>2, <3>1 DEF Safe, BootInv, TreeInv, WithinRating
    <3>. QED  BY <1>2, <3>1, <3>3, <3>4 DEF Safe, BootInv
  <2>. QED  BY <1>2, <2>1, <2>2
<1>. QED  BY <1>1, <1>2, PTL DEF Spec

(* No statement of clock_init leaves the core or the peripheral bus above the *)
(* rating of the part, whatever tree it found.                              *)
THEOREM NeverOverclocked == Spec => []WithinRating
BY BootSafe, PTL DEF Safe

(* clock_init programs in a later boot stage only for a field it never writes. *)
THEOREM SecondStageAccepts == Spec => []ProgrammedOnce
<1>1. Safe => ProgrammedOnce
  BY DEF Safe, BootInv, BranchInv, ProgrammedOnce
<1>. QED  BY <1>1, BootSafe, PTL

(* clock_init reprograms no PLL under the core, and makes the core no faster   *)
(* before the converter asserts DC_OK.                                      *)
THEOREM ChangesAreQuiet == Spec => QuietChange
<1>1. ASSUME Safe, [Next]_vars PROVE [Quiet]_vars
  BY <1>1, StepSafe
<1>2. Spec => [][Quiet]_vars
  BY <1>1, BootSafe, PTL DEF Spec
<1>. QED  BY <1>2, Zenon DEF QuietChange, Quiet
=============================================================================
