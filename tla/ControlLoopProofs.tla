------------------------- MODULE ControlLoopProofs -------------------------
(***************************************************************************)
(* What holds of the control loop for every configuration (that satisfies  *)
(* the assumptions), any number of packs and every reading.                *)
(***************************************************************************)
EXTENDS ControlLoop, TLAPS

-----------------------------------------------------------------------------
(* The charge controller.  Sound is what battery.c's functions keep of     *)
(* conf, whichever of them is called on whatever occasion.                 *)

Sound(c) ==
    /\ c \in Conf
    /\ c.charging => c.mode \in {1, 2} /\ c.capacity > 0
    /\ ~c.charging => c.amps = Trickle /\ c.cuts = 0 /\ c.charge_voltage = FullVoltage
    /\ c.charge_voltage > FullVoltage =>
         c.charging /\ c.mode = 1 /\ c.charge_voltage <= MaxVoltage
    /\ c.target \in {HighVoltage, FullVoltage}

LEMMA Voltages ==
    /\ HighVoltage \in Int /\ FullVoltage \in Int /\ MaxVoltage \in Int /\ EmptyVoltage \in Int
    /\ EmptyVoltage < HighVoltage /\ EmptyVoltage < FullVoltage
  BY BatteryAssumption DEF HighVoltage, FullVoltage, MaxVoltage, EmptyVoltage

\* charge_stop makes any conf with a target sound.
LEMMA StopSound ==
    ASSUME NEW c \in Conf, c.target \in {HighVoltage, FullVoltage}
    PROVE  Sound(charge_stop(c)) /\ charge_stop(c).capacity = c.capacity
  <1>1. ERate * c.capacity \in Int
    BY BatteryAssumption DEF Conf
  <1>2. 0 \in 0..MaxCuts /\ Trickle \in Int
    BY BatteryAssumption DEF Trickle
  <1>3. charge_stop(c) \in Conf
    BY <1>1, <1>2, Voltages DEF Conf, charge_stop
  <1>. QED
    BY <1>3, Voltages DEF Sound, charge_stop, Conf

LEMMA StartSound ==
    ASSUME NEW c, Sound(c)
    PROVE  Sound(charge_start(c)) /\ charge_start(c).capacity = c.capacity
  <1>1. CASE c.capacity = 0
    BY <1>1 DEF charge_start
  <1>2. CASE c.capacity # 0
    <2>1. (IF UserChargeAmps < 0 THEN Rate * c.capacity ELSE UserChargeAmps) \in Int
      BY BatteryAssumption DEF Conf, Sound
    <2>2. 0 \in 0..MaxCuts
      BY BatteryAssumption
    <2>3. charge_start(c) \in Conf
      BY <1>2, <2>1, <2>2, Voltages DEF Conf, charge_start, Sound
    <2>. QED
      BY <1>2, <2>3, Voltages, BatteryAssumption DEF Sound, charge_start, Conf
  <1>. QED
    BY <1>1, <1>2

LEMMA InitSound ==
    ASSUME NEW c \in Conf
    PROVE  Sound(battery_init(c))
  <1> DEFINE d == [c EXCEPT !.target = HighVoltage,
                            !.cell_crit_high = CellCritHigh,
                            !.capacity = IF UserCapacity < 0 THEN 0 ELSE UserCapacity]
  <1>1. (IF UserCapacity < 0 THEN 0 ELSE UserCapacity) \in Nat /\ CellCritHigh \in Nat
    BY BatteryAssumption
  <1>2. d \in Conf /\ d.target = HighVoltage
    BY <1>1, Voltages DEF Conf
  <1>. HIDE DEF d
  <1>3. Sound(charge_start(charge_stop(d)))
    BY <1>2, StopSound, StartSound
  <1>. QED
    BY <1>3 DEF battery_init, d

\* charge_check, in whichever mode and with whatever measurement.
LEMMA CheckSound ==
    ASSUME NEW c, Sound(c), NEW n
    PROVE  Sound(charge_check(c, n)) /\ charge_check(c, n).capacity = c.capacity
  <1>1. ASSUME c.charging
        PROVE  /\ Sound(Slowed(c)) /\ Slowed(c).capacity = c.capacity
               /\ Slowed(c).charging /\ Slowed(c).mode = c.mode
    <2>1. Slowed(c) \in Conf
      BY BatteryAssumption DEF Slowed, Sound, Conf
    <2>. QED
      BY <1>1, <2>1 DEF Slowed, Sound, Conf
  <1>2. ASSUME NEW d, Sound(d), d.charging, d.mode = 1
        PROVE  Sound(cc_check(d, n)) /\ cc_check(d, n).capacity = d.capacity
    <2>1. 0 \in 0..CVTime
      BY BatteryAssumption
    <2>2. CASE Full(d, n)
      <3>1. cc_check(d, n) = [d EXCEPT !.mode = 2, !.cv_age = 0, !.charge_voltage = FullVoltage]
        BY <2>2 DEF cc_check
      <3>2. cc_check(d, n) \in Conf
        BY <1>2, <2>1, <3>1, Voltages DEF Sound, Conf
      <3>. QED
        BY <1>2, <3>1, <3>2, Voltages DEF Sound, Conf
    <2>3. CASE ~Full(d, n) /\ Underfed(d, n)
      <3>. DEFINE v == IF d.charge_voltage + 10 > MaxVoltage
                       THEN MaxVoltage ELSE d.charge_voltage + 10
      <3>1. d \in Conf /\ d.charging /\ d.charge_voltage \in Int
        BY <1>2 DEF Sound, Conf
      <3>2. v \in Int /\ v <= MaxVoltage
        BY <3>1, Voltages
      <3>3. cc_check(d, n) = [d EXCEPT !.charge_voltage = v]
        BY <2>3 DEF cc_check
      <3>. HIDE DEF v
      <3>4. cc_check(d, n) \in Conf
        BY <3>1, <3>2, <3>3 DEF Conf
      <3>. QED
        BY <1>2, <3>1, <3>2, <3>3, <3>4 DEF Sound, Conf
    <2>4. CASE ~Full(d, n) /\ ~Underfed(d, n)
      BY <1>2, <2>4 DEF cc_check
    <2>. QED
      BY <2>2, <2>3, <2>4
  <1>3. ASSUME NEW d, Sound(d)
        PROVE  Sound(cv_check(d)) /\ cv_check(d).capacity = d.capacity
    BY <1>3, StopSound DEF cv_check, Sound
  <1>4. CASE ~c.charging
    BY <1>4, StartSound DEF charge_check
  <1>5. CASE c.charging /\ (Frozen(c) \/ Heated(c))
    BY <1>5, StopSound DEF charge_check, Sound
  <1>6. CASE c.charging /\ ~Frozen(c) /\ ~Heated(c) /\ c.mode = 1
    BY <1>6, <1>1, <1>2 DEF charge_check
  <1>7. CASE c.charging /\ ~Frozen(c) /\ ~Heated(c) /\ c.mode = 2
    BY <1>7, <1>1, <1>3 DEF charge_check
  <1>. QED
    BY <1>4, <1>5, <1>6, <1>7 DEF Sound

\* After charge_check no constant-voltage phase is past its time.
InTime(c) == c.charging /\ c.mode = 2 => c.cv_age < CVTime

LEMMA CheckInTime ==
    ASSUME NEW c, Sound(c), NEW n
    PROVE  InTime(charge_check(c, n))
  <1>1. 0 < CVTime
    BY BatteryAssumption
  <1>2. CASE ~c.charging
    BY <1>2 DEF charge_check, charge_start, InTime, Sound, Conf
  <1>3. CASE c.charging /\ (Frozen(c) \/ Heated(c))
    BY <1>3 DEF charge_check, charge_stop, InTime, Sound, Conf
  <1>4. CASE c.charging /\ ~Frozen(c) /\ ~Heated(c) /\ c.mode = 1
    <2>1. Slowed(c) \in Conf /\ Slowed(c).mode = 1
      BY <1>4, BatteryAssumption DEF Slowed, Sound, Conf
    <2>2. InTime(cc_check(Slowed(c), n))
      BY <2>1, <1>1 DEF cc_check, InTime, Conf
    <2>. QED
      BY <1>4, <2>2 DEF charge_check
  <1>5. CASE c.charging /\ ~Frozen(c) /\ ~Heated(c) /\ c.mode = 2
    <2>1. Slowed(c) \in Conf
      BY <1>5, BatteryAssumption DEF Slowed, Sound, Conf
    <2>2. InTime(cv_check(Slowed(c)))
      BY <2>1, BatteryAssumption DEF cv_check, charge_stop, InTime, Conf
    <2>. QED
      BY <1>5, <2>2 DEF charge_check
  <1>. QED
    BY <1>2, <1>3, <1>4, <1>5 DEF Sound

-----------------------------------------------------------------------------
(* The loop.                                                               *)

\* The critical state, and the forced state of charge, follow the scan.
Critical ==
    /\ pc = "scan" /\ ~m.in_range => conf.critvolt
    /\ pc \in {"check", "send", "sent"} => (conf.critvolt <=> ~m.in_range)
    /\ conf.force_soc => conf.critvolt

LoopInv ==
    /\ TypeOK
    /\ Sound(conf)
    /\ Critical
    /\ pc \in {"send", "sent"} => InTime(conf)

LEMMA NoMeasureType == NoMeasure \in Measure /\ NoMeasure.in_range
  BY DEF NoMeasure, Measure, NoMin, NoMax

LEMMA WildCellType == WildCell \in Nat
  BY DEF WildCell

LEMMA FirstPack == 1 \in 1..(NPacks + 1) /\ NPacks \in 0..NPacks /\ 0 \in 0..NPacks
  <1>1. NPacks \in Nat
    BY LoopAssumption
  <1>. QED
    BY <1>1

LEMMA Parameters ==
    /\ NPacks \in Nat /\ NProbes \in Nat /\ UserSoC \in Int
    /\ \A r \in PackReadings :
         /\ r.lo \in Nat /\ r.hi \in Nat /\ r.sum \in Nat /\ r.cap \in Nat
         /\ r.amps \in Int /\ r.temp \in Int
    /\ \A r \in InvReadings : r.volts \in Int /\ r.amps \in Int
  BY LoopAssumption

LEMMA InitLoop == Init => LoopInv
  <1> SUFFICES ASSUME Init PROVE LoopInv
    OBVIOUS
  <1> DEFINE z == [charging |-> FALSE, mode |-> 0, cv_age |-> 0,
                   charge_voltage |-> 0, target |-> 0, amps |-> 0, cuts |-> 0,
                   discharge_amps |-> 0, capacity |-> 0, start_temp |-> 0,
                   battery_temp |-> 250, soc |-> 0, cell_crit_high |-> 0,
                   critvolt |-> FALSE, force_soc |-> FALSE, over60 |-> FALSE]
  <1>1. z \in Conf /\ ~z.force_soc
    BY BatteryAssumption DEF Conf
  <1>2. conf = charge_start(battery_init(z))
    BY DEF Init
  <1>. HIDE DEF z
  <1>3. Sound(conf)
    BY <1>1, <1>2, InitSound, StartSound
  <1>4. ~conf.force_soc
    BY <1>1, <1>2 DEF battery_init, charge_start, charge_stop, Conf
  <1>5. /\ m = NoMeasure
        /\ pc = "top" /\ pk = 1 /\ npacks = NPacks /\ startup = 1
        /\ reconf = FALSE /\ owed = FALSE
    BY DEF Init
  <1>6. TypeOK
    BY <1>3, <1>5, NoMeasureType, FirstPack DEF TypeOK, Sound
  <1>. QED
    BY <1>3, <1>4, <1>5, <1>6 DEF LoopInv, Critical

\* What the functions of battery.c leave alone.
LEMMA Untouched ==
    ASSUME NEW c \in Conf
    PROVE  /\ charge_stop(c).critvolt = c.critvolt /\ charge_stop(c).force_soc = c.force_soc
           /\ charge_start(c).critvolt = c.critvolt /\ charge_start(c).force_soc = c.force_soc
  BY DEF charge_stop, charge_start, Conf

LEMMA CheckUntouched ==
    ASSUME NEW c, Sound(c), NEW n
    PROVE  /\ charge_check(c, n).critvolt = c.critvolt
           /\ charge_check(c, n).force_soc = c.force_soc
  <1>1. c \in Conf /\ Slowed(c) \in Conf
    BY BatteryAssumption DEF Sound, Slowed, Conf
  <1>2. Slowed(c).critvolt = c.critvolt /\ Slowed(c).force_soc = c.force_soc
    BY <1>1 DEF Slowed, Conf
  <1>3. ASSUME NEW d \in Conf
        PROVE  /\ cc_check(d, n).critvolt = d.critvolt /\ cc_check(d, n).force_soc = d.force_soc
               /\ cv_check(d).critvolt = d.critvolt /\ cv_check(d).force_soc = d.force_soc
    BY Untouched DEF cc_check, cv_check, Conf
  <1>4. CASE c.charging
    BY <1>1, <1>2, <1>3, <1>4, Untouched DEF charge_check, Sound
  <1>5. CASE ~c.charging
    BY <1>1, <1>5, Untouched DEF charge_check
  <1>. QED
    BY <1>4, <1>5

\* Time passing changes nothing but the age of the constant-voltage phase.
LEMMA AgedSound ==
    ASSUME NEW c, Sound(c), NEW d \in Aged(c)
    PROVE  /\ Sound(d)
           /\ d.critvolt = c.critvolt /\ d.force_soc = c.force_soc /\ d.capacity = c.capacity
  <1>1. CASE c.charging /\ c.mode = 2
    <2>1. PICK k \in 1..MaxTick :
            d = [c EXCEPT !.cv_age = IF @ + k <= CVTime THEN @ + k ELSE CVTime]
      BY <1>1 DEF Aged
    <2>2. (IF c.cv_age + k <= CVTime THEN c.cv_age + k ELSE CVTime) \in 0..CVTime
      BY <1>1, BatteryAssumption, LoopAssumption DEF Sound, Conf
    <2>. QED
      BY <2>1, <2>2 DEF Sound, Conf
  <1>2. CASE ~(c.charging /\ c.mode = 2)
    BY <1>2 DEF Aged
  <1>. QED
    BY <1>1, <1>2

LEMMA ForcedSound ==
    ASSUME NEW d, Sound(d)
    PROVE  LET e == [d EXCEPT !.critvolt = TRUE, !.force_soc = TRUE, !.soc = 101]
           IN  Sound(e) /\ e.critvolt
  <1> DEFINE f == [d EXCEPT !.critvolt = TRUE]
             g == [f EXCEPT !.force_soc = TRUE]
             e == [g EXCEPT !.soc = 101]
  <1>1. Sound(f) /\ f.critvolt
    BY DEF Sound, Conf
  <1>2. Sound(g) /\ g.critvolt
    <2>. HIDE DEF f
    <2>. QED
      BY <1>1 DEF Sound, Conf
  <1>3. Sound(e) /\ e.critvolt
    <2>. HIDE DEF g
    <2>. QED
      BY <1>2 DEF Sound, Conf
  <1>4. e = [d EXCEPT !.critvolt = TRUE, !.force_soc = TRUE, !.soc = 101]
    OBVIOUS
  <1>. QED
    BY <1>3, <1>4

\* A pack that is looked at.
LEMMA ScanStep ==
    ASSUME LoopInv, ScanPack
    PROVE  LoopInv'
  <1>a. Scanning /\ NextPack
    BY DEF ScanPack, SkipPack, CritLowPack, CritHighPack, InRangePack
  <1>1. pk' \in 1..(NPacks + 1) /\ pc' = "scan" /\ pc = "scan" /\ m.in_range
    BY <1>a, Parameters DEF Scanning, NextPack, LoopInv, TypeOK
  <1>. USE DEF LoopInv, TypeOK, Critical, Scanning, NextPack
  <1>2. CASE SkipPack
    BY <1>1, <1>2 DEF SkipPack
  <1>3. ASSUME NEW r \in PackReadings
        PROVE  Seen(r) \in Measure /\ Seen(r).in_range = m.in_range
    <2>1. m \in Measure
      OBVIOUS
    <2>2. r.hi \in Int /\ r.temp \in Int
      BY Parameters
    <2>. QED
      BY <2>1, <2>2 DEF Seen, Measure
  <1>4. ASSUME NEW r \in PackReadings, CritLowPack(r)
        PROVE  LoopInv'
    <2>1. m' \in Measure /\ ~m'.in_range
      BY <1>3, <1>4 DEF CritLowPack, Measure
    <2>2. Sound(conf') /\ conf'.critvolt
      BY <1>4 DEF CritLowPack, Sound, Conf
    <2>. QED
      BY <1>1, <1>4, <2>1, <2>2 DEF CritLowPack, Sound
  <1>5. ASSUME NEW r \in PackReadings, CritHighPack(r)
        PROVE  LoopInv'
    <2>1. m' \in Measure /\ ~m'.in_range
      BY <1>3, <1>5 DEF CritHighPack, Measure
    <2>2. Sound(charge_stop(conf))
      BY StopSound DEF Sound
    <2>3. Sound(conf') /\ conf'.critvolt
      <3> DEFINE d == charge_stop(conf)
      <3>1. Sound(d) /\ conf' = [d EXCEPT !.critvolt = TRUE, !.force_soc = TRUE, !.soc = 101]
        BY <1>5, <2>2 DEF CritHighPack
      <3>. HIDE DEF d
      <3>. QED
        BY <3>1, ForcedSound
    <2>. QED
      BY <1>1, <1>5, <2>1, <2>3 DEF CritHighPack, Sound
  <1>6. ASSUME NEW r \in PackReadings, InRangePack(r)
        PROVE  LoopInv'
    <2> DEFINE n == Seen(r)
    <2>a. n \in Measure /\ n.in_range
      BY <1>1, <1>3
    <2>b. m' = [n EXCEPT !.packs = @ + 1, !.sum = @ + r.sum, !.asum = @ + r.amps,
                         !.tsum = @ + NProbes * r.temp,
                         !.cap = IF r.discharging THEN @ + r.cap ELSE @,
                         !.cell_min = IF r.lo < @ THEN r.lo ELSE @,
                         !.cell_max = IF r.hi > @ THEN r.hi ELSE @]
      BY <1>6 DEF InRangePack
    <2>. HIDE DEF n
    <2>1. /\ n.packs + 1 \in Nat /\ n.sum + r.sum \in Int /\ n.asum + r.amps \in Int
          /\ n.tsum + NProbes * r.temp \in Int
          /\ (IF r.discharging THEN n.cap + r.cap ELSE n.cap) \in Nat
          /\ (IF r.lo < n.cell_min THEN r.lo ELSE n.cell_min) \in Int
          /\ (IF r.hi > n.cell_max THEN r.hi ELSE n.cell_max) \in Int
      BY <2>a, Parameters DEF Measure
    <2>2. m' \in Measure /\ m'.in_range
      BY <2>a, <2>b, <2>1 DEF Measure
    <2>. QED
      BY <1>1, <1>6, <2>2 DEF InRangePack
  <1>. QED
    BY <1>2, <1>4, <1>5, <1>6 DEF ScanPack

\* What Evaluate makes of conf before it works out temperature and state of charge.
LEMMA EvaluateSound ==
    ASSUME LoopInv, Scanned
    PROVE  /\ Sound(InRange(conf)) /\ Sound(Learn(InRange(conf)))
           /\ InRange(conf).critvolt <=> ~m.in_range
           /\ InRange(conf).force_soc => InRange(conf).critvolt
           /\ Learn(InRange(conf)).critvolt = InRange(conf).critvolt
           /\ Learn(InRange(conf)).force_soc = InRange(conf).force_soc
           /\ InRange(conf).capacity = conf.capacity
  <1>1. /\ conf \in Conf /\ m \in Measure
        /\ ~m.in_range => conf.critvolt
        /\ conf.force_soc => conf.critvolt
    BY DEF LoopInv, TypeOK, Critical, Scanned
  <1>2. InRange(conf) \in Conf
    BY <1>1 DEF InRange, Conf
  <1>3. Sound(InRange(conf)) /\ InRange(conf).capacity = conf.capacity
    BY <1>1, <1>2 DEF InRange, Sound, Conf, LoopInv
  <1>4. /\ InRange(conf).critvolt <=> ~m.in_range
        /\ InRange(conf).force_soc => InRange(conf).critvolt
    BY <1>1 DEF InRange, Conf, Measure
  <1>5. Learn(InRange(conf)) \in Conf
    BY <1>1, <1>2 DEF Learn, Conf, Measure
  <1>6. /\ Sound(Learn(InRange(conf)))
        /\ Learn(InRange(conf)).critvolt = InRange(conf).critvolt
        /\ Learn(InRange(conf)).force_soc = InRange(conf).force_soc
    BY <1>2, <1>3, <1>5 DEF Learn, Sound, Conf
  <1>. QED
    BY <1>3, <1>4, <1>6

LEMMA EvaluateStep ==
    ASSUME LoopInv, Evaluate
    PROVE  LoopInv'
  <1>1. Scanned /\ Reported /\ m \in Measure /\ conf \in Conf
    BY DEF LoopInv, TypeOK, Evaluate
  <1>2. Temperature \in Int /\ Volts \in Int /\ Amps \in Int
    BY <1>1 DEF Temperature, Volts, Amps, FromPacks, Measure
  <1>3. (IF UserSoC < 0
         THEN ((Volts - EmptyVoltage) * 100) \div (conf.target - EmptyVoltage)
         ELSE UserSoC) \in Int
    <2>1. conf.target \in Int /\ conf.target - EmptyVoltage > 0
      BY Voltages DEF LoopInv, Sound
    <2>2. \A x, y \in Int : y > 0 => x \div y \in Int
      OBVIOUS
    <2>. QED
      BY <1>2, <2>1, <2>2, Voltages, LoopAssumption
  <1>4. /\ Sound(conf')
        /\ conf'.critvolt = InRange(conf).critvolt /\ conf'.force_soc = InRange(conf).force_soc
    <2> DEFINE d == Learn(InRange(conf))
               e == [d EXCEPT !.battery_temp = Temperature]
               s == IF UserSoC < 0
                    THEN ((Volts - EmptyVoltage) * 100) \div (conf.target - EmptyVoltage)
                    ELSE UserSoC
    <2>1. Sound(d) /\ conf' = [d EXCEPT !.battery_temp = Temperature, !.soc = s]
      BY <1>1, EvaluateSound DEF Evaluate
    <2>2. d.critvolt = InRange(conf).critvolt /\ d.force_soc = InRange(conf).force_soc
      BY <1>1, EvaluateSound
    <2>3. s \in Int
      BY <1>3
    <2>. HIDE DEF d, s
    <2>4. Sound(e) /\ e.critvolt = d.critvolt /\ e.force_soc = d.force_soc
      BY <1>2, <2>1 DEF Sound, Conf
    <2>5. conf' = [e EXCEPT !.soc = s]
      BY <2>1
    <2>. HIDE DEF e
    <2>. QED
      BY <2>2, <2>3, <2>4, <2>5 DEF Sound, Conf
  <1>5. m' \in Measure /\ m'.in_range = m.in_range
    BY <1>1, <1>2 DEF Evaluate, Measure
  <1>. QED
    BY <1>1, <1>4, <1>5, EvaluateSound DEF LoopInv, TypeOK, Critical, Evaluate, Sound

LEMMA LoopStep == LoopInv /\ [Next]_vars => LoopInv'
  <1> SUFFICES ASSUME LoopInv, [Next]_vars PROVE LoopInv'
    OBVIOUS
  <1>1. conf \in Conf /\ Sound(conf) /\ TypeOK /\ Critical
    BY DEF LoopInv, TypeOK
  <1>2. CASE SigUsr1
    BY <1>1, <1>2 DEF SigUsr1, LoopInv, TypeOK, Critical
  <1>3. CASE ReconfigBegin \/ ReconfigCrash
    BY <1>1, <1>3 DEF ReconfigBegin, ReconfigCrash, At, LoopInv, TypeOK, Critical
  <1>4. CASE ReconfigEnd
    <2>1. CASE conf' = conf /\ npacks' = 0
      BY <1>1, <1>4, <2>1, FirstPack DEF ReconfigEnd, At, LoopInv, TypeOK, Critical
    <2>2. CASE /\ conf' = battery_init([conf EXCEPT !.battery_temp = 250])
               /\ npacks' \in IF HasFile THEN 0..NPacks ELSE {0}
      <3> DEFINE d == [conf EXCEPT !.battery_temp = 250]
      <3>1. d \in Conf /\ d.force_soc = conf.force_soc /\ d.critvolt = conf.critvolt
        BY <1>1 DEF Conf
      <3>2. conf' = battery_init(d)
        BY <2>2
      <3>. HIDE DEF d
      <3>3. conf'.force_soc = conf.force_soc /\ conf'.critvolt = conf.critvolt
        BY <3>1, <3>2 DEF battery_init, charge_start, charge_stop, Conf
      <3>4. Sound(conf')
        BY <3>1, <3>2, InitSound
      <3>. QED
        <4>1. npacks' \in 0..NPacks
          BY <2>2, FirstPack
        <4>. QED
          BY <1>1, <1>4, <3>3, <3>4, <4>1
          DEF ReconfigEnd, At, LoopInv, TypeOK, Critical, Sound
    <2>. QED
      BY <1>4, <2>1, <2>2 DEF ReconfigEnd
  <1>5. CASE ReadAll
    <2>1. m' \in Measure /\ m'.in_range
      BY <1>5, NoMeasureType, LoopAssumption DEF ReadAll, Measure
    <2>2. PICK f \in BOOLEAN :
            conf' = [conf EXCEPT !.cell_crit_high = WildCell, !.over60 = f]
      BY <1>1, <1>5 DEF ReadAll, Conf
    <2>3. /\ Sound(conf')
          /\ conf'.critvolt = conf.critvolt /\ conf'.force_soc = conf.force_soc
      BY <1>1, <2>2, WildCellType DEF Sound, Conf
    <2>. QED
      BY <1>1, <1>5, <2>1, <2>3, FirstPack DEF ReadAll, At, LoopInv, TypeOK, Critical, Sound
  <1>6. CASE ScanPack
    BY <1>6, ScanStep
  <1>7. CASE NothingReported
    <2>1. Sound(conf') /\ (conf'.force_soc => conf'.critvolt)
      BY <1>7, EvaluateSound, AgedSound DEF NothingReported
    <2>. QED
      BY <1>1, <1>7, <2>1, NoMeasureType
      DEF NothingReported, LoopInv, TypeOK, Critical, Sound
  <1>8. CASE Evaluate
    BY <1>8, EvaluateStep
  <1>9. CASE Check
    BY <1>1, <1>9, CheckSound, CheckInTime, CheckUntouched
    DEF Check, At, LoopInv, TypeOK, Critical, Sound
  <1>10. CASE Send
    <2>1. CASE m.inv /\ startup = 1
      <3>1. Sound(charge_stop(conf)) /\ ~charge_stop(conf).charging
        BY <1>1, StopSound DEF Sound, charge_stop, Conf
      <3>2. Sound(conf') /\ ~conf'.charging
        BY <1>10, <2>1, <3>1 DEF Send, Sound, Conf
      <3>3. conf'.critvolt = conf.critvolt /\ conf'.force_soc = conf.force_soc
        BY <1>1, <1>10, <2>1, <3>1, Untouched DEF Send, Sound, Conf
      <3>. QED
        BY <1>1, <1>10, <3>2, <3>3 DEF Send, At, LoopInv, TypeOK, Critical, Sound, InTime
    <2>2. CASE ~(m.inv /\ startup = 1)
      BY <1>1, <1>10, <2>2 DEF Send, At, LoopInv, TypeOK, Critical
    <2>. QED
      BY <2>1, <2>2
  <1>11. CASE EndPass
    <2>1. /\ Sound(IF startup = 2 /\ conf.soc < 95 THEN charge_start(conf) ELSE conf)
          /\ (IF startup = 2 /\ conf.soc < 95 THEN charge_start(conf) ELSE conf).critvolt
               = conf.critvolt
          /\ (IF startup = 2 /\ conf.soc < 95 THEN charge_start(conf) ELSE conf).force_soc
               = conf.force_soc
      BY <1>1, StartSound, Untouched
    <2>2. Sound(conf') /\ conf'.critvolt = conf.critvolt /\ conf'.force_soc = conf.force_soc
      BY <1>11, <2>1, AgedSound DEF EndPass
    <2>. QED
      BY <1>1, <1>11, <2>2, NoMeasureType DEF EndPass, At, LoopInv, TypeOK, Critical, Sound
  <1>12. CASE Stopped \/ UNCHANGED vars
    BY <1>12 DEF Stopped, vars, LoopInv, TypeOK, Critical
  <1>. QED
    BY <1>2, <1>3, <1>4, <1>5, <1>6, <1>7, <1>8, <1>9, <1>10, <1>11, <1>12 DEF Next, Loop

\* What LoopInv says of the controller's state and of the critical state holds in
\* every state: the inductive invariant the theorems below follow from.
THEOREM LoopInvariant == Spec => []LoopInv
  BY InitLoop, LoopStep, PTL DEF Spec

\* Every state of the loop is well-typed.
THEOREM LoopTypeCorrect == Spec => []TypeOK
  <1>1. LoopInv => TypeOK
    BY DEF LoopInv
  <1>. QED
    BY <1>1, LoopInvariant, PTL

\* No charge is ever under way while the capacity is unknown.
THEOREM ChargeHasCapacity == Spec => []ChargingNeedsCapacity
  <1>1. LoopInv => ChargingNeedsCapacity
    BY DEF LoopInv, Sound, ChargingNeedsCapacity
  <1>. QED
    BY <1>1, LoopInvariant, PTL

\* Outside of a charge nothing of a charge is sent.
THEOREM IdleSendsTrickle == Spec => []IdleIsTrickle
  <1>1. LoopInv => IdleIsTrickle
    BY DEF LoopInv, Sound, IdleIsTrickle
  <1>. QED
    BY <1>1, LoopInvariant, PTL

\* A voltage above the float voltage belongs to the constant-current phase, and is not
\* above the maximum, in any configuration, the ones without a maximum included.
THEOREM VoltageBounded == Spec => []VoltageWithinMax
  <1>1. LoopInv => VoltageWithinMax
    BY DEF LoopInv, Sound, VoltageWithinMax
  <1>. QED
    BY <1>1, LoopInvariant, PTL

\* A constant-voltage charge is never commanded after its two hours.
THEOREM SaturationInTime == Spec => []SaturationBounded
  <1>1. LoopInv => SaturationBounded
    BY DEF LoopInv, InTime, SaturationBounded, Sending
  <1>. QED
    BY <1>1, LoopInvariant, PTL

\* The critical state sent is that of the pass.
THEOREM CritStateCurrent == Spec => []CritStateIsCurrent
  <1>1. LoopInv => CritStateIsCurrent
    BY DEF LoopInv, Critical, CritStateIsCurrent, Sending
  <1>. QED
    BY <1>1, LoopInvariant, PTL

\* Only a pass in which every pack reported changes the capacity, once.
THEOREM CapacityKept == Spec => CapacityIsKept
  <1>1. ASSUME LoopInv, Next, pc # "reconfig", conf.capacity # conf'.capacity
        PROVE  conf.capacity = 0 /\ m.packs = npacks /\ ~conf.charging
    <2>1. conf \in Conf /\ Sound(conf) /\ m \in Measure /\ npacks \in Nat
      BY <1>1, Parameters DEF LoopInv, TypeOK
    <2>2. conf.capacity = 0 => ~conf.charging
      BY <2>1 DEF Sound
    <2>3. CASE Evaluate
      <3>1. InRange(conf) \in Conf /\ InRange(conf).capacity = conf.capacity
        BY <1>1, <2>3, EvaluateSound DEF Evaluate, Sound
      <3>2. Learn(InRange(conf)) \in Conf
        BY <1>1, <2>3, EvaluateSound DEF Evaluate, Sound
      <3>3. conf'.capacity = Learn(InRange(conf)).capacity
        BY <2>3, <3>2 DEF Evaluate, Conf
      <3>4. conf.capacity = 0 /\ m.packs = npacks
        BY <1>1, <3>1, <3>3 DEF Learn, Conf
      <3>. QED
        BY <2>2, <3>4
    <2>4. CASE SigUsr1 \/ ReconfigBegin \/ ReconfigEnd \/ ReconfigCrash \/ Stopped
      BY <1>1, <2>4 DEF SigUsr1, ReconfigBegin, ReconfigEnd, ReconfigCrash, Stopped, vars, At
    <2>5. CASE ReadAll
      BY <1>1, <2>1, <2>5 DEF ReadAll, Conf
    <2>6. CASE ScanPack
      <3>1. charge_stop(conf).capacity = conf.capacity
        BY <2>1 DEF charge_stop, Conf
      <3>2. ASSUME NEW r \in PackReadings, CritHighPack(r)
            PROVE  conf'.capacity = conf.capacity
        <4>1. charge_stop(conf) \in Conf
          BY <2>1, StopSound DEF Sound
        <4>. QED
          BY <3>1, <3>2, <4>1 DEF CritHighPack, Conf
      <3>. QED
        BY <1>1, <2>1, <2>6, <3>2
        DEF ScanPack, SkipPack, CritLowPack, InRangePack, Conf
    <2>7. CASE NothingReported
      BY <1>1, <2>7, EvaluateSound, AgedSound DEF NothingReported
    <2>8. CASE Check
      BY <1>1, <2>1, <2>8, CheckSound DEF Check
    <2>9. CASE Send
      <3>1. charge_stop(conf) \in Conf /\ charge_stop(conf).capacity = conf.capacity
        BY <2>1, StopSound DEF Sound
      <3>. QED
        BY <1>1, <2>9, <3>1 DEF Send, Conf
    <2>10. CASE EndPass
      BY <1>1, <2>1, <2>10, StartSound, AgedSound DEF EndPass
    <2>. QED
      BY <1>1, <2>3, <2>4, <2>5, <2>6, <2>7, <2>8, <2>9, <2>10 DEF Next, Loop
  <1>2. LoopInv /\ [Next]_vars =>
          [pc # "reconfig" /\ conf.capacity # conf'.capacity =>
             conf.capacity = 0 /\ m.packs = npacks /\ ~conf.charging]_vars
    BY <1>1
  <1>. QED
    BY <1>2, LoopInvariant, PTL DEF Spec, CapacityIsKept

-----------------------------------------------------------------------------
(* The cold.                                                               *)

\* Nothing above freezing was added up, and so the mean is not above freezing.
ColdInv ==
    /\ pc \in {"top", "reconfig"} => m.tsum = 0 /\ m.packs = 0
    /\ m.warmest <= 0 => m.tsum <= 0
    /\ pc = "check" /\ m.packs > 0 /\ m.warmest <= 0 => Frozen(conf)

LEMMA BelowZero ==
    ASSUME NEW t \in Int, NEW n \in Nat, t <= 0
    PROVE  n * t <= 0 /\ n * t \in Int
  <1>. DEFINE u == -t
  <1>1. u \in Nat
    OBVIOUS
  <1>2. n * u \in Nat
    BY <1>1
  <1>3. n * t = -(n * u) /\ n * t \in Int
    OBVIOUS
  <1>. QED
    BY <1>2, <1>3

LEMMA MeanBounded ==
    ASSUME NEW t \in Int, NEW p \in Nat \ {0}, t <= 0
    PROVE  t \div p <= 0
  <1>. DEFINE q == t \div p
              r == t % p
  <1>1. q \in Int /\ r \in 0..(p - 1) /\ t = p * q + r
    BY Z3
  <1>. HIDE DEF q, r
  <1>2. SUFFICES ASSUME q > 0 PROVE FALSE
    BY <1>1 DEF q
  <1>3. p * (q - 1) >= 0 /\ p * (q - 1) = p * q - p
    BY <1>1, <1>2
  <1>. QED
    BY <1>1, <1>3

LEMMA ColdInit == Init => ColdInv
  BY DEF Init, ColdInv, NoMeasure

LEMMA ColdScan ==
    ASSUME LoopInv, ColdInv, ScanPack
    PROVE  ColdInv'
  <1>1. pc' = "scan" /\ m \in Measure
    BY DEF LoopInv, TypeOK, ScanPack, SkipPack, CritLowPack, CritHighPack, InRangePack, Scanning,
           NextPack
  <1>2. CASE SkipPack
    BY <1>1, <1>2 DEF SkipPack, ColdInv
  <1>3. ASSUME NEW r \in PackReadings
        PROVE  /\ Seen(r) \in Measure
               /\ Seen(r).tsum = m.tsum /\ Seen(r).packs = m.packs
               /\ Seen(r).warmest <= 0 => m.warmest <= 0 /\ r.temp <= 0
    <2>1. r.hi \in Int /\ r.temp \in Int
      BY Parameters
    <2>2. Seen(r) \in Measure
      BY <1>1, <2>1 DEF Seen, Measure
    <2>3. /\ Seen(r).tsum = m.tsum /\ Seen(r).packs = m.packs
          /\ Seen(r).warmest = IF r.temp > m.warmest THEN r.temp ELSE m.warmest
      BY <1>1 DEF Seen, Measure
    <2>4. m.warmest \in Int
      BY <1>1 DEF Measure
    <2>. QED
      BY <2>1, <2>2, <2>3, <2>4
  <1>4. ASSUME NEW r \in PackReadings, CritLowPack(r) \/ CritHighPack(r)
        PROVE  ColdInv'
    <2>1. m' = [Seen(r) EXCEPT !.in_range = FALSE]
      BY <1>4 DEF CritLowPack, CritHighPack
    <2>2. m'.tsum = m.tsum /\ m'.packs = m.packs /\ (m'.warmest <= 0 => m.warmest <= 0)
      BY <1>3, <2>1 DEF Measure
    <2>. QED
      BY <1>1, <2>2 DEF ColdInv
  <1>5. ASSUME NEW r \in PackReadings, InRangePack(r)
        PROVE  ColdInv'
    <2>. DEFINE n == Seen(r)
    <2>1. m' = [n EXCEPT !.packs = @ + 1, !.sum = @ + r.sum, !.asum = @ + r.amps,
                         !.tsum = @ + NProbes * r.temp,
                         !.cap = IF r.discharging THEN @ + r.cap ELSE @,
                         !.cell_min = IF r.lo < @ THEN r.lo ELSE @,
                         !.cell_max = IF r.hi > @ THEN r.hi ELSE @]
      BY <1>5 DEF InRangePack
    <2>2. /\ n \in Measure /\ n.tsum = m.tsum /\ n.packs = m.packs
          /\ n.warmest <= 0 => m.warmest <= 0 /\ r.temp <= 0
      BY <1>3
    <2>. HIDE DEF n
    <2>3. m'.packs = n.packs + 1 /\ m'.tsum = n.tsum + NProbes * r.temp /\ m'.warmest = n.warmest
      BY <2>1, <2>2 DEF Measure
    <2>4. r.temp \in Int /\ m.tsum \in Int /\ m.packs \in Nat /\ NProbes \in Nat
      BY <1>1, Parameters DEF Measure
    <2>5. r.temp <= 0 => NProbes * r.temp <= 0 /\ NProbes * r.temp \in Int
      BY <2>4, BelowZero
    <2>6. m'.warmest <= 0 => m'.tsum <= 0
      <3>. SUFFICES ASSUME m'.warmest <= 0 PROVE m'.tsum <= 0
        OBVIOUS
      <3>. DEFINE k == NProbes * r.temp
      <3>1. k \in Int /\ k <= 0 /\ m.tsum <= 0
        BY <2>2, <2>3, <2>5 DEF ColdInv
      <3>2. m'.tsum = m.tsum + k /\ m'.packs = m.packs + 1
        BY <2>2, <2>3
      <3>. HIDE DEF k
      <3>. QED
        BY <2>4, <3>1, <3>2
    <2>. QED
      BY <1>1, <2>6 DEF ColdInv
  <1>. QED
    BY <1>2, <1>4, <1>5 DEF ScanPack

LEMMA ColdEvaluate ==
    ASSUME LoopInv, ColdInv, Evaluate PROVE ColdInv'
  <1>1. Scanned /\ m \in Measure /\ pc' = "check" /\ m' = [m EXCEPT !.volts = Volts, !.amps = Amps]
    BY DEF LoopInv, TypeOK, Evaluate
  <1>2. m'.tsum = m.tsum /\ m'.packs = m.packs /\ m'.warmest = m.warmest
    BY <1>1 DEF Measure
  <1>3. Learn(InRange(conf)) \in Conf
    BY <1>1, EvaluateSound DEF Sound
  <1>4. conf'.battery_temp = Temperature
    BY <1>3 DEF Evaluate, Conf
  <1>5. m.packs > 0 /\ m.warmest <= 0 => Temperature <= 0
    <2>. SUFFICES ASSUME m.packs > 0, m.warmest <= 0 PROVE Temperature <= 0
      OBVIOUS
    <2>1. m.tsum \in Int /\ m.packs \in Nat \ {0} /\ m.tsum <= 0
      BY <1>1 DEF Measure, ColdInv
    <2>2. m.tsum \div m.packs <= 0
      BY <2>1, MeanBounded
    <2>. QED
      BY <2>1, <2>2 DEF Temperature
  <1>. QED
    BY <1>1, <1>2, <1>4, <1>5 DEF ColdInv, Frozen

LEMMA ColdStep ==
    ASSUME LoopInv, ColdInv, [Next]_vars PROVE ColdInv'
  <1>1. CASE ScanPack \/ Evaluate
    BY <1>1, ColdScan, ColdEvaluate
  <1>2. CASE ReadAll
    <2>1. m'.tsum = 0 /\ m'.packs = 0 /\ pc' = "scan"
      <3>1. CASE m' = NoMeasure
        BY <1>2, <3>1 DEF ReadAll, At, NoMeasure
      <3>2. CASE m' # NoMeasure
        <4>1. PICK x \in InvReadings :
                m' = [NoMeasure EXCEPT !.inv = TRUE, !.inv_volts = x.volts, !.inv_amps = x.amps]
          BY <1>2, <3>2 DEF ReadAll
        <4>2. m'.tsum = NoMeasure.tsum /\ m'.packs = NoMeasure.packs
          BY <4>1, NoMeasureType DEF Measure
        <4>3. NoMeasure.tsum = 0 /\ NoMeasure.packs = 0
          BY DEF NoMeasure
        <4>4. pc' = "scan"
          BY <1>2 DEF ReadAll, At
        <4>. QED
          BY <4>2, <4>3, <4>4
      <3>. QED
        BY <3>1, <3>2
    <2>. QED
      BY <2>1 DEF ColdInv
  <1>3. CASE NothingReported \/ EndPass
    <2>1. m' = NoMeasure /\ pc' \in {"top", "exit"}
      BY <1>3 DEF NothingReported, EndPass, At
    <2>2. m'.tsum = 0 /\ m'.packs = 0
      BY <2>1 DEF NoMeasure
    <2>. QED
      BY <2>1, <2>2 DEF ColdInv
  <1>4. CASE Check \/ Send \/ ReconfigBegin \/ ReconfigEnd \/ ReconfigCrash
    BY <1>4 DEF Check, Send, ReconfigBegin, ReconfigEnd, ReconfigCrash, At, ColdInv
  <1>5. CASE SigUsr1 \/ Stopped \/ UNCHANGED vars
    BY <1>5 DEF SigUsr1, Stopped, vars, ColdInv
  <1>. QED
    BY <1>1, <1>2, <1>3, <1>4, <1>5 DEF Next, Loop

\* While no probe is above freezing no charge goes on (battery.c:125), for any number
\* of packs and of probes: main.c adds up the probes and divides by the packs, which
\* keeps the sign.
THEOREM FreezingEnds == Spec => FreezingEndsCharge
  <1>1. LoopInv /\ ColdInv /\ [Next]_vars => ColdInv'
    BY ColdStep
  <1>2. ASSUME LoopInv, ColdInv, Next, pc = "check", pc' = "send",
               conf.charging, m.packs > 0, m.warmest <= 0
        PROVE  ~conf'.charging
    <2>1. Check
      BY <1>2 DEF Next, Loop, SigUsr1, Stopped, vars, ReconfigBegin, ReconfigEnd, ReconfigCrash,
                  ReadAll, ScanPack, SkipPack, CritLowPack, CritHighPack, InRangePack, Scanning,
                  NothingReported, Evaluate, Scanned, Send, EndPass, At
    <2>2. conf \in Conf /\ conf' = charge_check(conf, m) /\ Frozen(conf)
      BY <1>2, <2>1 DEF LoopInv, TypeOK, ColdInv, Check
    <2>. QED
      BY <1>2, <2>2 DEF charge_check, charge_stop, Conf
  <1>3. LoopInv /\ ColdInv /\ [Next]_vars =>
          [pc = "check" /\ pc' = "send" /\ m.packs > 0 /\ m.warmest <= 0
             /\ conf.charging => ~conf'.charging]_vars
    BY <1>2
  <1>. QED
    BY <1>1, <1>3, ColdInit, LoopInvariant, PTL DEF Spec, FreezingEndsCharge

=============================================================================
