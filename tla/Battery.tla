------------------------------ MODULE Battery ------------------------------
(***************************************************************************)
(* The charge controller of battery.c, as operators on the fields of       *)
(* mybmm_config_t that it reads and writes (the record conf).  Voltages    *)
(* are in hundredths of a volt, currents in tenths of an ampere,           *)
(* temperatures in tenths of a degree, time in ticks.                      *)
(***************************************************************************)
EXTENDS Integers

CONSTANTS
    Cells,                  \* conf->cells
    CellCritLow, CellMin, CellLow, CellHigh, CellMax, CellCritHigh,
    Rate, ERate,            \* c_rate and e_rate, in tenths of an ampere per Ah
    UserCapacity,           \* the forced values of the configuration: < 0 if unset
    UserChargeVoltage, UserChargeMaxVoltage, UserChargeAmps, UserDischargeVoltage,
    ChargeAtMax,
    MaxCuts,                \* a bound: divisions by 4 after which the current is sent as 0
    CVTime                  \* ticks in two hours

Trickle == 1

\* The voltages battery_init, charge_stop and charge_start work out.
HighVoltage == CellHigh * Cells

FullVoltage == IF UserChargeVoltage < 0 THEN HighVoltage ELSE UserChargeVoltage

\* A forced charge voltage without a forced maximum makes the maximum negative.
MaxVoltage == IF UserChargeVoltage < 0 THEN CellMax * Cells ELSE UserChargeMaxVoltage

EmptyVoltage == IF UserDischargeVoltage < 0 THEN CellLow * Cells ELSE UserDischargeVoltage

ASSUME BatteryAssumption ==
    /\ \A k \in {Cells, CellCritLow, CellMin, CellLow, CellHigh, CellMax, CellCritHigh} : k \in Nat
    /\ {Rate, ERate, MaxCuts, CVTime} \subseteq Nat \ {0}
    /\ {UserCapacity, UserChargeVoltage, UserChargeMaxVoltage,
        UserChargeAmps, UserDischargeVoltage} \subseteq Int
    /\ ChargeAtMax \in BOOLEAN
    \* main.c divides by the target voltage less the discharge voltage
    /\ EmptyVoltage < HighVoltage /\ EmptyVoltage < FullVoltage

\* charge_amps is amps / 4^cuts.
Conf ==
    [charging : BOOLEAN, mode : {0, 1, 2}, cv_age : 0..CVTime,
     charge_voltage : Int, target : Int, amps : Int, cuts : 0..MaxCuts,
     discharge_amps : Int, capacity : Nat, start_temp : Int, battery_temp : Int,
     soc : Int, cell_crit_high : Nat, critvolt : BOOLEAN, force_soc : BOOLEAN,
     over60 : BOOLEAN]

\* Mutant: the charging current is left as it was.
charge_stop_keeps_amps(c) ==
    [c EXCEPT !.charging = FALSE,
              !.charge_voltage = FullVoltage,
              !.discharge_amps = ERate * c.capacity]

charge_stop(c) ==
    [c EXCEPT !.charging = FALSE,
              !.amps = Trickle, !.cuts = 0,
              !.charge_voltage = FullVoltage,
              !.discharge_amps = ERate * c.capacity]

\* Mutant: the capacity is not asked for.
charge_start_anyway(c) ==
    [c EXCEPT
        !.charging = TRUE, !.mode = 1,
        !.charge_voltage = IF ChargeAtMax THEN MaxVoltage ELSE FullVoltage,
        !.target = IF ChargeAtMax THEN @ ELSE FullVoltage,
        !.amps = IF UserChargeAmps < 0 THEN Rate * c.capacity ELSE UserChargeAmps,
        !.cuts = 0,
        !.start_temp = c.battery_temp]

\* There is no charge before the capacity is known.
charge_start(c) ==
    IF c.capacity = 0 THEN c
    ELSE [c EXCEPT
            !.charging = TRUE, !.mode = 1,
            !.charge_voltage = IF ChargeAtMax THEN MaxVoltage ELSE FullVoltage,
            !.target = IF ChargeAtMax THEN @ ELSE FullVoltage,
            !.amps = IF UserChargeAmps < 0 THEN Rate * c.capacity ELSE UserChargeAmps,
            !.cuts = 0,
            !.start_temp = c.battery_temp]

battery_init(c) ==
    charge_start(charge_stop(
        [c EXCEPT !.target = HighVoltage,
                  !.cell_crit_high = CellCritHigh,
                  !.capacity = IF UserCapacity < 0 THEN 0 ELSE UserCapacity]))

-----------------------------------------------------------------------------
(* charge_check, given a measurement m: the battery's voltage and current  *)
(* (negative when charging) and the extremes of the packs' cells.          *)

\* Mutant: freezing is below zero.
FrozenBelow(c) == c.battery_temp < 0

Frozen(c) == c.battery_temp <= 0

\* At 5 degrees or below the current is divided by 4 (again, every time).
Slowed(c) ==
    IF c.battery_temp <= 50 /\ c.cuts < MaxCuts THEN [c EXCEPT !.cuts = @ + 1] ELSE c

\* pct(battery_temp, start_temp) > 5
Heated(c) == 100 * (c.battery_temp - c.start_temp) > 5 * c.battery_temp

Full(c, m) == m.volts > c.target \/ m.cell_max >= CellMax

Underfed(c, m) ==
    /\ -m.amps * 4^c.cuts < c.amps
    /\ c.over60
    /\ c.charge_voltage < MaxVoltage

Empty(m) == m.volts < EmptyVoltage \/ m.cell_min <= CellMin

\* Mutant: the voltage is raised past the maximum.
cc_check_uncapped(c, m) ==
    IF Full(c, m)
    THEN [c EXCEPT !.mode = 2, !.cv_age = 0, !.charge_voltage = FullVoltage]
    ELSE IF Underfed(c, m)
    THEN [c EXCEPT !.charge_voltage = @ + 10]
    ELSE c

cc_check(c, m) ==
    IF Full(c, m)
    THEN [c EXCEPT !.mode = 2, !.cv_age = 0, !.charge_voltage = FullVoltage]
    ELSE IF Underfed(c, m)
    THEN [c EXCEPT !.charge_voltage = IF @ + 10 > MaxVoltage THEN MaxVoltage ELSE @ + 10]
    ELSE c

\* Mutant: constant voltage for ever.
cv_check_endless(c) == c

cv_check(c) == IF c.cv_age >= CVTime THEN charge_stop(c) ELSE c

charge_check(c, m) ==
    CASE ~c.charging -> IF Empty(m) THEN charge_start(c) ELSE c
      [] c.charging /\ (Frozen(c) \/ Heated(c)) -> charge_stop(c)
      [] c.charging /\ ~Frozen(c) /\ ~Heated(c) /\ c.mode = 1 -> cc_check(Slowed(c), m)
      [] c.charging /\ ~Frozen(c) /\ ~Heated(c) /\ c.mode = 2 -> cv_check(Slowed(c))

=============================================================================
