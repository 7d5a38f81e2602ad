---------------------------- MODULE ControlLoop ----------------------------
(***************************************************************************)
(* main() of main.c: start-up, and the control loop.  A pass reads the     *)
(* inverter and the packs, looks at every cell, works out the battery's    *)
(* state, lets the charge controller decide, and sends the result to the   *)
(* inverter.  SIGUSR1 asks for the configuration to be read again.         *)
(*                                                                         *)
(* A pack that reported is a reading: its lowest and highest cell, the sum *)
(* of its cells, its current, capacity, the temperature of its probes, and *)
(* whether its discharge switch is on.  Everything si_write sends is taken *)
(* from conf when pc = "sent".                                             *)
(***************************************************************************)
EXTENDS Battery

CONSTANTS
    NPacks,         \* packs in the configuration file
    NProbes,        \* temperature probes per pack
    HasFile,        \* there is a configuration file
    HasInverter,    \* an inverter is configured
    UsePackVoltage, \* conf->use_packv
    UserSoC,        \* forced state of charge, < 0 if unset
    PackReadings,   \* what a pack may report
    InvReadings,    \* what the inverter may report: voltage and current
    MaxTick         \* the most ticks a pass takes

ASSUME LoopAssumption ==
    /\ NPacks \in Nat /\ NProbes \in Nat /\ MaxTick \in Nat \ {0}
    /\ HasFile \in BOOLEAN /\ HasInverter \in BOOLEAN /\ UsePackVoltage \in BOOLEAN
    /\ UserSoC \in Int
    /\ PackReadings \subseteq [lo : Nat, hi : Nat, sum : Nat, amps : Int,
                               temp : Int, cap : Nat, discharging : BOOLEAN]
    /\ InvReadings \subseteq [volts : Int, amps : Int]

VARIABLES
    conf,       \* the configuration, see Battery
    m,          \* what this pass has measured
    pc,         \* where main() is in its loop
    pk,         \* the pack its scan is at
    npacks,     \* list_count(conf->packs)
    startup,    \* 1, 2, then 0
    reconf,     \* the flag SIGUSR1's handler sets
    owed        \* a SIGUSR1 arrived and no re-read has begun since (history)

vars == <<conf, m, pc, pk, npacks, startup, reconf, owed>>

\* Readings no cell has: the extremes before any pack has been looked at.
NoMin == 1000000
NoMax == -100

Measure ==
    [inv : BOOLEAN, inv_volts : Int, inv_amps : Int,
     packs : Nat, sum : Int, asum : Int, tsum : Int, cap : Nat,
     cell_min : Int, cell_max : Int, in_range : BOOLEAN, volts : Int, amps : Int,
     highest : Int, warmest : Int]

\* highest and warmest are history: the highest cell and the warmest probe of
\* the packs looked at in this pass.
NoMeasure ==
    [inv |-> FALSE, inv_volts |-> 0, inv_amps |-> 0,
     packs |-> 0, sum |-> 0, asum |-> 0, tsum |-> 0, cap |-> 0,
     cell_min |-> NoMin, cell_max |-> NoMax, in_range |-> TRUE,
     volts |-> 0, amps |-> 0, highest |-> NoMax, warmest |-> -10000]

TypeOK ==
    /\ conf \in Conf
    /\ m \in Measure
    /\ pc \in {"top", "reconfig", "scan", "check", "send", "sent", "exit"}
    /\ pk \in 1..(NPacks + 1)
    /\ npacks \in 0..NPacks
    /\ startup \in {0, 1, 2}
    /\ reconf \in BOOLEAN /\ owed \in BOOLEAN

\* get_config (calloc, read_config, battery_init), then charge_start.
Init ==
    /\ conf = charge_start(battery_init(
         [charging |-> FALSE, mode |-> 0, cv_age |-> 0,
          charge_voltage |-> 0, target |-> 0, amps |-> 0, cuts |-> 0,
          discharge_amps |-> 0, capacity |-> 0, start_temp |-> 0, battery_temp |-> 250,
          soc |-> 0, cell_crit_high |-> 0, critvolt |-> FALSE, force_soc |-> FALSE,
          over60 |-> FALSE]))
    /\ m = NoMeasure
    /\ pc = "top" /\ pk = 1 /\ npacks = NPacks /\ startup = 1
    /\ reconf = FALSE /\ owed = FALSE

-----------------------------------------------------------------------------

At(here, there) == pc = here /\ pc' = there

\* usr1_handler, at any time.
SigUsr1 ==
    /\ pc # "exit"
    /\ reconf' = TRUE
    /\ owed' = TRUE
    /\ UNCHANGED <<conf, m, pc, pk, npacks, startup>>

ReconfigBegin ==
    /\ At("top", "reconfig")
    /\ reconf
    /\ owed' = FALSE
    /\ UNCHANGED <<conf, m, pk, npacks, startup, reconf>>

\* reconfig() empties the lists of packs and modules and reads the file again.
\* If the file cannot be read the packs are gone and the rest stays; if a pack
\* (or the inverter) cannot be set up, it and the packs after it are missing;
\* main does not look at the result.  Packs of the command line (no file) are
\* gone too.  Either way the flag is cleared afterwards.
ReconfigEnd ==
    /\ At("reconfig", "top")
    /\ \/ /\ conf' = battery_init([conf EXCEPT !.battery_temp = 250])
          /\ npacks' \in IF HasFile THEN 0..NPacks ELSE {0}
       \/ HasFile /\ conf' = conf /\ npacks' = 0
    /\ reconf' = FALSE
    /\ UNCHANGED <<m, pk, startup, owed>>

\* reconfig() also cancels the threads inverter_tid and pack_tid, which nothing
\* ever creates.  What pthread_cancel(0) does is undefined: the C library may
\* answer that there is no such thread (above), or follow the null pointer.
ReconfigCrash ==
    /\ At("reconfig", "exit")
    /\ UNCHANGED <<conf, m, pk, npacks, startup, reconf, owed>>

\* pack_update_all replaces cell_crit_high by 9.9 V.
WildCell == 990

\* inverter_read; then pack_update_all.
\* The inverter's frequency may have been read even if its read fails later.
ReadAll ==
    /\ At("top", "scan")
    /\ ~reconf
    /\ \/ m' = NoMeasure
       \/ /\ HasInverter
          /\ \E r \in InvReadings :
               m' = [NoMeasure EXCEPT !.inv = TRUE, !.inv_volts = r.volts, !.inv_amps = r.amps]
    /\ \E f \in IF HasInverter THEN BOOLEAN ELSE {conf.over60} :
         conf' = [conf EXCEPT !.cell_crit_high = WildCell, !.over60 = f]
    /\ pk' = 1
    /\ UNCHANGED <<npacks, startup, reconf, owed>>

-----------------------------------------------------------------------------
(* The scan of the packs.                                                  *)

\* Mutant: the scan goes one pack too far.
ScanningOneMore == pc = "scan" /\ m.in_range /\ pk <= npacks + 1

Scanning == pc = "scan" /\ m.in_range /\ pk <= npacks

NextPack == pk' = pk + 1 /\ UNCHANGED <<pc, npacks, startup, reconf, owed>>

\* The pack is not marked UPDATED.
SkipPack == Scanning /\ NextPack /\ UNCHANGED <<conf, m>>

Seen(r) ==
    [m EXCEPT !.highest = IF r.hi > @ THEN r.hi ELSE @,
              !.warmest = IF r.temp > @ THEN r.temp ELSE @]

CritLowPack(r) ==
    /\ Scanning
    /\ r.lo <= CellCritLow
    /\ conf' = [conf EXCEPT !.critvolt = TRUE]
    /\ m' = [Seen(r) EXCEPT !.in_range = FALSE]
    /\ NextPack

CritHighPack(r) ==
    /\ Scanning
    /\ r.hi >= conf.cell_crit_high
    /\ conf' = [charge_stop(conf) EXCEPT !.critvolt = TRUE, !.force_soc = TRUE, !.soc = 101]
    /\ m' = [Seen(r) EXCEPT !.in_range = FALSE]
    /\ NextPack

\* Every probe's temperature is added, not their mean.
InRangePack(r) ==
    /\ Scanning
    /\ r.lo > CellCritLow /\ r.hi < conf.cell_crit_high
    /\ m' = [Seen(r) EXCEPT
               !.packs = @ + 1,
               !.sum = @ + r.sum,
               !.asum = @ + r.amps,
               !.tsum = @ + NProbes * r.temp,
               !.cap = IF r.discharging THEN @ + r.cap ELSE @,
               !.cell_min = IF r.lo < @ THEN r.lo ELSE @,
               !.cell_max = IF r.hi > @ THEN r.hi ELSE @]
    /\ NextPack
    /\ UNCHANGED conf

ScanPack ==
    \/ SkipPack
    \/ \E r \in PackReadings : CritLowPack(r) \/ CritHighPack(r) \/ InRangePack(r)

-----------------------------------------------------------------------------
(* After the scan.                                                         *)

Scanned == pc = "scan" /\ (~m.in_range \/ pk > npacks)

Reported == m.inv \/ m.packs > 0

\* Mutant: the critical state is never left.
InRangeForgotten(c) == c

\* All cells in range: the critical state is over.
InRange(c) ==
    IF m.in_range THEN [c EXCEPT !.critvolt = FALSE,
                                 !.force_soc = IF c.critvolt THEN FALSE ELSE @]
    ELSE c

\* A pass lasts a while (the time since cv_start_time matters only in CV mode).
Aged(c) ==
    IF c.charging /\ c.mode = 2
    THEN {[c EXCEPT !.cv_age = IF @ + d <= CVTime THEN @ + d ELSE CVTime] : d \in 1..MaxTick}
    ELSE {c}

\* Nobody reported: the loop sleeps and starts again, or the program ends.
NothingReported ==
    /\ Scanned /\ ~Reported
    /\ pc' = IF HasFile \/ HasInverter THEN "top" ELSE "exit"
    /\ conf' \in Aged(InRange(conf))
    /\ m' = NoMeasure
    /\ UNCHANGED <<pk, npacks, startup, reconf, owed>>

\* Mutant: the capacity is that of the packs that happen to report.
LearnPartly(c) ==
    [c EXCEPT !.capacity = IF @ = 0 /\ UserCapacity <= 0 /\ m.packs > 0 THEN m.cap ELSE @]

Learn(c) ==
    [c EXCEPT !.capacity =
        IF @ = 0 /\ UserCapacity <= 0 /\ npacks > 0 /\ m.packs = npacks THEN m.cap ELSE @]

Temperature == IF m.packs > 0 THEN m.tsum \div m.packs ELSE 250

FromPacks == m.packs > 0 /\ (UsePackVoltage \/ ~m.inv)

Volts == IF FromPacks THEN m.sum \div m.packs ELSE m.inv_volts

Amps == IF FromPacks THEN m.asum \div m.packs ELSE m.inv_amps

\* capacity, battery_temp, battery_voltage, battery_amps and soc.
Evaluate ==
    /\ Scanned /\ Reported
    /\ pc' = "check"
    /\ conf' = [Learn(InRange(conf)) EXCEPT
                  !.battery_temp = Temperature,
                  !.soc = IF UserSoC < 0
                          THEN ((Volts - EmptyVoltage) * 100) \div (conf.target - EmptyVoltage)
                          ELSE UserSoC]
    /\ m' = [m EXCEPT !.volts = Volts, !.amps = Amps]
    /\ UNCHANGED <<pk, npacks, startup, reconf, owed>>

Check ==
    /\ At("check", "send")
    /\ conf' = charge_check(conf, m)
    /\ UNCHANGED <<m, pk, npacks, startup, reconf, owed>>

\* The first pass tells the inverter not to charge, whatever charge_check did.
\* 99.9 % is 99 here.
Send ==
    /\ At("send", "sent")
    /\ conf' = IF m.inv /\ startup = 1 THEN [charge_stop(conf) EXCEPT !.soc = 99] ELSE conf
    /\ UNCHANGED <<m, pk, npacks, startup, reconf, owed>>

\* The second pass starts a charge if the battery is not nearly full.
EndPass ==
    /\ At("sent", "top")
    /\ startup' = IF startup = 1 THEN 2 ELSE 0
    /\ conf' \in Aged(IF startup = 2 /\ conf.soc < 95 THEN charge_start(conf) ELSE conf)
    /\ m' = NoMeasure
    /\ UNCHANGED <<pk, npacks, reconf, owed>>

Loop ==
    \/ ReconfigBegin \/ ReconfigEnd \/ ReconfigCrash
    \/ ReadAll \/ ScanPack \/ NothingReported \/ Evaluate \/ Check \/ Send \/ EndPass

Stopped == pc = "exit" /\ UNCHANGED vars

Next == Loop \/ SigUsr1 \/ Stopped

\* The main thread runs; no source is assumed ever to report.
Spec == Init /\ [][Next]_vars /\ WF_vars(Loop)

-----------------------------------------------------------------------------
(* Properties.                                                             *)

\* si_write is sending conf to the inverter.
Sending == pc = "sent" /\ m.inv

\* "Do not start the charge until we have a capacity": however the passes, the
\* start-up and the re-reads of the configuration follow each other.
ChargingNeedsCapacity == conf.charging => conf.capacity > 0

\* Outside of a charge the inverter is told 0.1 A, at the float voltage: every
\* way out of a charge (cold, heat, time, a critical cell, the first pass, a
\* re-read) leaves nothing of it behind.
IdleIsTrickle ==
    Sending /\ ~conf.charging =>
        conf.amps = Trickle /\ conf.cuts = 0 /\ conf.charge_voltage = FullVoltage

\* A voltage above the float voltage is sent only during the constant-current
\* phase, and never above the maximum: the last raise is cut down to it, and
\* every way out of the phase takes the raises back.
VoltageWithinMax ==
    Sending /\ conf.charge_voltage > FullVoltage =>
        conf.charging /\ conf.mode = 1 /\ conf.charge_voltage <= MaxVoltage

\* No charge is commanded after two hours of constant voltage.
SaturationBounded ==
    Sending /\ conf.charging /\ conf.mode = 2 => conf.cv_age < CVTime

\* The critical state that goes with a command is that of the pass it belongs
\* to, not one left over, and the state of charge is forced only within it.
CritStateIsCurrent ==
    /\ Sending => (conf.critvolt <=> ~m.in_range)
    /\ conf.force_soc => conf.critvolt

\* The capacity is worked out once, from packs that all reported; until the
\* configuration is read again nothing changes it under a running charge.
CapacityIsKept ==
    [][pc # "reconfig" /\ conf.capacity # conf'.capacity =>
         conf.capacity = 0 /\ m.packs = npacks /\ ~conf.charging]_vars

\* A constant-voltage phase ends, if anything reports again and again.
SaturationEnds ==
    []<>(pc = "check") =>
        ((conf.charging /\ conf.mode = 2) ~> ~(conf.charging /\ conf.mode = 2))

\* No charge goes on after a pass in which no probe of the packs is above freezing
\* (battery.c:125), however many probes main adds up and however the packs differ.
FreezingEndsCharge ==
    [][pc = "check" /\ pc' = "send" /\ m.packs > 0 /\ m.warmest <= 0
         /\ conf.charging => ~conf'.charging]_vars

-----------------------------------------------------------------------------
(* What comments say and the code does not do.                             *)

\* "If any cell reaches crit high ... Disable charging" (main.c:252).
CritHighStopsCharge == Sending /\ m.highest >= CellCritHigh => ~conf.charging

\* "USR causes config re-read" (main.c:174): a re-read that is owed is pending.
SignalIsKept == owed => reconf

=============================================================================
