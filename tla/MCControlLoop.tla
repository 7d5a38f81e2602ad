--------------------------- MODULE MCControlLoop ---------------------------
(* A battery of two LiFePO4 cells per pack, and the readings that take the  *)
(* decisions of the scan and of the charge controller either way.           *)
EXTENDS ControlLoop

\* A forced value that the configuration does not give (-1 volt).
Unset == -100

\* A pack's cells and the temperature of its probes.  cell_high is set to 3.58 V in
\* the configurations, so that raising 7.16 V by 0.1 V twice goes past the maximum of
\* 7.30 V, and a pack has two probes, which report the same.
R(lo, hi, temp) ==
    [lo |-> lo, hi |-> hi, sum |-> lo + hi, amps |-> -20,
     temp |-> temp, cap |-> 10, discharging |-> TRUE]

EmptyPack == R(250, 300, 250)
HalfPack  == R(320, 330, 250)
FullPack  == R(355, 365, 250)
WarmPack  == R(320, 330, 280)
CoolPack  == R(320, 330, 20)
IcyPack   == R(250, 300, 0)
LowPack   == R(200, 300, 250)
HighPack  == R(370, 380, 250)
WildPack  == R(330, 990, 250)

\* A pack whose discharge switch is off counts for nothing in the capacity.
OffPack == [HalfPack EXCEPT !.discharging = FALSE]

AllReadings ==
    {EmptyPack, HalfPack, FullPack, WarmPack, CoolPack, IcyPack, LowPack, WildPack, OffPack}

MildReadings == {EmptyPack, HalfPack, FullPack, IcyPack, CoolPack, HighPack, WildPack}

PairReadings == {EmptyPack, FullPack, IcyPack, HighPack, OffPack}

OneInverter == {[volts |-> 660, amps |-> -20]}

AnyInverter == {[volts |-> 480, amps |-> -20], [volts |-> 660, amps |-> -400]}

=============================================================================
