------------------------------ MODULE Battery -------------------------------
(***************************************************************************)
(* The arithmetic of a charge: VirtualEvClient.tick and the charging curve *)
(* on one side, the charger's own energy meter on the other, and what the  *)
(* CSMS makes of a meter value.  The simulator ticks the battery every     *)
(* second, the meter samples it every five; the two loops share no clock.  *)
(*                                                                         *)
(* Numbers are exact.  A unit of charge is a hundredth of a kilowatt for a *)
(* second, so that every power of the curve is a whole number of units per *)
(* second.  One percent of a battery is 3600 units for each kWh of its     *)
(* capacity, and one unit is 1/360 of a watt-hour.                         *)
(*                                                                         *)
(* One EV and one connector; that the commands and messages arrive is the  *)
(* subject of module Charging.                                             *)
(***************************************************************************)
EXTENDS Integers

CONSTANTS
    Percent,       \* units in one percent of the battery: its capacity
    EvMaxes,       \* the EV's own limits, in kW
    ChargerMaxes,  \* the limits of the chargers it is plugged into, in kW
    Targets,       \* target_soc_percent
    FirstSocs,     \* soc_percent at creation
    TicksMin,      \* fewest ticks between two meter samples of a charging EV
    TicksMax,      \* most ticks between two meter samples
    MaxStarts      \* bound: transactions

\* The request schemas bound none of these; the capacity must not be zero.
ASSUME BatteryAssumption ==
    /\ Percent \in Nat \ {0}
    /\ EvMaxes \subseteq Nat /\ ChargerMaxes \subseteq Nat
    /\ Targets \subseteq Nat /\ FirstSocs \subseteq 0 .. 100
    /\ TicksMin \in Nat \ {0} /\ TicksMax \in Nat /\ TicksMin <= TicksMax
    /\ MaxStarts \in Nat

Full == 100 * Percent

VARIABLES
    ev,          \* VirtualEvClient: its battery, limits, status and counters
    chargerMax,  \* max_power_kw of the charger the EV is or was plugged into
    metering,    \* the charger's _is_charging, with its meter task
    ticks,       \* ticks since the last meter sample, or since the start
    register,    \* the charger's _energy_wh
    session,     \* the CSMS's session: energy_kwh, current_power_kw, soc_percent
    starts       \* transactions so far

vars == <<ev, chargerMax, metering, ticks, register, session, starts>>

Ev == [soc : Nat, first : Nat, target : Nat, max : EvMaxes, status : {"idle", "plugged", "charging", "full"},
       charged : Nat,         \* energy_charged_kwh
       sessionCharged : Nat]  \* _session_energy_kwh

Plugged == ev.status # "idle"
Charging == ev.status = "charging"

-----------------------------------------------------------------------------
(* compute_charge_power                                                    *)

\* Mutant: the larger limit counts.
LargerMax == IF ev.max < chargerMax THEN chargerMax ELSE ev.max

\* min(ev_max_kw, charger_max_kw)
EffectiveMax == IF ev.max < chargerMax THEN ev.max ELSE chargerMax

\* Mutant: the steps at 90 and 95 percent are swapped.
SwappedFactor(soc) ==
    CASE soc >= 95 * Percent -> 30
      [] soc >= 90 * Percent /\ soc < 95 * Percent -> 15
      [] soc >= 80 * Percent /\ soc < 90 * Percent -> 55
      [] soc >= 70 * Percent /\ soc < 80 * Percent -> 80
      [] OTHER -> 100

\* The share of the limit that the curve allows, in percent.
Factor(soc) ==
    CASE soc >= 95 * Percent -> 15
      [] soc >= 90 * Percent /\ soc < 95 * Percent -> 30
      [] soc >= 80 * Percent /\ soc < 90 * Percent -> 55
      [] soc >= 70 * Percent /\ soc < 80 * Percent -> 80
      [] OTHER -> 100

Power(soc) == IF soc >= ev.target \/ soc >= Full THEN 0 ELSE EffectiveMax * Factor(soc)

\* The most the EV ever takes in a second.
Peak == ev.max * 100

-----------------------------------------------------------------------------
(* VirtualEvClient                                                         *)

\* The charger admits an EV when its connector has no transaction left.
Plug ==
    /\ ~Plugged /\ ~metering
    /\ ev' = [ev EXCEPT !.status = "plugged"]
    /\ chargerMax' \in ChargerMaxes
    /\ UNCHANGED <<metering, ticks, register, session, starts>>

Unplug ==
    /\ Plugged /\ ~Charging
    /\ ev' = [ev EXCEPT !.status = "idle"]
    /\ UNCHANGED <<chargerMax, metering, ticks, register, session, starts>>

\* Mutant: the battery is not limited to 100 percent.
Overfilled(soc) == soc

Capped(soc) == IF soc < Full THEN soc ELSE Full

AtTarget(soc) == soc >= ev.target

\* Mutant: the energy of the second is counted at the power after it.
TickedLate ==
    LET power == Power(ev.soc)
        soc == Capped(ev.soc + power)
    IN  IF power = 0
        THEN [ev EXCEPT !.status = IF AtTarget(ev.soc) THEN "full" ELSE "plugged"]
        ELSE [ev EXCEPT !.soc = soc,
                        !.charged = @ + Power(soc),
                        !.sessionCharged = @ + Power(soc),
                        !.status = IF AtTarget(soc) THEN "full" ELSE @]

\* Mutant: a charge without power goes on.
TickedIdle ==
    LET power == Power(ev.soc)
        soc == Capped(ev.soc + power)
    IN  [ev EXCEPT !.soc = soc,
                   !.charged = @ + power,
                   !.sessionCharged = @ + power,
                   !.status = IF AtTarget(soc) THEN "full" ELSE @]

\* Without power the charge is over; otherwise a second of it is added, and
\* counted in whole even where the battery is capped.
Ticked ==
    LET power == Power(ev.soc)
        soc == Capped(ev.soc + power)
    IN  IF power = 0
        THEN [ev EXCEPT !.status = IF AtTarget(ev.soc) THEN "full" ELSE "plugged"]
        ELSE [ev EXCEPT !.soc = soc,
                        !.charged = @ + power,
                        !.sessionCharged = @ + power,
                        !.status = IF AtTarget(soc) THEN "full" ELSE @]

\* Simulator._loop, once a second.
Tick ==
    /\ Charging
    /\ ticks < TicksMax
    /\ ticks' = ticks + 1
    /\ ev' = Ticked
    /\ UNCHANGED <<chargerMax, metering, register, session, starts>>

-----------------------------------------------------------------------------
(* The charger's meter and the CSMS                                        *)

\* Mutant: the register goes on from the last transaction.
RegisterKept == register

\* _energy_wh at the start of a transaction.
RegisterAtStart == 0

\* _start_transaction, VirtualEvClient.start_charging, create_session.
Start ==
    /\ Plugged /\ ~metering /\ starts < MaxStarts
    /\ ~AtTarget(ev.soc)
    /\ ev' = [ev EXCEPT !.status = "charging", !.sessionCharged = 0]
    /\ metering' = TRUE
    /\ ticks' = 0
    /\ register' = RegisterAtStart
    /\ session' = [energy |-> 0, power |-> 0, soc |-> ev.soc]
    /\ starts' = starts + 1
    /\ UNCHANGED chargerMax

\* _get_charge_power and _get_ev_soc: a connector without an EV has neither.
MeterPower == IF Plugged THEN Power(ev.soc) ELSE 0
MeterSoc == IF Plugged THEN ev.soc ELSE 20 * Percent

\* _build_meter_value: watt-hours, watts, and the whole percents of the charge.
BuildMeterValue(energy) ==
    [Wh360 |-> energy, W |-> 10 * MeterPower, SoC |-> MeterSoc \div Percent]

\* Mutant: the percents are rounded up.
ParseRoundedUp(value) ==
    [energy |-> value.Wh360, power |-> value.W \div 10, soc |-> (value.SoC + 1) * Percent]

\* _parse_meter_values divides by 1000: 1/360 Wh are 1/360000 kWh, a unit again.
ParseMeterValue(value) ==
    [energy |-> value.Wh360, power |-> value.W \div 10, soc |-> value.SoC * Percent]

\* One round of _meter_loop and the Updated event, add_meter_value.
Sample ==
    /\ metering
    /\ ticks >= TicksMin \/ ~Charging
    /\ register' = register + 5 * MeterPower
    /\ session' = ParseMeterValue(BuildMeterValue(register'))
    /\ ticks' = 0
    /\ UNCHANGED <<ev, chargerMax, metering, starts>>

\* _stop_transaction and end_session: no last sample is taken.
Stop ==
    /\ metering
    /\ metering' = FALSE
    /\ ev' = IF Plugged THEN [ev EXCEPT !.status = "plugged"] ELSE ev
    /\ session' = [session EXCEPT !.power = 0]
    /\ UNCHANGED <<chargerMax, ticks, register, starts>>

-----------------------------------------------------------------------------
Init ==
    /\ \E soc \in FirstSocs, target \in Targets, max \in EvMaxes :
          ev = [soc |-> soc * Percent, first |-> soc * Percent, target |-> target * Percent,
                max |-> max, status |-> "idle", charged |-> 0, sessionCharged |-> 0]
    /\ chargerMax \in ChargerMaxes
    /\ metering = FALSE
    /\ ticks = 0
    /\ register = 0
    /\ session = [energy |-> 0, power |-> 0, soc |-> ev.soc]
    /\ starts = 0

Next == Plug \/ Unplug \/ Tick \/ Start \/ Sample \/ Stop

Spec == Init /\ [][Next]_vars

\* Simulator._loop and _meter_loop go round as long as they have work.
FairSpec == Spec /\ WF_vars(Tick) /\ WF_vars(Sample)

-----------------------------------------------------------------------------
(* Properties                                                              *)

\* Every variable has its type, and the battery never holds more than 100 %.
TypeOK ==
    /\ ev \in Ev /\ ev.soc <= Full
    /\ chargerMax \in ChargerMaxes
    /\ metering \in BOOLEAN
    /\ ticks \in 0 .. TicksMax
    /\ register \in Nat
    /\ session \in [energy : Nat, power : Nat, soc : Nat]
    /\ starts \in 0 .. MaxStarts

\* The energy the EV has counted is what its battery has gained; only the last
\* second before 100 % is counted in whole, and then by less than one second.
EnergyAccounted ==
    LET excess == ev.charged - (ev.soc - ev.first)
    IN  IF ev.soc < Full THEN excess = 0
        ELSE 0 <= excess /\ (excess > 0 => excess < Peak)

\* A charge passes its target by less than one second's worth.
StopsAtTarget == ev.soc > ev.first => ev.soc < ev.target + Peak

\* The energy of the CSMS's session, from the charger's own meter, follows what
\* the EV has taken, up to the drift of the two loops and one interval: at five
\* ticks to a sample it never claims more and never misses more than five
\* seconds at full power, nor does it when the session has ended.
MeterHonest ==
    /\ TicksMin * session.energy <= 5 * ev.sessionCharged
    /\ 5 * ev.sessionCharged <= TicksMax * (session.energy + 5 * Peak)

\* The state of charge the CSMS has for a plugged EV is behind the battery's by
\* less than one percent and what one interval adds.
SessionSocFollows ==
    metering /\ Plugged =>
        /\ session.soc <= ev.soc
        /\ ev.soc < session.soc + Percent + TicksMax * Peak

\* A charge comes to its end, whatever the capacity, the limits and the target.
ChargeEnds == Charging ~> ~Charging
=============================================================================
