--------------------------- MODULE BatteryProofs ----------------------------
(***************************************************************************)
(* For every capacity, limit, target and drift of the two loops: the types *)
(* of module Battery, the battery's own accounts, and the honesty of the   *)
(* charger's meter.  The argument for the meter is that the power never    *)
(* rises while a transaction lasts: what a sample adds is at most what     *)
(* each tick of its interval has added, and at least what each tick of the *)
(* next one will.                                                          *)
(***************************************************************************)
EXTENDS Battery, TLAPS

-----------------------------------------------------------------------------
(* Arithmetic: products of variables are beyond the provers unless a fact  *)
(* about them is cited                                                     *)

\* A product grows with its first factor.
LEMMA ProductMonotone ==
    ASSUME NEW a \in Nat, NEW b \in Nat, NEW c \in Nat, a <= b
    PROVE  a * c <= b * c
  OBVIOUS

\* A product is distributed over a sum, with a number in front of one of its terms.
LEMMA ProductOfSum ==
    ASSUME NEW a \in Nat, NEW b \in Nat, NEW c \in Nat
    PROVE  /\ a * (b + 5 * c) = a * b + 5 * (a * c)
           /\ (a + 1) * c = a * c + c
           /\ a * b \in Nat
  OBVIOUS

\* An interval is the ticks so far, the next one, and those left.
LEMMA ProductSplit ==
    ASSUME NEW a \in Nat, NEW b \in Nat, NEW c \in Nat
    PROVE  (a + 1 + b) * c = (a + 1) * c + b * c /\ b * c \in Nat
  OBVIOUS

-----------------------------------------------------------------------------
(* The charging curve                                                      *)

\* Each step of the curve is one of five, and none is higher than the one before.
LEMMA FactorFalls ==
    ASSUME NEW a \in Nat, NEW b \in Nat, a <= b
    PROVE  /\ Factor(a) \in {15, 30, 55, 80, 100}
           /\ Factor(b) <= Factor(a)
  BY BatteryAssumption DEF Factor

\* The curve never asks for more than the EV's own limit.
LEMMA PowerBounded ==
    ASSUME ev \in Ev, chargerMax \in ChargerMaxes, NEW soc \in Nat
    PROVE  Power(soc) \in Nat /\ Power(soc) <= Peak /\ Peak \in Nat /\ EffectiveMax \in Nat
<1>1. EffectiveMax \in Nat /\ EffectiveMax <= ev.max /\ ev.max \in Nat
  <2>1. ev.max \in Nat /\ chargerMax \in Nat
    BY BatteryAssumption DEF Ev
  <2>2. QED
    BY <2>1 DEF EffectiveMax
<1>2. Factor(soc) \in {15, 30, 55, 80, 100}
  BY FactorFalls
<1>3. QED
  BY <1>1, <1>2, SMT DEF Power, Peak

\* A fuller battery never takes more.
LEMMA PowerFalls ==
    ASSUME ev \in Ev, chargerMax \in ChargerMaxes, NEW a \in Nat, NEW b \in Nat, a <= b
    PROVE  Power(b) <= Power(a)
<1>1. /\ Factor(a) \in {15, 30, 55, 80, 100} /\ Factor(b) \in {15, 30, 55, 80, 100}
      /\ Factor(b) <= Factor(a)
  BY FactorFalls
<1>2. EffectiveMax \in Nat
  BY PowerBounded
<1>3. EffectiveMax * Factor(b) <= EffectiveMax * Factor(a) /\ 0 <= EffectiveMax * Factor(a)
  BY <1>1, <1>2
<1>4. ev.target \in Nat /\ Full \in Nat
  BY BatteryAssumption DEF Ev, Full
<1>5. QED
  BY <1>3, <1>4 DEF Power

-----------------------------------------------------------------------------
(* Type correctness                                                        *)

\* The whole percents of a charge, rounded down: less than one is lost.
LEMMA WholePercents ==
    ASSUME NEW soc \in Nat
    PROVE  /\ soc \div Percent \in Nat /\ (soc \div Percent) * Percent \in Nat
           /\ (soc \div Percent) * Percent <= soc
           /\ soc < (soc \div Percent) * Percent + Percent
  BY BatteryAssumption

\* What one tick does to a charging EV, in terms of the power it had before.
LEMMA TickEffect ==
    ASSUME TypeOK, Tick
    PROVE  LET power == Power(ev.soc)
           IN  /\ power \in Nat /\ power <= Peak
               /\ ev' \in Ev
               /\ ev'.charged = ev.charged + power
               /\ ev'.sessionCharged = ev.sessionCharged + power
               /\ ev'.first = ev.first /\ ev'.target = ev.target /\ ev'.max = ev.max
               /\ ev'.soc = Capped(ev.soc + power) /\ ev'.soc \in Nat
               /\ ev.soc <= ev'.soc /\ ev'.soc <= Full
               /\ ev'.status \in {"plugged", "charging", "full"}
               /\ power > 0 => ev.soc < ev.target /\ ev.soc < Full
               /\ MeterPower' <= power /\ MeterPower' \in Nat
               /\ ev'.status # "charging" => MeterPower' = 0
<1> DEFINE power == Power(ev.soc)
<1>1. /\ ev \in Ev /\ chargerMax \in ChargerMaxes /\ ev.soc \in Nat /\ ev.target \in Nat
      /\ ev.charged \in Nat /\ ev.sessionCharged \in Nat /\ ev.soc <= Full /\ Full \in Nat
  BY BatteryAssumption DEF TypeOK, Ev, Full
<1>2. power \in Nat /\ power <= Peak
  BY <1>1, PowerBounded
<1>3. power > 0 => ev.soc < ev.target /\ ev.soc < Full
  BY <1>1 DEF Power
<1>4. /\ ev.soc <= Capped(ev.soc + power) /\ Capped(ev.soc + power) <= Full
      /\ Capped(ev.soc + power) \in Nat
      /\ power = 0 => Capped(ev.soc + power) = ev.soc
  BY <1>1, <1>2 DEF Capped
<1>5. ev' = Ticked /\ chargerMax' = chargerMax /\ ev.status = "charging"
  BY DEF Tick, Charging
<1>6. /\ ev' \in Ev
      /\ ev'.charged = ev.charged + power
      /\ ev'.sessionCharged = ev.sessionCharged + power
      /\ ev'.first = ev.first /\ ev'.target = ev.target /\ ev'.max = ev.max
      /\ ev'.soc = Capped(ev.soc + power)
      /\ ev'.status \in {"plugged", "charging", "full"}
  <2>1. CASE power = 0
    <3>1. \E status \in {"full", "plugged"} : ev' = [ev EXCEPT !.status = status]
      BY <2>1, <1>5 DEF Ticked
    <3>2. QED
      BY <3>1, <2>1, <1>1, <1>4 DEF Ev
  <2>2. CASE power # 0
    <3>1. \E status \in {"full", "charging"} :
             ev' = [ev EXCEPT !.soc = Capped(ev.soc + power), !.charged = @ + power,
                              !.sessionCharged = @ + power, !.status = status]
      BY <2>2, <1>5 DEF Ticked
    <3>2. QED
      <4>1. PICK status \in {"full", "charging"} :
               ev' = [ev EXCEPT !.soc = Capped(ev.soc + power), !.charged = @ + power,
                                !.sessionCharged = @ + power, !.status = status]
        BY <3>1
      <4>2. ev.charged + power \in Nat /\ ev.sessionCharged + power \in Nat
        BY <1>1, <1>2
      <4>3. QED
        BY <4>1, <4>2, <1>1, <1>4 DEF Ev
  <2>3. QED
    BY <2>1, <2>2
<1>7. ev'.target = ev.target /\ ev'.max = ev.max
  BY <1>6
<1>8. Power(ev.soc)' = Power(ev'.soc)
  BY <1>5, <1>7 DEF Power, EffectiveMax, Factor, Full
<1>9. Power(ev'.soc) <= power /\ Power(ev'.soc) \in Nat
  BY <1>1, <1>4, <1>6, PowerFalls, PowerBounded
<1>10. MeterPower' = Power(ev'.soc)
  BY <1>6, <1>8 DEF MeterPower, Plugged
<1>11. ev'.status # "charging" => Power(ev'.soc) = 0
  <2>1. CASE power = 0
    BY <2>1, <1>9
  <2>2. CASE power # 0
    <3>1. ev'.status # "charging" => AtTarget(Capped(ev.soc + power))
      BY <2>2, <1>1, <1>5 DEF Ticked, Ev
    <3>2. QED
      BY <3>1, <1>6 DEF AtTarget, Power
  <2>3. QED
    BY <2>1, <2>2
<1>12. QED
  BY <1>1, <1>2, <1>3, <1>4, <1>6, <1>9, <1>10, <1>11

\* The initial state has the types.
LEMMA TypeInit == Init => TypeOK
<1> SUFFICES ASSUME Init PROVE TypeOK
  OBVIOUS
<1>1. PICK soc \in FirstSocs, target \in Targets, max \in EvMaxes :
          ev = [soc |-> soc * Percent, first |-> soc * Percent, target |-> target * Percent,
                max |-> max, status |-> "idle", charged |-> 0, sessionCharged |-> 0]
  BY DEF Init
<1>2. soc * Percent \in Nat /\ soc * Percent <= Full /\ target * Percent \in Nat
  <2>1. soc \in Nat /\ soc <= 100 /\ target \in Nat /\ Percent \in Nat
    BY BatteryAssumption
  <2>2. soc * Percent <= 100 * Percent
    BY <2>1, ProductMonotone
  <2>3. QED
    BY <2>1, <2>2 DEF Full
<1>3. ev \in Ev /\ ev.soc <= Full
  BY <1>1, <1>2 DEF Ev
<1>4. session \in [energy : Nat, power : Nat, soc : Nat]
  <2>1. ev.soc \in Nat /\ session = [energy |-> 0, power |-> 0, soc |-> ev.soc]
    BY <1>3 DEF Ev, Init
  <2>2. QED
    BY <2>1
<1>5. ticks \in 0 .. TicksMax /\ starts \in 0 .. MaxStarts
  BY BatteryAssumption DEF Init
<1>6. QED
  BY <1>3, <1>4, <1>5 DEF Init, TypeOK

\* No step leaves the types.
LEMMA TypeStep == TypeOK /\ [Next]_vars => TypeOK'
<1> SUFFICES ASSUME TypeOK, [Next]_vars PROVE TypeOK'
  OBVIOUS
<1> USE BatteryAssumption
<1>0. ev \in Ev /\ ev.soc \in Nat /\ ev.soc <= Full /\ Full' = Full
  BY DEF TypeOK, Ev, Full
<1>1. CASE Plug
  BY <1>1, <1>0 DEF Plug, TypeOK, Ev
<1>2. CASE Unplug
  BY <1>2, <1>0 DEF Unplug, TypeOK, Ev
<1>3. CASE Tick
  <2>1. ev' \in Ev /\ ev'.soc <= Full
    BY <1>3, TickEffect
  <2>2. QED
    BY <1>3, <1>0, <2>1 DEF Tick, TypeOK
<1>4. CASE Start
  <2>1. ev' \in Ev /\ ev'.soc <= Full
    BY <1>4, <1>0 DEF Start, Ev
  <2>2. register' \in Nat /\ session' \in [energy : Nat, power : Nat, soc : Nat]
    BY <1>4, <1>0 DEF Start, RegisterAtStart
  <2>3. QED
    BY <1>4, <1>0, <2>1, <2>2 DEF Start, TypeOK
<1>5. CASE Sample
  <2>1. MeterPower \in Nat /\ MeterSoc \in Nat
    BY <1>0, PowerBounded DEF MeterPower, MeterSoc, TypeOK
  <2>2. register' \in Nat
    BY <1>5, <2>1 DEF Sample, TypeOK
  <2>3. session' \in [energy : Nat, power : Nat, soc : Nat]
    <3>1. (MeterSoc \div Percent) * Percent \in Nat
      BY <2>1, WholePercents
    <3>2. (10 * MeterPower) \div 10 \in Nat
      BY <2>1
    <3>3. QED
      BY <1>5, <2>2, <3>1, <3>2 DEF Sample, BuildMeterValue, ParseMeterValue
  <2>4. QED
    BY <1>5, <1>0, <2>2, <2>3 DEF Sample, TypeOK
<1>6. CASE Stop
  <2>1. ev' \in Ev /\ ev'.soc <= Full
    BY <1>6, <1>0 DEF Stop, Ev
  <2>2. session' \in [energy : Nat, power : Nat, soc : Nat]
    BY <1>6 DEF Stop, TypeOK
  <2>3. QED
    BY <1>6, <1>0, <2>1, <2>2 DEF Stop, TypeOK
<1>7. CASE UNCHANGED vars
  BY <1>7, <1>0 DEF vars, TypeOK
<1>8. QED
  BY <1>1, <1>2, <1>3, <1>4, <1>5, <1>6, <1>7 DEF Next

\* Every reachable state has the types: Battery!TypeOK.
THEOREM TypeCorrect == Spec => []TypeOK
  BY TypeInit, TypeStep, PTL DEF Spec

-----------------------------------------------------------------------------
(* The battery's own accounts                                              *)

\* What the battery's two properties need besides themselves: it never falls.
Accounts == EnergyAccounted /\ StopsAtTarget /\ ev.first <= ev.soc

\* A new battery has gained and counted nothing.
LEMMA AccountsInit == Init => Accounts
<1> SUFFICES ASSUME Init PROVE Accounts
  OBVIOUS
<1>1. ev.first = ev.soc /\ ev.charged = 0
  BY DEF Init
<1>2. ev \in Ev /\ ev.soc \in Nat
  BY TypeInit DEF TypeOK, Ev
<1>3. QED
  BY <1>1, <1>2 DEF Accounts, EnergyAccounted, StopsAtTarget

\* A tick keeps the accounts, and no other step touches what they are about.
LEMMA AccountsStep == TypeOK /\ Accounts /\ [Next]_vars => Accounts'
<1> SUFFICES ASSUME TypeOK, Accounts, [Next]_vars PROVE Accounts'
  OBVIOUS
<1>1. CASE Tick
  <2> DEFINE power == Power(ev.soc)
  <2>1. /\ power \in Nat /\ power <= Peak
        /\ ev'.charged = ev.charged + power
        /\ ev'.first = ev.first /\ ev'.target = ev.target /\ ev'.max = ev.max
        /\ ev'.soc = Capped(ev.soc + power) /\ ev'.soc \in Nat
        /\ power > 0 => ev.soc < ev.target /\ ev.soc < Full
    BY <1>1, TickEffect
  <2>2. /\ ev.soc \in Nat /\ ev.first \in Nat /\ ev.target \in Nat /\ ev.charged \in Nat
        /\ ev.soc <= Full /\ Full \in Nat /\ Full' = Full
    BY BatteryAssumption DEF TypeOK, Ev, Full
  <2>3. Peak' = Peak /\ Peak \in Nat
    BY <2>1, <2>2, PowerBounded DEF Peak, TypeOK
  <2>4. ev.soc <= ev'.soc /\ ev'.soc <= ev.soc + power
    BY <2>1, <2>2 DEF Capped
  <2>5. EnergyAccounted'
    <3>1. CASE power = 0
      <4>1. ev'.soc = ev.soc /\ ev'.charged = ev.charged
        BY <3>1, <2>1, <2>2 DEF Capped
      <4>2. QED
        BY <4>1, <2>1, <2>2, <2>3 DEF Accounts, EnergyAccounted
    <3>2. CASE power > 0
      <4>1. ev.charged = ev.soc - ev.first /\ ev.soc < Full
        BY <3>2, <2>1, <2>2 DEF Accounts, EnergyAccounted
      <4>2. CASE ev.soc + power < Full
        BY <4>1, <4>2, <2>1, <2>2, <2>3 DEF Capped, EnergyAccounted
      <4>3. CASE ev.soc + power >= Full
        BY <4>1, <4>3, <2>1, <2>2, <2>3 DEF Capped, EnergyAccounted
      <4>4. QED
        BY <4>2, <4>3, <2>1, <2>2
    <3>3. QED
      BY <3>1, <3>2, <2>1
  <2>6. StopsAtTarget'
    <3>1. CASE power = 0
      <4>1. ev'.soc = ev.soc
        BY <3>1, <2>1, <2>2 DEF Capped
      <4>2. QED
        BY <4>1, <2>1, <2>3 DEF Accounts, StopsAtTarget
    <3>2. CASE power > 0
      BY <3>2, <2>1, <2>2, <2>3, <2>4 DEF StopsAtTarget
    <3>3. QED
      BY <3>1, <3>2, <2>1
  <2>7. QED
    BY <2>1, <2>2, <2>4, <2>5, <2>6 DEF Accounts
<1>2. ASSUME ~Tick PROVE Accounts'
  <2>1. /\ ev'.soc = ev.soc /\ ev'.first = ev.first /\ ev'.target = ev.target
        /\ ev'.max = ev.max /\ ev'.charged = ev.charged
    <3>1. ev \in Ev
      BY DEF TypeOK
    <3>2. QED
      BY <1>2, <3>1 DEF Next, Plug, Unplug, Start, Sample, Stop, vars, Ev
  <2>2. QED
    BY <2>1 DEF Accounts, EnergyAccounted, StopsAtTarget, Full, Peak
<1>3. QED
  BY <1>1, <1>2

\* Energy is counted as the battery gains it, but for the second that fills it:
\* Battery!EnergyAccounted.
THEOREM EnergyIsAccounted == Spec => []EnergyAccounted
<1>1. Accounts => EnergyAccounted
  BY DEF Accounts
<1>2. QED
  BY <1>1, TypeInit, TypeStep, AccountsInit, AccountsStep, PTL DEF Spec

\* No charge passes its target by a second's worth: Battery!StopsAtTarget.
THEOREM ChargeStopsAtTarget == Spec => []StopsAtTarget
<1>1. Accounts => StopsAtTarget
  BY DEF Accounts
<1>2. QED
  BY <1>1, TypeInit, TypeStep, AccountsInit, AccountsStep, PTL DEF Spec

-----------------------------------------------------------------------------
(* The charger's meter                                                     *)

\* The two sums that the meter is compared by: five times the session's energy,
\* and five times what the ticks since the last sample would be worth now.
Taken == 5 * ev.sessionCharged
Pending == 5 * (ticks * MeterPower)

\* The ticks since the last sample were worth at least what they would be worth
\* at the power of now, and those that may still come before the next at most that.
Bounds ==
    /\ register = session.energy
    /\ TicksMin * register + Pending <= Taken
    /\ Taken + 5 * (TicksMax * MeterPower)
          <= TicksMax * register + 5 * (TicksMax * Peak) + Pending

\* While the meter runs the bounds hold; what they imply holds for good.
MeterInv ==
    /\ Charging => metering
    /\ metering /\ ~Charging => MeterPower = 0
    /\ metering => Bounds
    /\ MeterHonest

\* The products in MeterInv and MeterHonest are natural numbers.
LEMMA MeterTypes ==
    ASSUME TypeOK
    PROVE  /\ ev \in Ev /\ chargerMax \in ChargerMaxes
           /\ ev.sessionCharged \in Nat /\ ev.soc \in Nat /\ Taken \in Nat
           /\ register \in Nat /\ ticks \in Nat /\ ticks <= TicksMax
           /\ TicksMin \in Nat /\ TicksMax \in Nat
           /\ MeterPower \in Nat /\ MeterPower <= Peak /\ Peak \in Nat
           /\ ticks * MeterPower \in Nat /\ Pending \in Nat
           /\ TicksMin * register \in Nat /\ TicksMax * register \in Nat
           /\ TicksMax * Peak \in Nat /\ TicksMax * MeterPower \in Nat
<1>1. /\ ev \in Ev /\ chargerMax \in ChargerMaxes /\ ev.sessionCharged \in Nat /\ ev.soc \in Nat
      /\ register \in Nat /\ ticks \in Nat /\ ticks <= TicksMax
      /\ TicksMin \in Nat /\ TicksMax \in Nat
  BY BatteryAssumption DEF TypeOK, Ev
<1>2. MeterPower \in Nat /\ MeterPower <= Peak /\ Peak \in Nat
  BY <1>1, PowerBounded DEF MeterPower
<1>3. /\ ticks * MeterPower \in Nat /\ TicksMin * register \in Nat /\ TicksMax * register \in Nat
      /\ TicksMax * Peak \in Nat /\ TicksMax * MeterPower \in Nat
  BY <1>1, <1>2, ProductOfSum
<1>4. QED
  BY <1>1, <1>2, <1>3 DEF Taken, Pending

\* MeterHonest follows from the two inequalities, whatever is pending.
LEMMA MeterBounds == TypeOK /\ Bounds => MeterHonest
<1> SUFFICES ASSUME TypeOK, Bounds PROVE MeterHonest
  OBVIOUS
<1> USE DEF Bounds
<1>1. ticks * MeterPower <= TicksMax * MeterPower
  BY MeterTypes, ProductMonotone
<1>2. TicksMax * (register + 5 * Peak) = TicksMax * register + 5 * (TicksMax * Peak)
  BY MeterTypes, ProductOfSum
<1>3. TicksMin * register <= Taken
  BY MeterTypes
<1>4. Taken <= TicksMax * register + 5 * (TicksMax * Peak)
  BY <1>1, MeterTypes DEF Pending
<1>5. QED
  BY <1>2, <1>3, <1>4 DEF MeterHonest, Taken

\* The same of the state after a step.
LEMMA MeterBoundsNext == TypeOK' /\ Bounds' => MeterHonest'
  BY MeterBounds, PTL

\* Before the first transaction nothing is metered.
LEMMA MeterInit == Init => MeterInv
<1> SUFFICES ASSUME Init PROVE MeterInv
  OBVIOUS
<1>1. TypeOK /\ ~metering /\ ~Charging /\ session.energy = 0
  <2>1. ev.status = "idle"
    BY DEF Init
  <2>2. QED
    BY <2>1, TypeInit DEF Init, Charging
<1>2. ev.sessionCharged = 0
  BY DEF Init
<1>3. TicksMin * 0 = 0 /\ TicksMax * (0 + 5 * Peak) \in Nat
  <2>1. TicksMax * (0 + 5 * Peak) = TicksMax * 0 + 5 * (TicksMax * Peak) /\ TicksMax * 0 \in Nat
    BY <1>1, MeterTypes, ProductOfSum
  <2>2. QED
    BY <2>1, <1>1, MeterTypes
<1>4. MeterHonest
  BY <1>1, <1>2, <1>3 DEF MeterHonest
<1>5. QED
  BY <1>1, <1>4 DEF MeterInv

\* What a tick adds is at most what the ticks before it in its interval were
\* worth, and at least what the ticks after it will be.
LEMMA MeterTick == TypeOK /\ TypeOK' /\ MeterInv /\ Tick => MeterInv'
<1> SUFFICES ASSUME TypeOK, TypeOK', MeterInv, Tick PROVE MeterInv'
  OBVIOUS
<1> DEFINE power == Power(ev.soc)
<1>1. /\ power \in Nat /\ power <= Peak /\ ev'.sessionCharged = ev.sessionCharged + power
      /\ ev'.max = ev.max
      /\ MeterPower' <= power /\ MeterPower' \in Nat
      /\ ev'.status # "charging" => MeterPower' = 0
  BY TickEffect
<1>2. /\ metering' = metering /\ register' = register /\ session' = session
      /\ ticks' = ticks + 1 /\ Charging /\ metering
  BY DEF Tick, MeterInv
<1>3. MeterPower = power /\ Peak' = Peak
  BY <1>1, <1>2 DEF MeterPower, Plugged, Charging, Peak
<1>4. Taken' = Taken + 5 * power
  BY <1>1, MeterTypes DEF Taken
<1>5. /\ (ticks + 1) * MeterPower' <= (ticks + 1) * power
      /\ (ticks + 1) * power = ticks * power + power
      /\ (ticks + 1) * MeterPower' \in Nat /\ ticks * power \in Nat
  <2>1. MeterPower' * (ticks + 1) <= power * (ticks + 1)
    BY <1>1, MeterTypes, ProductMonotone
  <2>2. QED
    BY <2>1, <1>1, MeterTypes, ProductOfSum
<1>6. TicksMin * register' + Pending' <= Taken'
  BY <1>1, <1>2, <1>3, <1>4, <1>5, MeterTypes DEF MeterInv, Bounds, Pending
<1>7. Taken' + 5 * (TicksMax * MeterPower')
         <= TicksMax * register' + 5 * (TicksMax * Peak') + Pending'
  <2>1. PICK left \in Nat : TicksMax = ticks + 1 + left
    <3>1. ticks < TicksMax
      BY DEF Tick
    <3>2. TicksMax - (ticks + 1) \in Nat /\ TicksMax = ticks + 1 + (TicksMax - (ticks + 1))
      BY <3>1, MeterTypes
    <3>3. QED
      BY <3>2
  <2>2. /\ TicksMax * MeterPower' = (ticks + 1) * MeterPower' + left * MeterPower'
        /\ TicksMax * power = ticks * power + power + left * power
        /\ left * MeterPower' <= left * power
        /\ left * MeterPower' \in Nat /\ left * power \in Nat
    <3>1. MeterPower' * left <= power * left
      BY <1>1, ProductMonotone
    <3>2. /\ (ticks + 1 + left) * MeterPower' = (ticks + 1) * MeterPower' + left * MeterPower'
          /\ (ticks + 1 + left) * power = (ticks + 1) * power + left * power
          /\ left * MeterPower' \in Nat /\ left * power \in Nat
      <4>1. ticks \in Nat /\ power \in Nat /\ MeterPower' \in Nat
        BY <1>1, MeterTypes
      <4>2. ASSUME NEW x \in Nat
            PROVE  (ticks + 1 + left) * x = (ticks + 1) * x + left * x /\ left * x \in Nat
        BY <4>1, ProductSplit
      <4>3. QED
        BY <4>1, <4>2
    <3>3. /\ TicksMax * MeterPower' = (ticks + 1 + left) * MeterPower'
          /\ TicksMax * power = (ticks + 1 + left) * power
      BY <2>1
    <3>4. left * MeterPower' <= left * power
      BY <3>1, <1>1
    <3>5. QED
      BY <3>2, <3>3, <3>4, <1>5
  <2>3. QED
    BY <1>1, <1>2, <1>3, <1>4, <1>5, <2>2, MeterTypes DEF MeterInv, Bounds, Pending
<1>8. Bounds'
  BY <1>2, <1>6, <1>7 DEF MeterInv, Bounds
<1>9. MeterHonest'
  BY <1>8, MeterBoundsNext
<1>10. QED
  BY <1>1, <1>2, <1>8, <1>9 DEF MeterInv, Charging

\* A sample adds as much as each tick of its interval has added, or less.
LEMMA MeterSample == TypeOK /\ TypeOK' /\ MeterInv /\ Sample => MeterInv'
<1> SUFFICES ASSUME TypeOK, TypeOK', MeterInv, Sample PROVE MeterInv'
  OBVIOUS
<1>1. /\ metering /\ metering' = metering /\ ev' = ev /\ chargerMax' = chargerMax
      /\ ticks' = 0 /\ register' = register + 5 * MeterPower
      /\ ticks >= TicksMin \/ ~Charging
  BY DEF Sample
<1>2. session'.energy = register'
  BY DEF Sample, BuildMeterValue, ParseMeterValue
<1>3. /\ MeterPower' = MeterPower /\ Peak' = Peak /\ Taken' = Taken /\ Charging' = Charging
  BY <1>1 DEF MeterPower, Plugged, Power, EffectiveMax, Factor, Full, Peak, Taken, Charging
<1>4. Pending' = 0
  <2>1. 0 * MeterPower = 0
    BY MeterTypes
  <2>2. QED
    BY <2>1, <1>1, <1>3 DEF Pending
<1>5. /\ TicksMin * register' = TicksMin * register + 5 * (TicksMin * MeterPower)
      /\ TicksMax * register' = TicksMax * register + 5 * (TicksMax * MeterPower)
      /\ TicksMin * MeterPower \in Nat
  BY <1>1, MeterTypes, ProductOfSum
<1>6. TicksMin * MeterPower <= ticks * MeterPower
  <2>1. CASE ticks >= TicksMin
    BY <2>1, MeterTypes, ProductMonotone
  <2>2. CASE ~Charging
    <3>1. MeterPower = 0
      BY <2>2, <1>1 DEF MeterInv
    <3>2. TicksMin * 0 = 0 /\ ticks * 0 = 0
      BY MeterTypes
    <3>3. QED
      BY <3>1, <3>2
  <2>3. QED
    BY <1>1, <2>1, <2>2
<1>7. ticks * MeterPower <= TicksMax * MeterPower
  BY MeterTypes, ProductMonotone
<1>8. Bounds
  BY <1>1 DEF MeterInv
<1>9. TicksMin * register' + Pending' <= Taken'
  BY <1>3, <1>4, <1>5, <1>6, <1>8, MeterTypes DEF Bounds, Pending
<1>10. Taken' + 5 * (TicksMax * MeterPower')
          <= TicksMax * register' + 5 * (TicksMax * Peak') + Pending'
  BY <1>3, <1>4, <1>5, <1>7, <1>8, MeterTypes DEF Bounds, Pending
<1>11. Bounds'
  BY <1>2, <1>9, <1>10 DEF Bounds
<1>12. MeterHonest'
  BY <1>11, MeterBoundsNext
<1>13. QED
  BY <1>1, <1>3, <1>11, <1>12 DEF MeterInv

\* A transaction starts with nothing taken and nothing registered.
LEMMA MeterStart == TypeOK /\ TypeOK' /\ Start => MeterInv'
<1> SUFFICES ASSUME TypeOK, TypeOK', Start PROVE MeterInv'
  OBVIOUS
<1>1. /\ ev' = [ev EXCEPT !.status = "charging", !.sessionCharged = 0]
      /\ metering' = TRUE /\ ticks' = 0 /\ register' = 0 /\ session'.energy = 0
      /\ chargerMax' = chargerMax
  BY DEF Start, RegisterAtStart
<1>2. /\ ev'.status = "charging" /\ ev'.sessionCharged = 0 /\ ev'.soc = ev.soc
      /\ ev'.target = ev.target /\ ev'.max = ev.max
  BY <1>1, MeterTypes DEF Ev
<1>3. MeterPower' = Power(ev.soc) /\ Peak' = Peak
  BY <1>1, <1>2 DEF MeterPower, Plugged, Power, EffectiveMax, Factor, Full, Peak
<1>4. Power(ev.soc) \in Nat /\ Power(ev.soc) <= Peak /\ Peak \in Nat
  BY MeterTypes, PowerBounded
<1>5. Pending' = 0 /\ Taken' = 0
  <2>1. 0 * Power(ev.soc) = 0
    BY <1>4
  <2>2. QED
    BY <2>1, <1>1, <1>2, <1>3 DEF Pending, Taken
<1>6. /\ TicksMin * 0 = 0 /\ TicksMax * 0 = 0
      /\ TicksMax * Power(ev.soc) <= TicksMax * Peak
      /\ TicksMax * Power(ev.soc) \in Nat /\ TicksMax * Peak \in Nat
  <2>1. Power(ev.soc) * TicksMax <= Peak * TicksMax
    BY <1>4, MeterTypes, ProductMonotone
  <2>2. QED
    BY <2>1, <1>4, MeterTypes, ProductOfSum
<1>7. Bounds'
  BY <1>1, <1>3, <1>5, <1>6 DEF Bounds
<1>8. MeterHonest'
  BY <1>7, MeterBoundsNext
<1>9. QED
  BY <1>1, <1>2, <1>7, <1>8 DEF MeterInv, Charging

\* No other step changes what has been taken, registered or reported.
LEMMA MeterRest ==
    TypeOK /\ TypeOK' /\ MeterInv /\ (Plug \/ Unplug \/ Stop \/ UNCHANGED vars) => MeterInv'
<1> SUFFICES ASSUME TypeOK, TypeOK', MeterInv, Plug \/ Unplug \/ Stop \/ UNCHANGED vars
             PROVE  MeterInv'
  OBVIOUS
<1>1. /\ ev'.sessionCharged = ev.sessionCharged /\ ev'.max = ev.max
      /\ ev'.soc = ev.soc /\ ev'.target = ev.target
      /\ register' = register /\ ticks' = ticks /\ session'.energy = session.energy
  BY MeterTypes DEF Plug, Unplug, Stop, vars, Ev, TypeOK
<1>2. MeterHonest'
  BY <1>1 DEF MeterInv, MeterHonest, Peak
<1>3. CASE Plug \/ Stop
  <2>1. ~metering' /\ ~Charging'
    BY <1>3, MeterTypes DEF Plug, Stop, Charging, MeterInv, Ev, Plugged
  <2>2. QED
    BY <2>1, <1>2 DEF MeterInv
<1>4. CASE Unplug
  <2>1. /\ metering' = metering /\ ~Charging /\ ev'.status = "idle"
    BY <1>4, MeterTypes DEF Unplug, Ev
  <2>2. MeterPower' = 0 /\ ~Charging'
    BY <2>1 DEF MeterPower, Plugged, Charging
  <2>3. ASSUME metering PROVE Bounds'
    <3>1. Bounds /\ MeterPower = 0
      BY <2>1, <2>3 DEF MeterInv
    <3>2. Pending' = Pending /\ Taken' = Taken /\ Peak' = Peak
      BY <3>1, <2>2, <1>1 DEF Pending, Taken, Peak
    <3>3. QED
      BY <3>1, <3>2, <2>2, <1>1 DEF Bounds
  <2>4. QED
    BY <2>1, <2>2, <2>3, <1>2 DEF MeterInv
<1>5. CASE UNCHANGED vars
  BY <1>5 DEF vars, MeterInv, MeterHonest, Bounds, Pending, Taken, Peak, MeterPower, Plugged,
              Charging, Power, EffectiveMax, Factor, Full
<1>6. QED
  BY <1>3, <1>4, <1>5

\* What a session says was delivered is what the EV has taken, but for the
\* drift of the two loops and one interval: Battery!MeterHonest.
THEOREM MeterIsHonest == Spec => []MeterHonest
<1>1. TypeOK /\ TypeOK' /\ MeterInv /\ [Next]_vars => MeterInv'
  BY MeterTick, MeterSample, MeterStart, MeterRest DEF Next
<1>2. MeterInv => MeterHonest
  BY DEF MeterInv
<1>3. QED
  BY <1>1, <1>2, TypeInit, TypeStep, MeterInit, PTL DEF Spec

-----------------------------------------------------------------------------
(* The state of charge that the CSMS has                                   *)

\* Since the last sample the battery has gained at most a second's worth a tick.
SocInv ==
    metering /\ Plugged =>
        /\ session.soc <= ev.soc
        /\ ev.soc < session.soc + Percent + ticks * Peak

\* Before the first transaction there is nothing to report.
LEMMA SocInit == Init => SocInv
  BY DEF Init, SocInv

\* A tick adds at most its second, a sample loses less than one percent.
LEMMA SocStep == TypeOK /\ TypeOK' /\ SocInv /\ [Next]_vars => SocInv'
<1> SUFFICES ASSUME TypeOK, TypeOK', SocInv, [Next]_vars, metering', Plugged'
             PROVE  /\ session'.soc <= ev'.soc
                    /\ ev'.soc < session'.soc + Percent' + ticks' * Peak'
  BY DEF SocInv
<1>1. /\ ev \in Ev /\ ev.soc \in Nat /\ ticks \in Nat /\ Peak \in Nat /\ Percent \in Nat
      /\ Percent > 0 /\ session.soc \in Nat /\ ticks * Peak \in Nat /\ Percent' = Percent
  <2>1. ticks * Peak \in Nat
    BY MeterTypes, ProductOfSum
  <2>2. QED
    BY <2>1, MeterTypes, BatteryAssumption DEF TypeOK
<1>2. CASE Tick
  <2>1. /\ Power(ev.soc) <= Peak /\ Power(ev.soc) \in Nat /\ ev'.max = ev.max
        /\ ev'.soc = Capped(ev.soc + Power(ev.soc)) /\ ev.soc <= ev'.soc
        /\ ticks' = ticks + 1 /\ session' = session /\ metering' = metering
        /\ Charging
    BY <1>2, TickEffect DEF Tick
  <2>2. ev'.soc <= ev.soc + Power(ev.soc) /\ ev'.soc \in Nat
    BY <2>1, <1>1, MeterTypes, BatteryAssumption DEF Capped, Full
  <2>3. ticks' * Peak' = ticks * Peak + Peak
    <3>1. Peak' = Peak
      BY <2>1 DEF Peak
    <3>2. (ticks + 1) * Peak = ticks * Peak + Peak
      BY <1>1, ProductOfSum
    <3>3. QED
      BY <2>1, <3>1, <3>2
  <2>4. Plugged /\ metering
    BY <2>1 DEF Charging, Plugged
  <2>5. session.soc <= ev.soc /\ ev.soc < session.soc + Percent + ticks * Peak
    BY <2>4 DEF SocInv
  <2>6. QED
    BY <2>1, <2>2, <2>3, <2>5, <1>1
<1>3. CASE Start
  <2>1. /\ ev'.soc = ev.soc /\ ev'.max = ev.max /\ session'.soc = ev.soc /\ ticks' = 0
    BY <1>3, <1>1 DEF Start, Ev
  <2>2. Peak' = Peak /\ 0 * Peak = 0
    BY <2>1, <1>1 DEF Peak
  <2>3. QED
    BY <2>1, <2>2, <1>1
<1>4. CASE Sample
  <2>1. /\ ev' = ev /\ ticks' = 0
        /\ session'.soc = (MeterSoc \div Percent) * Percent
    BY <1>4 DEF Sample, BuildMeterValue, ParseMeterValue
  <2>2. Peak' = Peak /\ 0 * Peak = 0 /\ MeterSoc = ev.soc
    BY <2>1, <1>1 DEF Peak, MeterSoc, Plugged
  <2>3. /\ (ev.soc \div Percent) * Percent <= ev.soc
        /\ ev.soc < (ev.soc \div Percent) * Percent + Percent
        /\ (ev.soc \div Percent) * Percent \in Nat
    BY <1>1, WholePercents
  <2>4. QED
    BY <2>1, <2>2, <2>3, <1>1
<1>5. CASE Plug \/ Unplug \/ Stop
  BY <1>5, <1>1 DEF Plug, Unplug, Stop, Plugged, Ev
<1>6. CASE UNCHANGED vars
  BY <1>6 DEF vars, SocInv, Plugged, Peak
<1>7. QED
  BY <1>2, <1>3, <1>4, <1>5, <1>6 DEF Next

\* The CSMS's state of charge is behind by less than one percent and what one
\* interval adds: Battery!SessionSocFollows.
THEOREM SocFollows == Spec => []SessionSocFollows
<1>1. TypeOK /\ SocInv => SessionSocFollows
  <2> SUFFICES ASSUME TypeOK, SocInv PROVE SessionSocFollows
    OBVIOUS
  <2>1. ticks * Peak <= TicksMax * Peak /\ ticks * Peak \in Nat /\ TicksMax * Peak \in Nat
    BY MeterTypes, ProductMonotone, ProductOfSum
  <2>2. ev.soc \in Nat /\ session.soc \in Nat /\ Percent \in Nat
    BY MeterTypes, BatteryAssumption DEF TypeOK
  <2>3. QED
    BY <2>1, <2>2 DEF SocInv, SessionSocFollows
<1>2. QED
  BY <1>1, TypeInit, TypeStep, SocInit, SocStep, PTL DEF Spec
=============================================================================
