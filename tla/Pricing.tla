------------------------------- MODULE Pricing -------------------------------
(***************************************************************************)
(* What a ride costs (pricing/tariff.ts) and what of it goes to the driver *)
(* (driver-fleet/driver-fee.entity.ts).  Money is counted in hundredths,   *)
(* distance in metres, rates in tenths.                                    *)
(***************************************************************************)
EXTENDS Integers

\* Months, days of the week and hours as Date numbers them.
Time == [month : 0 .. 11, monthDay : 1 .. 31, weekDay : 0 .. 6, hour : 0 .. 23]

JANUARY == 0
DECEMBER == 11

SUNDAY == 0
FRIDAY == 5
SATURDAY == 6

BaseFee == 8

NewYear(t) ==
  \/ t.month = DECEMBER /\ t.monthDay = 31
  \/ t.month = JANUARY /\ t.monthDay = 1 /\ t.hour <= 6

WeekendNight(t) ==
  \/ t.weekDay = FRIDAY /\ t.hour >= 17
  \/ t.weekDay = SATURDAY /\ (t.hour <= 6 \/ t.hour >= 17)
  \/ t.weekDay = SUNDAY /\ t.hour <= 6

WeekendDay(t) ==
  \/ t.weekDay = SATURDAY /\ t.hour > 6 /\ t.hour < 17
  \/ t.weekDay = SUNDAY /\ t.hour > 6

Tariff(name, kmRate, baseFee) ==
  [name |-> name, kmRate |-> kmRate, baseFee |-> baseFee * 100]

TariffOfTime(t) ==
  IF NewYear(t)      THEN Tariff("Sylwester", 35, BaseFee + 3)
  ELSE IF WeekendNight(t) THEN Tariff("Weekend+", 25, BaseFee + 2)
  ELSE IF WeekendDay(t)   THEN Tariff("Weekend", 15, BaseFee)
  ELSE                         Tariff("Standard", 10, BaseFee + 1)

\* toFixed(2) and Math.round.  An exact half may go either way in binary
\* fractions; it goes up here.
Rounded(n, d) == (2 * n + d) \div (2 * d)

CalculateCost(tariff, metres) ==
  Rounded(metres * tariff.kmRate, 100) + tariff.baseFee

\* A request keeps the tariff of the time it was made at, whenever its ride is
\* completed.
EstimatedPrice(t, metres) == CalculateCost(TariffOfTime(t), metres)

-----------------------------------------------------------------------------
FeeTypes == {"flat", "percentage"}

\* Integer columns: neither the constructor nor setAmount and setMin limit them.
\* A min that is null counts as 0.
DriverFee == [feeType : FeeTypes, amount : Int, min : Int]

FeeOfPrice(fee, price) ==
  IF fee.feeType = "flat" THEN price - fee.amount
  ELSE Rounded(price * fee.amount, 100)

CalculateDriverFee(fee, price) ==
  IF FeeOfPrice(fee, price) >= fee.min THEN FeeOfPrice(fee, price) ELSE fee.min
=============================================================================
