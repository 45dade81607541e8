---------------------------- MODULE MCRideService ----------------------------
(* Model values and symmetry for the runs of RideService, and the prices the *)
(* tests of the repository expect of Pricing.                                *)
EXTENDS RideService, TLC

CONSTANTS d1, d2

TwoDrivers == {d1, d2}
OneDriver == {d1}

\* Requests are alike until they choose an endpoint.
RequestSymmetry == Permutations(Requests)

-----------------------------------------------------------------------------
Prices == INSTANCE Pricing

Price(month, monthDay, weekDay, hour) ==
  Prices!EstimatedPrice([month |-> month, monthDay |-> monthDay,
                         weekDay |-> weekDay, hour |-> hour], 20000)

\* test/pricing/tariff.test.ts: twenty kilometres on five days of 2023.
ASSUME TariffsAsTested ==
  /\ Price(0, 3, 2, 12) = 2900
  /\ Price(0, 1, 0, 12) = 3800
  /\ Price(11, 31, 0, 12) = 8100
  /\ Price(0, 7, 6, 12) = 3800
  /\ Price(0, 7, 6, 23) = 6000

\* Within a week no hour is of both the weekend's tariffs, and they cover it
\* from Friday at five to the end of Sunday.
ASSUME WeekendsArePartitioned ==
  LET Hours == [weekDay : 0 .. 6, hour : 0 .. 23] IN
  /\ \A t \in Hours : ~(Prices!WeekendNight(t) /\ Prices!WeekendDay(t))
  /\ Cardinality({t \in Hours : Prices!WeekendNight(t) \/ Prices!WeekendDay(t)})
       = 7 + 48

\* test/integration/calculate-driver-fee.integration.test.ts.
ASSUME FeesAsTested ==
  LET Fee(type, amount, min, price) ==
        Prices!CalculateDriverFee(
          [feeType |-> type, amount |-> amount, min |-> min], price)
  IN
  /\ Fee("flat", 10, 0, 60) = 50
  /\ Fee("percentage", 50, 0, 80) = 40
  /\ Fee("percentage", 7, 25, 10) = 25
=============================================================================
