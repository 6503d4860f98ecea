---------------------------- MODULE MCMonitoring ----------------------------
(* An instance of Monitoring for TLC: the day before the first is a        *)
(* holiday of the cash market, and day 2 is in an unverified year.         *)
EXTENDS Monitoring

MCWeekend == {-2}
MCHolidays == [EQUITY |-> {-1}, FNO |-> {}]
MCVerified == -MaxWalkDays..1
MCWarning == [w \in Worker |-> IF w = "momentum_pipeline" THEN 0 ELSE 1]
MCStaleAfter == [w \in Worker |-> IF w = "momentum_pipeline" THEN 1 ELSE 2]
\* One of the two intraday horizons: they differ in their length only.
MCAfter == [x \in {"15m"} |-> 1]
=============================================================================
