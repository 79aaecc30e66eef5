----------------------------- MODULE TimeUtils -----------------------------
(***************************************************************************)
(* src/domain/timeutils.py: the IST clock arithmetic every layer shares.   *)
(* Window bounds are whole minutes, so comparing the second of the day     *)
(* decides the same thing as comparing its minute.                         *)
(***************************************************************************)
EXTENDS RegulatoryConstants

SecondOfDay(t)   == t % Day
StartOfIstDay(t) == t - SecondOfDay(t)
IstDay(t)        == t \div Day

Within(t, w) == w.start <= SecondOfDay(t) /\ SecondOfDay(t) < w.end

IsPeakHour(t) == \E w \in PeakWindows : Within(t, w)

IsPermittedExecutionTime(t) ==
  \E i \in 1..3 : Within(t, PermittedWindows[i])
=============================================================================
