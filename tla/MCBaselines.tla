---------------------------- MODULE MCBaselines ----------------------------
(* Small instances of Baselines: every reason and code, a failure in every  *)
(* window and at the edges of the windows, opt-outs before and during the   *)
(* episode.                                                                 *)
EXTENDS Baselines

At(day, hour, minute) == day * Day + hour * Hour + minute * 60

MCHighLiquidityDays == 2..8

MCMandates == [carveOut: BOOLEAN, optedOutAt: {None, At(0, 8, 0), At(2, 12, 0)}]

Instants ==
  { At(0, 0, 0), At(0, 9, 59), At(0, 10, 0), At(0, 12, 59), At(0, 13, 0), At(0, 16, 30),
    At(0, 17, 0), At(0, 20, 0), At(0, 21, 29), At(0, 21, 30), At(1, 0, 0) - 1 }

MCFailures ==
  [ reason: {"insufficient_funds", "invalid_vpa", "payment_declined"},
    npci: {NoCode, "Z7", "Z8"}, at: Instants ]

MCDowntimes == { {}, { [begin |-> At(1, 0, 0), end |-> At(3, 0, 0), severity |-> "high"] } }
=============================================================================
