-------------------------------- MODULE Epoch --------------------------------
(***************************************************************************)
(* The epoch arithmetic of src/utils/epoch.go.  Times are integers (ticks) *)
(* and an epoch schedule is given by its start and its period.  Division   *)
(* truncates toward zero, as Go's integer division does: a time less than  *)
(* one period before the start has index 0, not -1.                        *)
(***************************************************************************)
EXTENDS Integers

\* Go's a / b for b > 0.
TruncDiv(a, b) == IF a >= 0 THEN a \div b ELSE -((-a) \div b)

\* Epoch.EpochIndex and IntEpoch.EpochIndex.
EpochIndex(t, start, period) == TruncDiv(t - start, period)

\* Epoch.StartTime.
StartTime(epoch, start, period) == start + epoch * period

\* Epoch.EndTime.
EndTime(epoch, start, period) == StartTime(epoch + 1, start, period)

\* IntEpoch.EndEpoch: n is a number of the counted unit, not an epoch index.
EndEpoch(n, start, period) == start + period * (EpochIndex(n, start, period) + 1)
==============================================================================
