------------------------------ MODULE MomentumRank ------------------------------
(***************************************************************************)
(* The averages and the ranking of the relative momentum strategy, which   *)
(* the momentum backtest and the runtime each compute in the same way.     *)
(***************************************************************************)
EXTENDS Integers, Sequences, FiniteSetsExt, Functions

CONSTANTS
  Lookback, SkipDays,  \* momentum_lookback_days, momentum_skip_days
  TrendDays, ExitDays, \* trend_ma_days, exit_ma_days
  MomentumMinPrice, MomentumMinValue, MomentumValueDays

ASSUME RankConstantsOK ==
  /\ Lookback \in Nat /\ SkipDays \in Nat
  /\ TrendDays \in Nat \ {0} /\ ExitDays \in Nat \ {0}
  /\ MomentumMinPrice \in Nat /\ MomentumMinValue \in Nat
  /\ MomentumValueDays \in Nat \ {0}

CloseSum(bars, first, last) == SumFunction([i \in first..last |-> bars[i].close])

\* _sma, times its days: none while the history is shorter.
SmaSum(bars, days) ==
  IF Len(bars) < days THEN {} ELSE {CloseSum(bars, Len(bars) - days + 1, Len(bars))}
Above(price, bars, days) == \E sum \in SmaSum(bars, days) : price * days > sum
Below(price, bars, days) == \E sum \in SmaSum(bars, days) : price * days < sum

Recent(bars) == bars[Len(bars) - SkipDays].close
Past(bars) == bars[Len(bars) - Lookback - SkipDays].close

ValueOK(bars) ==
  LET first == Max({1, Len(bars) - MomentumValueDays + 1})
  IN SumFunction([i \in first..Len(bars) |-> bars[i].close * bars[i].volume])
       >= MomentumMinValue * (Len(bars) - first + 1)

\* The score is recent / past - 1; two scores compare crosswise.
GainsMore(bars, others) ==
  (Recent(bars) - Past(bars)) * Past(others) > (Recent(others) - Past(others)) * Past(bars)
=============================================================================
