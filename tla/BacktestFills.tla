---------------------------- MODULE BacktestFills ----------------------------
(***************************************************************************)
(* What the two loops of BacktestEngine (backtest.py) share: the price of  *)
(* a fill, the cash it moves, the size of a unit and the worth of a        *)
(* position.  Amounts are whole: the fraction of a fee or of a slipped     *)
(* price is dropped, where the code keeps its decimals.                    *)
(***************************************************************************)
EXTENDS Turtle

CONSTANTS
  RiskPct,        \* risk_pct_per_unit in percent; 0: None, a unit is UnitQty
  UnitQty, LotSize,
  CommissionPct, TaxPct, FixedCommission,
  SlippagePct     \* slippage_rate in percent

ASSUME CostConstantsOK ==
  /\ RiskPct \in Nat /\ UnitQty \in Nat \ {0} /\ LotSize \in Nat \ {0}
  /\ CommissionPct \in Nat /\ TaxPct \in Nat /\ FixedCommission \in Nat
  /\ SlippagePct \in 0..100

With(f, s, v) == [t \in DOMAIN f \cup {s} |-> IF t = s THEN v ELSE f[t]]
Without(f, s) == Restrict(f, DOMAIN f \ {s})

Fee(gross) == (gross * CommissionPct) \div 100 + FixedCommission
BuyDelta(price, qty) == -(price * qty + Fee(price * qty))
SellDelta(price, qty) ==
  price * qty - Fee(price * qty) - (price * qty * TaxPct) \div 100

EntryDelta(direction, price, qty) ==
  IF direction = "SHORT" THEN SellDelta(price, qty) ELSE BuyDelta(price, qty)
ExitDelta(direction, price, qty) ==
  IF direction = "SHORT" THEN BuyDelta(price, qty) ELSE SellDelta(price, qty)
CostOf(direction, delta) == IF direction = "SHORT" THEN delta ELSE -delta

PnlOfLong(direction, cost, delta) == delta - cost

\* realized_pnl of _exit_position.
Pnl(direction, cost, delta) ==
  IF direction = "SHORT" THEN cost + delta ELSE delta - cost

\* Slippage makes a buy dearer and a sale cheaper.
Slipped(side, price) ==
  IF side = "SELL" THEN (price * (100 - SlippagePct)) \div 100
  ELSE (price * (100 + SlippagePct)) \div 100

\* Mutant: a bar that opens beyond the trigger is filled at the trigger.
TriggerPrice(bar, signal) == Slipped(signal.side, signal.trigger)

\* _fill_price: the open if it is beyond the trigger, and slippage on top.
FillPrice(bar, signal) ==
  Slipped(signal.side, IF signal.side = "SELL" THEN Min({bar.open, signal.trigger})
                       ELSE Max({bar.open, signal.trigger}))

\* A held position is offered the worst price of the bar, a unit the best one.
ExitPrice(bar, direction) == IF direction = "SHORT" THEN bar.high ELSE bar.low
UnitPrice(bar, direction) == IF direction = "SHORT" THEN bar.low ELSE bar.high

ExitSignals(position, bars, bar) ==
  {g \in HeldSignals(position, bars, ExitPrice(bar, position.direction)) :
     g.kind \in {"STOP", "EXIT"}}
PyramidSignals(position, bars, bar) ==
  {g \in HeldSignals(position, bars, UnitPrice(bar, position.direction)) :
     g.kind = "PYRAMID"}

QtyFor(equity, n) ==
  IF RiskPct = 0 THEN UnitQty
  ELSE IF StopN * n <= 0 THEN 0
  ELSE ((equity * RiskPct) \div (100 * StopN * n * LotSize)) * LotSize

Signed(position, price) ==
  IF position.direction = "SHORT" THEN -(position.qty * price)
  ELSE position.qty * price
=============================================================================
