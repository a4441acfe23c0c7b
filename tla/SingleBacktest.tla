---------------------------- MODULE SingleBacktest ----------------------------
(***************************************************************************)
(* BacktestEngine.run (backtest.py), the older loop over the candles of    *)
(* one symbol, written out beside run_portfolio.  It has no limit on the   *)
(* units of a direction and no entry filter.                               *)
(***************************************************************************)
EXTENDS BacktestFills

CONSTANTS Symbol, Allowed, InitialEquity

VARIABLES
  stage,     \* of the bar under way: exit, trade, mark; before and after it: idle
  bar,       \* that bar, or none
  history,   \* the bars before it
  exitedBar, \* exited_this_bar
  cash,
  position,  \* the open position, or none
  cost,      \* open_cost.total_cost, 0 without a position
  skip, trades, curve

singleVars == <<stage, bar, history, exitedBar, cash, position, cost, skip, trades, curve>>

SingleInit ==
  /\ stage = "idle" /\ bar = {} /\ history = <<>> /\ exitedBar = FALSE
  /\ cash = InitialEquity /\ position = {} /\ cost = 0
  /\ skip = {} /\ trades = <<>> /\ curve = <<>>

EquityAt(mark) == cash + SumFunction([p \in position |-> Signed(p, mark)])

NextBar ==
  /\ stage = "idle" /\ stage' = "exit"
  /\ bar' \subseteq Bar /\ Cardinality(bar') = 1
  /\ UNCHANGED <<history, exitedBar, cash, position, cost, skip, trades, curve>>

SingleExit ==
  /\ stage = "exit" /\ stage' = "trade"
  /\ \E b \in bar, p \in position : \E signal \in ExitSignals(p, history, b) :
       LET delta == ExitDelta(p.direction, FillPrice(b, signal), p.qty)
           pnl == Pnl(p.direction, cost, delta)
       IN /\ cash' = cash + delta
          /\ trades' = Append(trades, [key |-> <<Symbol, p.direction>>,
                                       system |-> p.system, pnl |-> pnl])
          /\ skip' = SkipAfter(<<Symbol, p.direction>>, p.system, pnl, skip)
  /\ position' = {} /\ cost' = 0 /\ exitedBar' = TRUE
  /\ UNCHANGED <<bar, history, curve>>

SingleHold ==
  /\ stage = "exit" /\ stage' = "trade"
  /\ \A b \in bar, p \in position : ExitSignals(p, history, b) = {}
  /\ UNCHANGED <<bar, history, exitedBar, cash, position, cost, skip, trades, curve>>

Fill(next, direction, delta) ==
  /\ cash + delta >= 0
  /\ cash' = cash + delta
  /\ position' = {next}
  /\ cost' = cost + CostOf(direction, delta)

\* unit_qty_zero and insufficient_cash only leave a line in the audit log.
SingleAdd ==
  /\ stage = "trade" /\ stage' = "mark" /\ ~exitedBar
  /\ \E b \in bar, p \in position : \E signal \in PyramidSignals(p, history, b) :
       LET qty == QtyFor(EquityAt(b.close), p.entryN)
           price == FillPrice(b, signal)
       IN /\ qty > 0
          /\ Fill(WithUnit(p, price, qty), p.direction, EntryDelta(p.direction, price, qty))
  /\ UNCHANGED <<bar, history, exitedBar, skip, trades, curve>>

Signals(direction) ==
  UNION {EntrySignals(<<Symbol, direction>>, history, UnitPrice(b, direction), skip) : b \in bar}
First == {i \in 1..Len(Allowed) : /\ Signals(Allowed[i]) # {}
                                  /\ \A j \in 1..(i - 1) : Signals(Allowed[j]) = {}}
Spent == {<<Symbol, Allowed[i]>> : i \in
            {j \in 1..Len(Allowed) :
               /\ \A f \in First : j < f
               /\ \E b \in bar : SkipUsed(<<Symbol, Allowed[j]>>, history,
                                          UnitPrice(b, Allowed[j]), skip)}}

SingleEnter ==
  /\ stage = "trade" /\ stage' = "mark" /\ ~exitedBar /\ position = {}
  /\ \E i \in First : \E b \in bar, signal \in Signals(Allowed[i]), n \in N(history) :
       LET qty == QtyFor(EquityAt(b.close), n)
           price == FillPrice(b, signal)
       IN /\ qty > 0
          /\ Fill(Opened(signal, Allowed[i], price, n, qty), Allowed[i],
                  EntryDelta(Allowed[i], price, qty))
  /\ skip' = skip \ Spent
  /\ UNCHANGED <<bar, history, exitedBar, trades, curve>>

\* The bar brings no unit: no signal, or one that is blocked.
Affordable(direction, n, signal) ==
  \E b \in bar :
    LET qty == QtyFor(EquityAt(b.close), n)
    IN qty > 0 /\ cash + EntryDelta(direction, FillPrice(b, signal), qty) >= 0

SingleIdle ==
  /\ stage = "trade" /\ stage' = "mark"
  /\ \/ exitedBar /\ UNCHANGED skip
     \/ /\ ~exitedBar /\ position # {} /\ UNCHANGED skip
        /\ \A b \in bar, p \in position : \A signal \in PyramidSignals(p, history, b) :
             ~Affordable(p.direction, p.entryN, signal)
     \/ /\ ~exitedBar /\ position = {} /\ skip' = skip \ Spent
        /\ \A i \in First : \A signal \in Signals(Allowed[i]), n \in N(history) :
             ~Affordable(Allowed[i], n, signal)
  /\ UNCHANGED <<bar, history, exitedBar, cash, position, cost, trades, curve>>

Finish ==
  /\ stage = "mark" /\ stage' = "idle"
  /\ \E b \in bar : history' = Append(history, b) /\ curve' = Append(curve, EquityAt(b.close))
  /\ bar' = {} /\ exitedBar' = FALSE
  /\ UNCHANGED <<cash, position, cost, skip, trades>>

SingleNext ==
  \/ NextBar \/ SingleExit \/ SingleHold \/ SingleAdd \/ SingleEnter \/ SingleIdle \/ Finish

SingleSpec == SingleInit /\ [][SingleNext]_singleVars
=============================================================================
