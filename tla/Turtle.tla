-------------------------------- MODULE Turtle --------------------------------
(***************************************************************************)
(* The turtle rules of strategy.py and indicators.py on whole bars: the    *)
(* channels, N, the signals in their order of priority, and the position   *)
(* that a fill opens or adds to.  A level the code leaves None is the      *)
(* empty set, a level it has is a set of one price.                        *)
(***************************************************************************)
EXTENDS Integers, Sequences, FiniteSetsExt, Functions

CONSTANTS
  EntryShort, EntryLong, \* bars of the entry channels of S1 and S2 (20, 55)
  ExitShort, ExitLong,   \* bars of the exit channels of S1 and S2 (10, 20)
  NPeriod,               \* bars that N is smoothed over (20)
  NMethod,               \* "turtle" or "atr20"
  MinimumTick,           \* minimum_tick
  StopN,                 \* the stop is StopN * N away from the fill
  StepN,                 \* a unit is added every StepN * N
  MaxUnits               \* max_units_per_symbol

ASSUME TurtleConstantsOK ==
  /\ EntryShort \in Nat \ {0} /\ EntryLong \in Nat \ {0}
  /\ ExitShort \in Nat \ {0} /\ ExitLong \in Nat \ {0}
  /\ NPeriod \in Nat \ {0} /\ NMethod \in {"turtle", "atr20"}
  /\ MinimumTick \in Nat /\ StopN \in Nat /\ StepN \in Nat
  /\ MaxUnits \in Nat \ {0}

Systems == {"S1", "S2"}
Directions == {"LONG", "SHORT"}
Price == Nat \ {0}
Bar == {b \in [open: Price, high: Price, low: Price, close: Price, volume: Nat] :
          /\ b.low <= b.open /\ b.open <= b.high
          /\ b.low <= b.close /\ b.close <= b.high}

-----------------------------------------------------------------------------
(* Indicators: every one reads the bars of completed sessions only. *)

Window(bars, period) == {bars[i] : i \in (Len(bars) - period + 1)..Len(bars)}

\* donchian_channel: no level until the history is as long as the period.
ChannelHigh(bars, period) ==
  IF Len(bars) < period THEN {} ELSE {Max({b.high : b \in Window(bars, period)})}
ChannelLow(bars, period) ==
  IF Len(bars) < period THEN {} ELSE {Min({b.low : b \in Window(bars, period)})}

Distance(x, y) == IF x < y THEN y - x ELSE x - y

TrueRange(bar, previous) ==
  Max({bar.high - bar.low, Distance(bar.high, previous.close),
       Distance(bar.low, previous.close)})

RangeSum(bars, first, last) ==
  SumFunction([i \in first..last |-> TrueRange(bars[i], bars[i - 1])])

\* compute_n_turtle: the mean of the first NPeriod true ranges, then smoothed.
\* The runs scale their prices so that no division below leaves a remainder.
TurtleN(bars) ==
  LET n[i \in (NPeriod + 1)..Len(bars)] ==
        IF i = NPeriod + 1 THEN RangeSum(bars, 2, i) \div NPeriod
        ELSE ((NPeriod - 1) * n[i - 1] + TrueRange(bars[i], bars[i - 1])) \div NPeriod
  IN n[Len(bars)]

\* compute_n_atr20: the mean of the last NPeriod true ranges.
AverageN(bars) == RangeSum(bars, Len(bars) - NPeriod + 1, Len(bars)) \div NPeriod

N(bars) ==
  IF Len(bars) < NPeriod + 1 THEN {}
  ELSE IF NMethod = "atr20" THEN {AverageN(bars)} ELSE {TurtleN(bars)}

-----------------------------------------------------------------------------
(* Signals *)

\* average_traded_value (universe.py) over the last bars, however few they are.
AverageValue(bars, days) ==
  LET first == Max({1, Len(bars) - days + 1})
      value == [i \in first..Len(bars) |-> bars[i].close * bars[i].volume]
  IN IF bars = <<>> THEN {} ELSE {SumFunction(value) \div (Len(bars) - first + 1)}

EntrySide(direction) == IF direction = "SHORT" THEN "SELL" ELSE "BUY"
SignalDirection(side) == IF side = "SELL" THEN "SHORT" ELSE "LONG"
ExitSide(direction) == IF direction = "SHORT" THEN "BUY" ELSE "SELL"

Signal(kind, system, side, trigger) ==
  [kind |-> kind, system |-> system, side |-> side, trigger |-> trigger]

\* A price at or beyond a level, against a position (adverse) or for it.
Adverse(direction, price, level) ==
  IF direction = "SHORT" THEN price >= level ELSE price <= level
Favorable(direction, price, level) ==
  IF direction = "SHORT" THEN price <= level ELSE price >= level

ExitLevel(position, bars) ==
  LET period == IF position.system = "S1" THEN ExitShort ELSE ExitLong
  IN IF position.direction = "SHORT" THEN ChannelHigh(bars, period)
     ELSE ChannelLow(bars, period)

LongTrigger(position) == position.last + StepN * position.entryN

PyramidTrigger(position) ==
  IF position.direction = "SHORT" THEN position.last - StepN * position.entryN
  ELSE position.last + StepN * position.entryN

StopHit(position, price) == Adverse(position.direction, price, position.stop)
ChannelExitHit(position, price, bars) ==
  \E level \in ExitLevel(position, bars) : Adverse(position.direction, price, level)
ShouldPyramid(position, price) ==
  /\ position.units \in 1..(MaxUnits - 1)
  /\ Favorable(position.direction, price, PyramidTrigger(position))

\* evaluate_signals with an open position: stop before channel before pyramid.
HeldSignals(position, bars, price) ==
  LET out(kind, trigger) ==
        Signal(kind, position.system, ExitSide(position.direction), trigger)
  IN CASE StopHit(position, price) -> {out("STOP", position.stop)}
       [] ~StopHit(position, price) /\ ChannelExitHit(position, price, bars) ->
            {out("EXIT", level) : level \in ExitLevel(position, bars)}
       [] ~StopHit(position, price) /\ ~ChannelExitHit(position, price, bars)
          /\ ShouldPyramid(position, price) ->
            {Signal("PYRAMID", position.system, EntrySide(position.direction),
                    PyramidTrigger(position))}
       [] OTHER -> {}

\* The triggers of one entry channel that the price has reached.
Breakout(bars, price, direction, period) ==
  IF direction = "SHORT"
  THEN {low - MinimumTick : low \in {l \in ChannelLow(bars, period) : price <= l - MinimumTick}}
  ELSE {high + MinimumTick : high \in {h \in ChannelHigh(bars, period) : price >= h + MinimumTick}}

\* evaluate_signals without a position, for one direction (no caller asks for
\* two at once): S2 first, and S1 is skipped once after a winning S1 trade.
EntrySignals(key, bars, price, skip) ==
  LET direction == key[2]
      s2 == Breakout(bars, price, direction, EntryLong)
      s1 == Breakout(bars, price, direction, EntryShort)
      entries(system, triggers) ==
        {Signal("ENTRY", system, EntrySide(direction), t) : t \in triggers}
  IN CASE N(bars) = {} -> {}
       [] N(bars) # {} /\ s2 # {} -> entries("S2", s2)
       [] N(bars) # {} /\ s2 = {} /\ key \notin skip -> entries("S1", s1)
       [] OTHER -> {}

\* The skip that the same call uses up.
SkipUsed(key, bars, price, skip) ==
  /\ key \in skip
  /\ N(bars) # {}
  /\ Breakout(bars, price, key[2], EntryLong) = {}
  /\ Breakout(bars, price, key[2], EntryShort) # {}

SkipAfterWinner(key, system, pnl, skip) == IF pnl > 0 THEN skip \cup {key} ELSE skip

SkipSideAfter(key, system, pnl, skip) ==
  IF system = "S1" /\ pnl > 0 THEN skip \cup {<<key[1], EntrySide(key[2])>>} ELSE skip

\* apply_trade_outcomes: only a winning S1 trade makes the next S1 entry skip.
SkipAfter(key, system, pnl, skip) ==
  IF system = "S1" /\ pnl > 0 THEN skip \cup {key} ELSE skip

-----------------------------------------------------------------------------
(* Positions *)

StopFor(direction, fill, n) ==
  IF direction = "SHORT" THEN fill + StopN * n ELSE fill - StopN * n

\* _open_position and _add_unit: a unit moves the stop of the whole position
\* and leaves the N of the first entry.
Opened(signal, direction, fill, n, qty) ==
  [system |-> signal.system, direction |-> direction, qty |-> qty, entryN |-> n,
   stop |-> StopFor(direction, fill, n), last |-> fill, units |-> 1]

WithUnit(position, fill, qty) ==
  [position EXCEPT !.qty = @ + qty, !.last = fill, !.units = @ + 1,
                   !.stop = StopFor(position.direction, fill, position.entryN)]
=============================================================================
