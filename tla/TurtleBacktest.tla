---------------------------- MODULE TurtleBacktest ----------------------------
(***************************************************************************)
(* BacktestEngine.run_portfolio (backtest.py).  The candles are given; the *)
(* engine goes through their sessions, and through the candles of one      *)
(* session twice in the order of their symbols: first every exit, then     *)
(* every pyramid or entry.  A session ends with its bars added to the      *)
(* histories and one point of the equity curve.                            *)
(***************************************************************************)
EXTENDS BacktestFills

CONSTANTS
  Symbols,        \* the symbols, numbered in their sorting order
  Sessions,       \* the number of sessions in the input
  Allowed,        \* allowed_directions, in the order they are tried
  InitialEquity,
  MaxTotal        \* direction -> max_total_long_units, max_total_short_units

ASSUME BacktestConstantsOK ==
  /\ Symbols \subseteq Nat
  /\ Sessions \in Nat
  /\ Allowed \in Seq(Directions)
  /\ InitialEquity \in Nat
  /\ MaxTotal \in [Directions -> Nat]

Keys == Symbols \X Directions

VARIABLES
  tape,      \* the candles, one batch for each session
  admitted,  \* what the entry filters let in at a session: keys
  session,   \* the session under way
  phase,     \* input, exits, entries, between, done or failed
  todo,      \* symbols of the session that the current pass has not visited
  exited,    \* exited_symbols
  histories, \* symbol -> bars of its completed sessions
  closes,    \* last_closes of the symbols seen so far
  cash,
  positions, \* the open positions, by symbol
  openCosts, \* the cash each of them took, or brought if short
  skip,      \* pending_s1_skip
  trades,    \* the closed trades
  audit,     \* audit_log
  curve,     \* equity_curve
  skipped    \* history: S1 entries skipped so far, by key

input == <<tape, admitted>>
market == <<histories, closes>>
account == <<cash, positions, openCosts, trades>>
backtestVars == <<input, session, phase, todo, exited, market, account, skip,
                  audit, curve, skipped>>

BacktestInit ==
  /\ tape = <<>> /\ admitted = <<>>
  /\ session = 1 /\ phase = "input"
  /\ todo = {} /\ exited = {}
  /\ histories = [s \in Symbols |-> <<>>]
  /\ closes = <<>>
  /\ cash = InitialEquity
  /\ positions = <<>> /\ openCosts = <<>>
  /\ skip = {} /\ trades = <<>> /\ audit = <<>> /\ curve = <<>>
  /\ skipped = [k \in Keys |-> 0]

-----------------------------------------------------------------------------
(* Limits and events *)

PositionValue(held, marks) ==
  SumFunction([s \in DOMAIN held |-> Signed(held[s], marks[s])])
Equity(money, held, marks) == money + PositionValue(held, marks)

TotalUnits(held, direction) ==
  SumFunction([s \in {t \in DOMAIN held : held[t].direction = direction} |-> held[s].units])
CapReached(direction) == TotalUnits(positions, direction) >= MaxTotal[direction]

\* side is the action of the event: fill_buy, fill_sell, or no fill at all.
Event(kind, side, symbol, price) ==
  [session |-> session, symbol |-> symbol, kind |-> kind, side |-> side, price |-> price]

-----------------------------------------------------------------------------
(* The session loop *)

Batch == tape[session]

\* The candles and the filters are arguments: nothing that follows changes them.
Load(batch, keys) ==
  /\ phase = "input" /\ Len(tape) < Sessions
  /\ tape' = Append(tape, batch)
  /\ admitted' = Append(admitted, keys)
  /\ UNCHANGED <<session, phase, todo, exited, market, account, skip, audit, curve,
                 skipped>>

OpenSession ==
  /\ \/ phase = "input" /\ Len(tape) = Sessions /\ Sessions > 0
     \/ phase = "between"
  /\ phase' = "exits" /\ todo' = DOMAIN Batch
  /\ UNCHANGED <<input, session, exited, market, account, skip, audit, curve, skipped>>

Visit(s) == s \in todo /\ s = Min(todo) /\ todo' = todo \ {s}

\* _exit_position and the bookkeeping after it.
CloseOut(s, signal) ==
  LET position == positions[s]
      price == FillPrice(Batch[s], signal)
      delta == ExitDelta(position.direction, price, position.qty)
      pnl == Pnl(position.direction, openCosts[s], delta)
  IN /\ cash' = cash + delta
     /\ trades' = Append(trades, [key |-> <<s, position.direction>>,
                                  system |-> position.system, pnl |-> pnl])
     /\ skip' = SkipAfter(<<s, position.direction>>, position.system, pnl, skip)
     /\ positions' = Without(positions, s)
     /\ openCosts' = Without(openCosts, s)
     /\ exited' = exited \cup {s}
     /\ audit' = Append(audit, Event(signal.kind, signal.side, s, price))

ExitsOf(s) == ExitSignals(positions[s], histories[s], Batch[s])

Exit(s) ==
  /\ phase = "exits" /\ Visit(s)
  /\ s \in DOMAIN positions
  /\ \E signal \in ExitsOf(s) : CloseOut(s, signal)
  /\ closes' = With(closes, s, Batch[s].close)
  /\ UNCHANGED <<input, session, phase, histories, curve, skipped>>

Keep(s) ==
  /\ phase = "exits" /\ Visit(s)
  /\ s \in DOMAIN positions => ExitsOf(s) = {}
  /\ closes' = With(closes, s, Batch[s].close)
  /\ UNCHANGED <<input, session, phase, exited, histories, account, skip, audit, curve,
                 skipped>>

ExitsForgotten ==
  /\ phase = "exits" /\ todo = {}
  /\ phase' = "entries" /\ todo' = DOMAIN Batch /\ exited' = {}
  /\ UNCHANGED <<input, session, market, account, skip, audit, curve, skipped>>

ExitsDone ==
  /\ phase = "exits" /\ todo = {}
  /\ phase' = "entries" /\ todo' = DOMAIN Batch
  /\ UNCHANGED <<input, session, exited, market, account, skip, audit, curve, skipped>>

-----------------------------------------------------------------------------
(* The second pass *)

UnitsAtClose(s) ==
  {g \in HeldSignals(positions[s], histories[s], Batch[s].close) : g.kind = "PYRAMID"}

UnitsOf(s) == PyramidSignals(positions[s], histories[s], Batch[s])

\* The places in Allowed of the directions that are let in.
Tried(s) == {i \in 1..Len(Allowed) : <<s, Allowed[i]>> \in admitted[session]}
EntryIn(s, direction) ==
  EntrySignals(<<s, direction>>, histories[s], UnitPrice(Batch[s], direction), skip)
\* _entry_signals: the first of them with a signal is taken.
Taken(s) ==
  {i \in Tried(s) : /\ EntryIn(s, Allowed[i]) # {}
                    /\ \A j \in Tried(s) : j < i => EntryIn(s, Allowed[j]) = {}}
\* Every direction tried before it may use up its skip.
Used(s) ==
  {<<s, Allowed[i]>> : i \in
     {j \in Tried(s) :
        /\ \A t \in Taken(s) : j < t
        /\ SkipUsed(<<s, Allowed[j]>>, histories[s], UnitPrice(Batch[s], Allowed[j]), skip)}}

Block(s, reason) ==
  /\ audit' = Append(audit, Event(reason, "none", s, 0))
  /\ UNCHANGED <<account>>

\* The four outcomes of a pyramid or an entry of qty at price, in the order of
\* their checks: cap, quantity, cash, fill.
Buy(s, direction, signal, qty, position) ==
  LET price == FillPrice(Batch[s], signal)
      delta == EntryDelta(direction, price, qty)
      before == IF s \in DOMAIN openCosts THEN openCosts[s] ELSE 0
  IN CASE CapReached(direction) -> Block(s, "cap")
       [] ~CapReached(direction) /\ qty <= 0 -> Block(s, "unit_qty_zero")
       [] ~CapReached(direction) /\ qty > 0 /\ cash + delta < 0 ->
            Block(s, "insufficient_cash")
       [] OTHER ->
            /\ cash' = cash + delta
            /\ positions' = With(positions, s, position)
            /\ openCosts' = With(openCosts, s, before + CostOf(direction, delta))
            /\ audit' = Append(audit, Event(signal.kind, signal.side, s, price))
            /\ UNCHANGED trades

Pyramid(s) ==
  /\ phase = "entries" /\ Visit(s)
  /\ s \in DOMAIN positions
  /\ \E signal \in UnitsOf(s) :
       LET position == positions[s]
           qty == QtyFor(Equity(cash, positions, closes), position.entryN)
       IN Buy(s, position.direction, signal, qty,
              WithUnit(position, FillPrice(Batch[s], signal), qty))
  /\ UNCHANGED <<input, session, phase, exited, market, skip, curve, skipped>>

Enter(s) ==
  /\ phase = "entries" /\ Visit(s)
  /\ s \notin DOMAIN positions \cup exited
  /\ \E i \in Taken(s) : \E signal \in EntryIn(s, Allowed[i]) : \E n \in N(histories[s]) :
       LET qty == QtyFor(Equity(cash, positions, closes), n)
       IN Buy(s, Allowed[i], signal, qty,
              Opened(signal, Allowed[i], FillPrice(Batch[s], signal), n, qty))
  /\ skip' = skip \ Used(s)
  /\ skipped' = [k \in Keys |-> IF k \in Used(s) THEN skipped[k] + 1 ELSE skipped[k]]
  /\ UNCHANGED <<input, session, phase, exited, market, curve>>

Pass(s) ==
  /\ phase = "entries" /\ Visit(s)
  /\ CASE s \in exited -> UNCHANGED <<skip, skipped>>
       [] s \in DOMAIN positions ->
            UnitsOf(s) = {} /\ UNCHANGED <<skip, skipped>>
       [] OTHER ->
            /\ Taken(s) = {}
            /\ skip' = skip \ Used(s)
            /\ skipped' = [k \in Keys |->
                             IF k \in Used(s) THEN skipped[k] + 1 ELSE skipped[k]]
  /\ UNCHANGED <<input, session, phase, exited, market, account, audit, curve>>

EndSession ==
  /\ phase = "entries" /\ todo = {}
  /\ histories' = [s \in Symbols |->
       IF s \in DOMAIN Batch THEN Append(histories[s], Batch[s]) ELSE histories[s]]
  /\ curve' = Append(curve, Equity(cash, positions, closes))
  /\ exited' = {}
  /\ IF session < Sessions
     THEN session' = session + 1 /\ phase' = "between"
     ELSE session' = session /\ phase' = "done"
  /\ UNCHANGED <<input, todo, closes, account, skip, audit, skipped>>

SessionStep ==
  \/ OpenSession \/ ExitsDone \/ EndSession
  \/ \E s \in Symbols : Exit(s) \/ Keep(s) \/ Pyramid(s) \/ Enter(s) \/ Pass(s)

=============================================================================
