----------------------------- MODULE PaperRuntime -----------------------------
(***************************************************************************)
(* One service iteration of the strategy (paper_runtime.py) on top of the  *)
(* position sync (position_sync.py): it reads the broker's holdings and    *)
(* then its open orders, copies the holdings into the position rows if     *)
(* live, refuses to go on if the two sides differ, and evaluates each      *)
(* symbol.  Paper and shadow mode fill every intent at once in rows of     *)
(* their own; live mode hands the intents to the order path, whose fate    *)
(* LiveService models and which is left open here.                         *)
(***************************************************************************)
EXTENDS Turtle, MomentumRank

CONSTANTS
  Symbols,      \* the symbols of the run, numbered in their order
  MarketSymbol,
  Setups,       \* the pairs of a mode and a strategy that are configured
  UnitQty,      \* unit_qty
  BaseEquity,   \* initial_equity
  UseMarketFilter, MaxPositions, MaxExposurePct, TargetPct, AcceptTopN,
  History,      \* symbol -> the bars completed before the first day
  Days,         \* for each day, the bars that it may bring, by symbol
  RunsPerDay,   \* bound: iterations in a day
  OwnHoldings   \* what the account may hold before the service starts

AllSymbols == Symbols \cup {MarketSymbol}

ASSUME RuntimeConstantsOK ==
  /\ AllSymbols \subseteq Nat
  /\ Setups \subseteq {"paper", "shadow", "live"} \X {"turtle", "momentum"}
  /\ UnitQty \in Nat \ {0} /\ BaseEquity \in Nat /\ UseMarketFilter \in BOOLEAN
  /\ MaxPositions \in Nat /\ AcceptTopN \in Nat
  /\ MaxExposurePct \in 0..100 /\ TargetPct \in 0..100
  /\ IsFiniteSet(Symbols) /\ History \in [AllSymbols -> Seq(Bar)]
  /\ Days \in Seq(SUBSET [AllSymbols -> Bar]) /\ Days # <<>>
  /\ \A h \in OwnHoldings : /\ DOMAIN h \subseteq AllSymbols
                            /\ \A s \in DOMAIN h : h[s] \in [qty : Nat \ {0}, cost : Nat]
  /\ RunsPerDay \in Nat

VARIABLES
  setup,     \* the mode and the strategy
  day, today, histories, \* the day, its bars, the bars completed before it
  runs,      \* iterations done in the day
  holdings,  \* at the broker: symbol -> [qty, cost]
  orders,    \* at the broker: the open orders
  rows,      \* positions: the rows of the live mode
  paper,     \* paper_positions
  step,      \* of the iteration: idle, orders, evaluate, gather, sell, buy, submit
  seen,      \* the holdings that the iteration read
  todo,      \* the symbols that its current loop has not visited
  prices,    \* the prices a momentum run works on
  held,      \* its dictionary of positions
  exited, accepted,
  blocked,   \* there are blockers
  intents,   \* the intents of the iteration, in order
  raced,     \* history: an order was filled between the two reads of a reconcile
  unsold     \* history: the symbols held whose planned sale came to nothing

market == <<day, today, histories, runs>>
broker == <<holdings, orders>>
local == <<todo, prices, held, exited, accepted>>
result == <<blocked, intents, unsold>>
vars == <<setup, market, broker, rows, paper, step, seen, local, result, raced>>

mode == setup[1]
kind == setup[2]

-----------------------------------------------------------------------------
(* Rows *)

With(f, s, v) == [t \in DOMAIN f \cup {s} |-> IF t = s THEN v ELSE f[t]]
IsOpen(table, s) == s \in DOMAIN table /\ table[s].status = "OPEN"
OpenRows(table) == {s \in DOMAIN table : IsOpen(table, s)}

\* _position_from_broker_holding: what the row knew before, or a momentum
\* position without N that is stopped at its average.
FromHolding(holding, table, s) ==
  LET avg == holding.cost \div holding.qty
      before(value, default) == IF s \in DOMAIN table THEN value ELSE default
  IN [status |-> "OPEN", direction |-> "LONG", qty |-> holding.qty, avg |-> avg,
      system |-> before(table[s].system, "MOMENTUM"), entryN |-> before(table[s].entryN, 0),
      stop |-> before(table[s].stop, avg), last |-> avg, units |-> 1]

OnlyMarked(row) == [row EXCEPT !.status = "CLOSED"]
\* _closed_position_from_missing_broker_holding, and a paper sale.
ClosedRow(row) == [row EXCEPT !.status = "CLOSED", !.qty = 0, !.units = 0]

\* _sync_live_positions
Synced(table, read) ==
  [s \in DOMAIN table \cup DOMAIN read |->
     IF s \in DOMAIN read THEN FromHolding(read[s], table, s)
     ELSE IF IsOpen(table, s) THEN ClosedRow(table[s]) ELSE table[s]]

SameHoldings(table, read, open) ==
  OpenRows(table) = DOMAIN read /\ \A s \in DOMAIN read : table[s].qty = read[s].qty

\* reconcile_positions: every open order at the broker is unresolved.
Clean(table, read, open) ==
  /\ OpenRows(table) = DOMAIN read
  /\ \A s \in DOMAIN read : table[s].qty = read[s].qty
  /\ open = {}

-----------------------------------------------------------------------------
(* The guard and the simulated fill *)

\* _load_strategy_position reads the rows of the mode.
Table == IF mode = "live" THEN rows ELSE paper

\* PaperOrderGuard.validate, after the reconcile.
GuardPasses(intent) ==
  /\ intent.qty > 0
  /\ intent.side = "BUY" /\ intent.system # "MOMENTUM" => intent.n > 0
  /\ intent.side = "SELL" => intent.symbol \in DOMAIN Table

\* PaperBrokerSimulator.fill
Bought(intent) ==
  IF IsOpen(paper, intent.symbol)
  THEN LET row == paper[intent.symbol]
       IN [row EXCEPT !.qty = @ + intent.qty, !.units = @ + 1,
                      !.avg = (@ * row.qty + intent.price * intent.qty) \div (row.qty + intent.qty),
                      !.stop = intent.stop, !.last = intent.price]
  ELSE [status |-> "OPEN", direction |-> "LONG", system |-> intent.system, qty |-> intent.qty,
        avg |-> intent.price, entryN |-> intent.n, stop |-> intent.stop,
        last |-> intent.price, units |-> 1]

FilledRow(intent) ==
  IF intent.side = "BUY" THEN Bought(intent) ELSE ClosedRow(paper[intent.symbol])

NotCarriedOut(intent) ==
  unsold' = IF intent.side = "SELL" THEN unsold \cup {intent.symbol} ELSE unsold

\* _record_intent, and the same lines of run_once: a blocked intent only leaves
\* its blockers, and live intents are not filled here.
Record(intent) ==
  IF GuardPasses(intent)
  THEN /\ intents' = Append(intents, intent)
       /\ paper' = IF mode = "live" THEN paper ELSE With(paper, intent.symbol, FilledRow(intent))
       /\ UNCHANGED <<blocked, unsold>>
  ELSE blocked' = TRUE /\ NotCarriedOut(intent) /\ UNCHANGED <<intents, paper>>

-----------------------------------------------------------------------------
(* The start of an iteration *)

\* reconcile: the holdings are read first, and then the open orders.
ReadHoldings ==
  /\ step = "idle" /\ runs < RunsPerDay
  /\ step' = "orders" /\ seen' = holdings /\ runs' = runs + 1
  /\ UNCHANGED <<setup, day, today, histories, broker, rows, paper, local, result, raced>>

\* The rest of reconcile and the decision to go on: shadow mode only warns.
ReadOrders ==
  /\ step = "orders"
  /\ rows' = IF mode = "live" THEN Synced(rows, seen) ELSE rows
  /\ IF Clean(rows', seen, orders) \/ mode = "shadow"
     THEN step' = IF kind = "momentum" THEN "gather" ELSE "evaluate"
     ELSE step' = "idle"
  /\ blocked' = FALSE /\ intents' = <<>> /\ todo' = Symbols /\ seen' = <<>>
  /\ UNCHANGED <<setup, market, broker, paper, prices, held, exited, accepted, raced, unsold>>

-----------------------------------------------------------------------------
(* Turtle: one symbol after another *)

PricesOf(bar) == {bar.open, bar.high, bar.low, bar.close}

\* The iteration makes a runtime of its own, so no skip is ever pending.
StrategyState == {}

SignalsAt(s, price) ==
  IF IsOpen(Table, s) THEN HeldSignals(Table[s], histories[s], price)
  ELSE EntrySignals(<<s, "LONG">>, histories[s], price, StrategyState)

\* _intent_from_signal: N is that of the row, if there is one, closed or not.
NFor(s) == IF s \in DOMAIN Table THEN Table[s].entryN ELSE CHOOSE n \in N(histories[s]) : TRUE

IntentFrom(s, signal, price) ==
  IF signal.kind \in {"STOP", "EXIT"}
  THEN [symbol |-> s, side |-> signal.side, kind |-> signal.kind, system |-> signal.system,
        qty |-> Table[s].qty, price |-> price, n |-> 0, stop |-> 0]
  ELSE [symbol |-> s, side |-> signal.side, kind |-> signal.kind, system |-> signal.system,
        qty |-> UnitQty, price |-> price, n |-> NFor(s), stop |-> price - StopN * NFor(s)]

Visit(s) == step = "evaluate" /\ s \in todo /\ s = Min(todo)

Evaluate(s) ==
  /\ Visit(s) /\ todo' = todo \ {s}
  /\ \E price \in PricesOf(today[s]) :
       /\ \/ SignalsAt(s, price) = {} /\ UNCHANGED <<paper, result>>
          \/ \E signal \in SignalsAt(s, price) : Record(IntentFrom(s, signal, price))
  /\ UNCHANGED <<setup, market, broker, rows, step, seen, prices, held, exited, accepted, raced>>

\* A symbol without data is left out; a pause of the rate limit ends the loop.
DataFails(s) ==
  /\ Visit(s) /\ todo' \in {todo \ {s}, {}}
  /\ blocked' = TRUE
  /\ UNCHANGED <<setup, market, broker, rows, paper, step, seen, prices, held, exited, accepted,
                 intents, raced, unsold>>

-----------------------------------------------------------------------------
(* Momentum: all data first, then the exits, then the entries *)

Gather ==
  /\ step = "gather"
  /\ held' = [s \in {t \in OpenRows(Table) : Table[t].system = "MOMENTUM"} |-> Table[s]]
  /\ prices' \in [AllSymbols -> UNION {PricesOf(today[s]) : s \in AllSymbols}]
  /\ \A s \in AllSymbols : prices'[s] \in PricesOf(today[s])
  /\ step' = "sell" /\ todo' = DOMAIN held'
  /\ exited' = {} /\ accepted' = {}
  /\ UNCHANGED <<setup, market, broker, rows, paper, seen, result, raced>>

\* One symbol without data, and the run has no intents.
GatherFails ==
  /\ step = "gather" /\ blocked' = TRUE /\ step' = "idle" /\ todo' = {}
  /\ UNCHANGED <<setup, market, broker, rows, paper, seen, prices, held, exited, accepted,
                 intents, raced, unsold>>

MomentumIntent(s, side, qty) ==
  [symbol |-> s, side |-> side, kind |-> IF side = "BUY" THEN "ENTRY" ELSE "EXIT",
   system |-> "MOMENTUM", qty |-> qty, price |-> prices[s], n |-> 0, stop |-> 0]

SellHeld(s) ==
  /\ step = "sell" /\ s \in todo /\ todo' = todo \ {s}
  /\ IF Below(prices[s], histories[s], ExitDays)
     THEN /\ Record(MomentumIntent(s, "SELL", held[s].qty))
          /\ held' = Restrict(held, DOMAIN held \ {s}) /\ exited' = exited \cup {s}
     ELSE UNCHANGED <<paper, result, held, exited>>
  /\ UNCHANGED <<setup, market, broker, rows, step, seen, prices, accepted, raced>>

MomentumMarketOK ==
  ~UseMarketFilter \/
    LET bars == histories[MarketSymbol]
    IN bars # <<>> /\ Above(bars[Len(bars)].close, bars, TrendDays)

MomentumCandidate(s) ==
  LET bars == histories[s]
      close == bars[Len(bars)].close
  IN /\ s # MarketSymbol
     /\ Len(bars) > Max({Lookback, TrendDays, MomentumValueDays, ExitDays}) + SkipDays
     /\ close >= MomentumMinPrice /\ ValueOK(bars)
     /\ Above(close, bars, TrendDays) /\ Above(close, bars, ExitDays)
     /\ Recent(bars) > Past(bars)

Rank ==
  /\ step = "sell" /\ todo = {} /\ step' = "buy"
  /\ todo' = IF MomentumMarketOK THEN {s \in AllSymbols : MomentumCandidate(s)} ELSE {}
  /\ UNCHANGED <<setup, market, broker, rows, paper, seen, prices, held, exited, accepted,
                 result, raced>>

Next1(s) ==
  /\ step = "buy" /\ s \in todo
  /\ \A t \in todo \ {s} : \/ GainsMore(histories[s], histories[t])
                           \/ s < t /\ ~GainsMore(histories[t], histories[s])

MomentumExposure == SumFunction([s \in DOMAIN held |-> held[s].qty * prices[s]])

\* _momentum_quantity: the equity is the configured one and the gains of what
\* the dictionary holds; in hundredths.
MomentumQuantity(s) ==
  LET gain == [t \in DOMAIN held |-> held[t].qty * (prices[t] - held[t].avg)]
      equity == BaseEquity + SumFunction(gain)
      allocation == Min({equity * TargetPct, equity * MaxExposurePct - 100 * MomentumExposure})
  IN allocation \div (100 * prices[s])

AcceptLimit == Cardinality(accepted) >= AcceptTopN
BuyLimit == Cardinality(accepted) >= AcceptTopN \/ Cardinality(DOMAIN held) >= MaxPositions

Wanted(s) ==
  /\ s \notin DOMAIN held \cup exited
  /\ Above(prices[s], histories[s], ExitDays)
  /\ MomentumQuantity(s) > 0

BuyCandidate(s) ==
  /\ Next1(s) /\ ~BuyLimit /\ todo' = todo \ {s}
  /\ IF Wanted(s)
     THEN /\ Record(MomentumIntent(s, "BUY", MomentumQuantity(s)))
          /\ accepted' = accepted \cup {s}
          /\ held' = IF mode # "live" THEN With(held, s, paper'[s])
                     ELSE IF IsOpen(rows, s) THEN With(held, s, rows[s]) ELSE held
     ELSE UNCHANGED <<paper, result, accepted, held>>
  /\ UNCHANGED <<setup, market, broker, rows, step, seen, prices, exited, raced>>

StopBuying ==
  /\ step = "buy" /\ todo # {} /\ BuyLimit /\ todo' = {}
  /\ UNCHANGED <<setup, market, broker, rows, paper, step, seen, prices, held, exited, accepted,
                 result, raced>>

-----------------------------------------------------------------------------
(* The end of an iteration *)

EndRun ==
  /\ step \in {"evaluate", "buy"} /\ todo = {}
  /\ step' = IF mode = "live" THEN "submit" ELSE "idle"
  /\ prices' = <<>> /\ held' = <<>> /\ exited' = {} /\ accepted' = {}
  /\ UNCHANGED <<setup, market, broker, rows, paper, seen, todo, result, raced>>

\* _submit_live_intents takes the intents in turn; any of them may be blocked or
\* refused on the way, and a sale of more than the row has always is.
SubmitIntent ==
  /\ step = "submit" /\ intents # <<>>
  /\ LET intent == Head(intents)
     IN \/ UNCHANGED orders /\ NotCarriedOut(intent)
        \/ /\ UNCHANGED unsold
           /\ intent.side = "SELL" => intent.qty <= rows[intent.symbol].qty
           /\ orders' = orders \cup
                {[symbol |-> intent.symbol, side |-> intent.side, qty |-> intent.qty,
                  price |-> intent.price]}
  /\ intents' = Tail(intents)
  /\ UNCHANGED <<setup, market, holdings, rows, paper, step, seen, local, blocked, raced>>

AllSubmitted ==
  /\ step = "submit" /\ intents = <<>> /\ step' = "idle"
  /\ UNCHANGED <<setup, market, broker, rows, paper, seen, local, result, raced>>

-----------------------------------------------------------------------------
(* The broker and the calendar *)

Fill(o) ==
  LET before == IF o.symbol \in DOMAIN holdings THEN holdings[o.symbol] ELSE [qty |-> 0, cost |-> 0]
      bought == [qty |-> before.qty + o.qty, cost |-> before.cost + o.qty * o.price]
      left == [qty |-> before.qty - o.qty,
               cost |-> (before.cost \div before.qty) * (before.qty - o.qty)]
  IN /\ o \in orders /\ orders' = orders \ {o}
     /\ \/ o.side = "BUY" /\ holdings' = With(holdings, o.symbol, bought)
        \/ o.side = "SELL" /\ before.qty > o.qty /\ holdings' = With(holdings, o.symbol, left)
        \/ o.side = "SELL" /\ before.qty = o.qty
             /\ holdings' = Restrict(holdings, DOMAIN holdings \ {o.symbol})
     /\ raced' = (raced \/ step = "orders")
     /\ unsold' = (IF o.side = "SELL" THEN unsold \cup {o.symbol} ELSE unsold) \cap DOMAIN holdings'
     /\ UNCHANGED <<setup, market, rows, paper, step, seen, local, blocked, intents>>

Lapse(o) ==
  /\ o \in orders /\ orders' = orders \ {o} /\ NotCarriedOut(o)
  /\ UNCHANGED <<setup, market, holdings, rows, paper, step, seen, local, blocked, intents, raced>>

NextDay ==
  /\ step = "idle" /\ day < Len(Days)
  /\ day' = day + 1 /\ runs' = 0 /\ today' \in Days[day + 1]
  /\ histories' = [s \in AllSymbols |-> Append(histories[s], today[s])]
  /\ UNCHANGED <<setup, broker, rows, paper, step, seen, local, result, raced>>

-----------------------------------------------------------------------------

Init ==
  /\ setup \in Setups
  /\ day = 1 /\ today \in Days[1] /\ histories = History /\ runs = 0
  /\ holdings \in OwnHoldings /\ orders = {}
  /\ rows = <<>> /\ paper = <<>>
  /\ step = "idle" /\ seen = <<>> /\ todo = {} /\ prices = <<>> /\ held = <<>>
  /\ exited = {} /\ accepted = {} /\ blocked = FALSE /\ intents = <<>>
  /\ raced = FALSE /\ unsold = {}

Next ==
  \/ ReadHoldings \/ ReadOrders \/ Gather \/ GatherFails \/ Rank \/ StopBuying
  \/ EndRun \/ SubmitIntent \/ AllSubmitted \/ NextDay
  \/ \E s \in AllSymbols : Evaluate(s) \/ DataFails(s) \/ SellHeld(s) \/ BuyCandidate(s)
  \/ \E o \in orders : Fill(o) \/ Lapse(o)

Spec == Init /\ [][Next]_vars

-----------------------------------------------------------------------------
(* Properties *)

Row == [status : {"OPEN", "CLOSED"}, direction : {"LONG"}, system : Systems \cup {"MOMENTUM"},
        qty : Nat, avg : Nat, entryN : Nat, stop : Int, last : Nat, units : Nat]

\* A row is open exactly if it has a quantity, and then exactly if it has units.
RuntimeTypeOK ==
  /\ setup \in Setups /\ day \in 1..Len(Days)
  /\ step \in {"idle", "orders", "evaluate", "gather", "sell", "buy", "submit"}
  /\ todo \subseteq AllSymbols
  /\ DOMAIN rows \cup DOMAIN paper \cup DOMAIN held \cup DOMAIN holdings \subseteq AllSymbols
  /\ \A table \in {rows, paper} : \A s \in DOMAIN table :
       /\ table[s] \in Row
       /\ table[s].status = "OPEN" <=> table[s].qty > 0
       /\ table[s].status = "OPEN" <=> table[s].units > 0
  /\ \A s \in DOMAIN holdings : holdings[s].qty > 0 /\ holdings[s].cost >= 0

\* The symbols that are to be bought or sold, by an order or an intent.
Due(side) ==
  {o.symbol : o \in {p \in orders : p.side = side}}
    \cup {intents[i].symbol : i \in {j \in DOMAIN intents : intents[j].side = side}}
\* The slots that are taken, without the symbols that the strategy wants to leave.
Occupied == ((DOMAIN holdings \ Due("SELL")) \cup Due("BUY")) \ unsold
LiveSlots == MaxPositions + Max({AcceptTopN, 1}) - 1

\* Where fills are simulated momentum never has more than max_positions.  In
\* live mode an iteration counts what was held before its first intent, so it
\* may exceed them, but by no more than the other entries of one iteration, and
\* by the positions whose sale failed: these have left its dictionary.
MomentumSlots ==
  kind = "momentum" =>
    /\ Cardinality(OpenRows(paper)) <= MaxPositions
    /\ mode = "live" /\ ~raced => Cardinality(Occupied) <= LiveSlots

\* While a live iteration evaluates, its rows are what the broker holds and no
\* order is open, if no order was filled between the two reads of a reconcile.
RowsMatchBroker ==
  mode = "live" /\ ~raced /\ step \in {"evaluate", "gather", "sell", "buy"} =>
    /\ orders = {}
    /\ OpenRows(rows) = DOMAIN holdings
    /\ \A s \in DOMAIN holdings : rows[s].qty = holdings[s].qty

\* Under the same condition no two orders are open for one symbol, a sale never
\* exceeds the holding, and momentum buys only what the account does not hold.
OrdersFitHoldings ==
  ~raced => \A o \in orders :
    /\ \A p \in orders : p.symbol = o.symbol => p = o
    /\ o.side = "SELL" => o.symbol \in DOMAIN holdings /\ o.qty <= holdings[o.symbol].qty
    /\ o.side = "BUY" /\ kind = "momentum" => o.symbol \notin DOMAIN holdings

\* docs/turtle-rules.md:164, "Maximum per symbol: 4 units", of a live account
\* that the turtle strategy alone trades.
LiveUnitsLimited ==
  kind = "turtle" /\ ~raced => \A s \in DOMAIN holdings : holdings[s].qty <= MaxUnits * UnitQty
=============================================================================
