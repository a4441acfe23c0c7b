------------------------------- MODULE Backtests -------------------------------
(***************************************************************************)
(* The four backtest commands of the command line (cli.py) over the state  *)
(* that their engines share: --backtest-csv for one symbol, the same with  *)
(* --backtest-portfolio, --scan-backtest and --momentum-backtest.          *)
(***************************************************************************)
EXTENDS ScanBacktest

CONSTANTS
  MarketSymbol, UseMarketFilter, Lookback, SkipDays, TrendDays, ExitDays,
  MaxPositions, MaxExposurePct, TargetPct, MomentumAcceptTopN,
  MomentumMinPrice, MomentumMinValue, MomentumValueDays,
  BuyPct, SellPct, SecPct, MinSecFee,
  Batches,  \* command -> for each session, the sets of candles it may have
  OneSymbol \* the symbol of the candles given to the single-symbol command

Commands == {"single", "portfolio", "scan", "momentum"}

ASSUME BatchesOK ==
  /\ DOMAIN Batches \subseteq Commands
  /\ \A c \in DOMAIN Batches : \A i \in 1..Sessions : \A b \in Batches[c][i] :
       DOMAIN b \subseteq Symbols /\ \A s \in DOMAIN b : b[s] \in Bar
  /\ OneSymbol \in Symbols

ASSUME MomentumConstantsOK ==
  /\ UseMarketFilter \in BOOLEAN
  /\ MaxPositions \in Nat /\ MaxExposurePct \in 0..100 /\ TargetPct \in 0..100
  /\ MomentumAcceptTopN \in Nat
  /\ BuyPct \in Nat /\ SellPct \in Nat /\ SecPct \in Nat /\ MinSecFee \in Nat

VARIABLE command

vars == <<scanVars, command>>

Momentum == INSTANCE MomentumBacktest

BacktestsInit == ScanInit /\ command \in DOMAIN Batches

Candles == IF Len(tape) < Sessions THEN Batches[command][Len(tape) + 1] ELSE {}

\* run takes the candles of one symbol and no filter, run_portfolio the filter
\* of the point-in-time universe; the daily snapshots are all there.
Single ==
  /\ command = "single" /\ pit = {} /\ UNCHANGED <<pit, active, decisions, command>>
  /\ \/ \E batch \in Candles : Load(batch, Keys)
     \/ SessionStep

Portfolio ==
  /\ command = "portfolio" /\ UNCHANGED <<pit, active, decisions, command>>
  /\ \A universe \in pit : 1..Sessions \subseteq DOMAIN universe
  /\ \/ \E batch \in Candles : Load(batch, {k \in Keys : Eligible(k[1], Len(tape) + 1)})
     \/ SessionStep

Scan ==
  /\ command = "scan" /\ UNCHANGED command
  /\ \/ \E batch \in Candles : ScanDay(batch)
     \/ PitMissing
     \/ SessionStep /\ UNCHANGED <<pit, active, decisions>>

MomentumRun ==
  /\ command = "momentum" /\ UNCHANGED <<active, decisions, command>>
  /\ \/ \E batch \in Candles : Load(batch, Keys) /\ UNCHANGED pit
     \/ Momentum!MomentumNext /\ UNCHANGED <<admitted, openCosts, skip, skipped>>

BacktestsNext == Single \/ Portfolio \/ Scan \/ MomentumRun

BacktestsSpec == BacktestsInit /\ [][BacktestsNext]_vars

-----------------------------------------------------------------------------
(* The summary of a result (summarize_backtest_result) *)

WorstSessionFall(values) ==
  Max({0} \cup {values[i] - values[i + 1] : i \in 1..(Len(values) - 1)})

\* _max_drawdown: one pass that remembers the highest equity so far.
MaxDrawdown(values) ==
  LET fall[i \in 0..Len(values)] ==
        IF i = 0 THEN [peak |-> InitialEquity, worst |-> 0]
        ELSE LET peak == Max({fall[i - 1].peak, values[i]})
             IN [peak |-> peak, worst |-> Max({fall[i - 1].worst, peak - values[i]})]
  IN fall[Len(values)].worst

-----------------------------------------------------------------------------
(* Properties *)

\* What an open position took out of the cash, negative if it brought some.
TiedUp(s) ==
  IF command = "momentum" THEN positions[s].cost
  ELSE IF positions[s].direction = "SHORT" THEN -openCosts[s] ELSE openCosts[s]

\* The cash of a backtest is what it began with, and the result of its closed
\* trades, less what its open positions took, fees included: no fill of a
\* pyramid, of a short or of a losing exit is booked twice or forgotten
\* (_exit_position, _OpenCost and run_momentum_backtest).
CashAccounted ==
  cash = InitialEquity + SumFunction([i \in DOMAIN trades |-> trades[i].pnl])
           - SumFunction([s \in DOMAIN positions |-> TiedUp(s)])

\* A symbol whose position was closed in a session is not traded again in that
\* session by any engine (exited_symbols, exited_this_bar).
NoReentry ==
  \A i \in DOMAIN audit, j \in DOMAIN audit :
    /\ i < j /\ audit[i].session = audit[j].session /\ audit[i].symbol = audit[j].symbol
    /\ audit[i].kind \in {"STOP", "EXIT"}
    => audit[j].kind \notin {"ENTRY", "PYRAMID"}

\* Every winning S1 trade makes exactly one later S1 breakout of its symbol and
\* direction be skipped: no skip is lost, doubled or used up by an S2 entry
\* (with_s1_skip, clear_s1_skip).
OneSkipPerWinner ==
  \A k \in Keys :
    Cardinality({i \in DOMAIN trades : /\ trades[i].key = k /\ trades[i].system = "S1"
                                       /\ trades[i].pnl > 0})
      = skipped[k] + Cardinality({k} \cap skip)

\* What the scan lets in: a position is entered only on a symbol and in the very
\* direction accepted in this or one of the HoldDays - 1 sessions before it,
\* and, with a point-in-time universe, on a symbol that belongs to it that day.
EntriesWereAccepted ==
  command = "scan" =>
    \A i \in DOMAIN audit : audit[i].kind = "ENTRY" =>
      LET day == audit[i].session
      IN /\ Eligible(audit[i].symbol, day)
         /\ \E before \in 0..(Max({HoldDays, 1}) - 1) :
              /\ before < day
              /\ <<audit[i].symbol, SignalDirection(audit[i].side)>> \in decisions[day - before]

\* The drawdown that one pass over the curve computes is the worst fall between
\* any two points of it, the initial equity being the first of them.
DrawdownIsWorstFall ==
  curve # <<>> =>
    LET equity == <<InitialEquity>> \o curve
    IN MaxDrawdown(curve) =
         Max({0} \cup UNION {{equity[i] - equity[j] : j \in i..Len(equity)} : i \in DOMAIN equity})

\* What slippage makes of a price of the bar; momentum fills do not slip.
Worst(side, price) == IF command = "momentum" THEN price ELSE Slipped(side, price)

\* A fill is never better than the bar it is booked on allows, and worse only by
\* the slippage: a buy costs the low of the bar at least and its slipped high at
\* most, a sale brings its high at most and its slipped low at least.
FillsInsideBar ==
  [][\A i \in DOMAIN audit' \ DOMAIN audit : audit'[i].side # "none" =>
       LET bar == tape[session][audit'[i].symbol]
           price == audit'[i].price
       IN IF audit'[i].side = "SELL"
          THEN Worst("SELL", bar.low) <= price /\ price <= bar.high
          ELSE bar.low <= price /\ price <= Worst("BUY", bar.high)]_vars

\* While a position is held its stop only moves with the trade: a unit that is
\* added raises the stop of a long and lowers the stop of a short.
StopOnlyTightens ==
  [][command # "momentum" => \A s \in DOMAIN positions \cap DOMAIN positions' :
       IF positions[s].direction = "SHORT" THEN positions'[s].stop <= positions[s].stop
       ELSE positions'[s].stop >= positions[s].stop]_vars

-----------------------------------------------------------------------------
(* run_portfolio on one symbol does what run does: the two loops, written     *)
(* twice in the code, are the same backtest.                                  *)

In(value, outside) == IF command = "single" THEN value ELSE outside
At(f, outside) == IF OneSymbol \in DOMAIN f THEN f[OneSymbol] ELSE outside

Stage ==
  CASE phase = "exits" /\ todo # {} -> "exit"
    [] phase = "exits" /\ todo = {} -> "trade"
    [] phase = "entries" /\ todo # {} -> "trade"
    [] phase = "entries" /\ todo = {} -> "mark"
    [] OTHER -> "idle"

One == INSTANCE SingleBacktest WITH
  Symbol <- OneSymbol,
  stage <- In(Stage, "idle"),
  bar <- In(IF Stage = "idle" THEN {} ELSE {tape[session][OneSymbol]}, {}),
  history <- In(histories[OneSymbol], <<>>),
  exitedBar <- In(OneSymbol \in exited, FALSE),
  cash <- In(cash, InitialEquity),
  position <- In({positions[s] : s \in DOMAIN positions}, {}),
  cost <- In(At(openCosts, 0), 0),
  skip <- In(skip, {}), trades <- In(trades, <<>>), curve <- In(curve, <<>>)

\* On the candles of one symbol every step of run_portfolio is a step of run.
RunAgreesWithPortfolio == One!SingleSpec

BacktestsTypeOK ==
  /\ command \in Commands /\ pit \in PitUniverses
  /\ session \in 1..Max({Sessions, 1})
  /\ phase \in {"input", "between", "exits", "entries", "done", "failed"}
  /\ todo \subseteq Symbols /\ exited \subseteq Symbols
  /\ DOMAIN positions \subseteq DOMAIN closes /\ DOMAIN closes \subseteq Symbols
  /\ cash \in Int
  /\ command # "momentum" => DOMAIN openCosts = DOMAIN positions
  /\ skip \subseteq Keys
=============================================================================
