--------------------------- MODULE MomentumBacktest ---------------------------
(***************************************************************************)
(* run_momentum_backtest (momentum_backtest.py): at the close of each      *)
(* session it sells what closed below its exit average and buys the best   *)
(* ranked symbols, ranked on the bars before the session, until the day's  *)
(* entries, the positions or the exposure are used up.  Its variables are  *)
(* those of the other engines.                                             *)
(***************************************************************************)
EXTENDS MomentumRank

CONSTANTS
  Symbols, Sessions, InitialEquity,
  MarketSymbol,
  UseMarketFilter,
  MaxPositions, MaxExposurePct, TargetPct,
  MomentumAcceptTopN,
  BuyPct, SellPct, SecPct, MinSecFee

VARIABLES tape, pit, session, phase, todo, exited, histories, closes, cash,
          positions, \* symbol -> [entered, qty, price, cost]
          trades, audit, curve

momentumVars == <<tape, pit, session, phase, todo, exited, histories, closes, cash,
                  positions, trades, audit, curve>>

-----------------------------------------------------------------------------
(* Money *)

BuyCash(price, qty) == -(price * qty + (price * qty * BuyPct) \div 100)
SellCash(price, qty) ==
  price * qty - (price * qty * SellPct) \div 100
    - Max({(price * qty * SecPct) \div 100, MinSecFee})

\* _position_value counts what selling would bring, _position_exposure does not.
Worth == SumFunction([s \in DOMAIN positions |-> SellCash(closes[s], positions[s].qty)])
Exposure == SumFunction([s \in DOMAIN positions |-> closes[s] * positions[s].qty])
MomentumEquity == cash + Worth

-----------------------------------------------------------------------------
(* Ranking *)

\* _candidate
IsCandidate(s) ==
  LET bars == histories[s]
      current == bars[Len(bars)].close
  IN /\ s # MarketSymbol
     /\ \A universe \in pit : s \in universe[session]
     /\ Len(bars) > Max({Lookback, TrendDays, MomentumValueDays}) + SkipDays
     /\ current >= MomentumMinPrice /\ ValueOK(bars)
     /\ Above(current, bars, TrendDays) /\ Above(current, bars, ExitDays)
     /\ Recent(bars) > Past(bars)

\* The higher return first, then the symbol.
Better(s, t) ==
  \/ GainsMore(histories[s], histories[t])
  \/ s < t /\ ~GainsMore(histories[t], histories[s])

MarketOK ==
  \/ ~UseMarketFilter
  \/ LET bars == histories[MarketSymbol]
     IN bars # <<>> /\ Above(bars[Len(bars)].close, bars, TrendDays)

Ranked == IF MarketOK /\ Cardinality(DOMAIN positions) < MaxPositions
          THEN {s \in Symbols : IsCandidate(s)} ELSE {}

-----------------------------------------------------------------------------
(* The session loop *)

Event(kind, side, symbol, price) ==
  [session |-> session, symbol |-> symbol, kind |-> kind, side |-> side, price |-> price]

\* Every close of the batch is marked before the positions are looked at; a
\* session without a snapshot of the point-in-time universe is an error.
MomentumOpen ==
  /\ \/ phase = "input" /\ Len(tape) = Sessions /\ Sessions > 0
     \/ phase = "between"
  /\ IF \A universe \in pit : session \in DOMAIN universe
     THEN /\ phase' = "exits" /\ todo' = DOMAIN positions
          /\ closes' = [s \in DOMAIN closes \cup DOMAIN tape[session] |->
                          IF s \in DOMAIN tape[session] THEN tape[session][s].close
                          ELSE closes[s]]
     ELSE phase' = "failed" /\ UNCHANGED <<todo, closes>>
  /\ UNCHANGED <<tape, pit, session, exited, histories, cash, positions, trades, audit, curve>>

\* The held symbols are visited in the order of their entries; no property
\* depends on that order, so any order is taken.
MomentumExit(s) ==
  /\ phase = "exits" /\ s \in todo /\ todo' = todo \ {s}
  /\ s \in DOMAIN tape[session] /\ Below(tape[session][s].close, histories[s], ExitDays)
  /\ LET delta == SellCash(tape[session][s].close, positions[s].qty)
     IN /\ cash' = cash + delta
        /\ trades' = Append(trades, [key |-> <<s, "LONG">>, system |-> "MOMENTUM",
                                     pnl |-> delta - positions[s].cost])
  /\ positions' = Restrict(positions, DOMAIN positions \ {s})
  /\ exited' = exited \cup {s}
  /\ audit' = Append(audit, Event("EXIT", "SELL", s, tape[session][s].close))
  /\ UNCHANGED <<tape, pit, session, phase, histories, closes, curve>>

MomentumKeep(s) ==
  /\ phase = "exits" /\ s \in todo /\ todo' = todo \ {s}
  /\ s \in DOMAIN tape[session] => ~Below(tape[session][s].close, histories[s], ExitDays)
  /\ UNCHANGED <<tape, pit, session, phase, exited, histories, closes, cash, positions,
                 trades, audit, curve>>

MomentumRank ==
  /\ phase = "exits" /\ todo = {}
  /\ phase' = "entries" /\ todo' = Ranked
  /\ UNCHANGED <<tape, pit, session, exited, histories, closes, cash, positions, trades,
                 audit, curve>>

AcceptedToday == {s \in DOMAIN positions : positions[s].entered = session}

\* In hundredths: the target, or what the exposure limit leaves of it.
Allocation ==
  Min({MomentumEquity * TargetPct, MomentumEquity * MaxExposurePct - 100 * Exposure})

LimitReached ==
  \/ Cardinality(AcceptedToday) >= MomentumAcceptTopN
  \/ Cardinality(DOMAIN positions) >= MaxPositions

Buyable(s) == s \notin DOMAIN positions \cup exited /\ s \in DOMAIN tape[session]
QtyOf(s) == Allocation \div (100 * tape[session][s].close)

MomentumStop ==
  /\ phase = "entries" /\ todo # {}
  /\ \/ LimitReached
     \/ /\ Allocation <= 0
        /\ \E s \in todo : Buyable(s) /\ \A t \in todo \ {s} : Better(s, t)
  /\ todo' = {}
  /\ UNCHANGED <<tape, pit, session, phase, exited, histories, closes, cash, positions,
                 trades, audit, curve>>

MomentumSkip(s) ==
  /\ phase = "entries" /\ s \in todo /\ ~LimitReached
  /\ \A t \in todo \ {s} : Better(s, t)
  /\ \/ ~Buyable(s)
     \/ /\ Buyable(s) /\ Allocation > 0
        /\ \/ QtyOf(s) <= 0
           \/ cash + BuyCash(tape[session][s].close, QtyOf(s)) < 0
  /\ todo' = todo \ {s}
  /\ UNCHANGED <<tape, pit, session, phase, exited, histories, closes, cash, positions,
                 trades, audit, curve>>

MomentumEnter(s) ==
  /\ phase = "entries" /\ s \in todo /\ ~LimitReached
  /\ \A t \in todo \ {s} : Better(s, t)
  /\ Buyable(s) /\ Allocation > 0 /\ QtyOf(s) > 0
  /\ LET price == tape[session][s].close
         delta == BuyCash(price, QtyOf(s))
         bought == [entered |-> session, qty |-> QtyOf(s), price |-> price, cost |-> -delta]
     IN /\ cash + delta >= 0
        /\ cash' = cash + delta
        /\ positions' = [t \in DOMAIN positions \cup {s} |->
                           IF t = s THEN bought ELSE positions[t]]
        /\ audit' = Append(audit, Event("ENTRY", "BUY", s, price))
  /\ todo' = todo \ {s}
  /\ UNCHANGED <<tape, pit, session, phase, exited, histories, closes, trades, curve>>

MomentumEnd ==
  /\ phase = "entries" /\ todo = {}
  /\ histories' = [s \in Symbols |->
       IF s \in DOMAIN tape[session] THEN Append(histories[s], tape[session][s])
       ELSE histories[s]]
  /\ curve' = Append(curve, MomentumEquity)
  /\ exited' = {}
  /\ IF session < Sessions
     THEN session' = session + 1 /\ phase' = "between"
     ELSE session' = session /\ phase' = "done"
  /\ UNCHANGED <<tape, pit, todo, closes, cash, positions, trades, audit>>

MomentumNext ==
  \/ MomentumOpen \/ MomentumRank \/ MomentumStop \/ MomentumEnd
  \/ \E s \in Symbols :
       MomentumExit(s) \/ MomentumKeep(s) \/ MomentumSkip(s) \/ MomentumEnter(s)

=============================================================================
