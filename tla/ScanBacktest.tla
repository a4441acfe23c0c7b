----------------------------- MODULE ScanBacktest -----------------------------
(***************************************************************************)
(* run_scan_backtest (scan_backtest.py): before the engine runs, a scan    *)
(* over the same candles ranks the symbols by their distance to a          *)
(* breakout, accepts the nearest ones for some sessions, and hands the     *)
(* engine entry filters that let in what was accepted and, with a point-   *)
(* in-time universe, belongs to it that day (pit_universe.py).             *)
(***************************************************************************)
EXTENDS TurtleBacktest

CONSTANTS
  ScanTopN, AcceptTopN, \* how many are recommended, and how many accepted
  HoldDays,             \* accept_hold_days
  MinCandles,           \* min_completed_candles
  MinPrice,
  MinValue, ValueDays,  \* min_average_daily_value and the bars it is taken over
  MaxDistancePct,       \* max_breakout_distance_pct, or none
  PitUniverses          \* what --pit-universe may name: none, or a function
                        \* session -> its eligible symbols

ASSUME ScanConstantsOK ==
  /\ ScanTopN \in Nat /\ AcceptTopN \in Nat /\ HoldDays \in Nat
  /\ MinCandles \in Nat /\ MinPrice \in Nat /\ MinValue \in Nat /\ ValueDays \in Nat
  /\ MaxDistancePct \subseteq Nat

VARIABLES
  pit,    \* the point-in-time universe in use
  active, \* active_acceptances: key -> sessions left
  decisions \* the keys accepted anew at each session

scanVars == <<backtestVars, pit, active, decisions>>

ScanInit == BacktestInit /\ pit \in PitUniverses /\ active = <<>> /\ decisions = <<>>

-----------------------------------------------------------------------------
(* Ranking *)

\* The bars of s in the sessions read so far: the scan's own histories.
Seen(s) ==
  LET sessions == SelectSeq([i \in 1..Len(tape) |-> i], LAMBDA i : s \in DOMAIN tape[i])
  IN [j \in 1..Len(sessions) |-> tape[sessions[j]][s]]

\* A distance is a fraction of the price; distances compare crosswise.
Nearer(d, e) == d.gap * e.price < e.gap * d.price
SameDistance(d, e) == d.gap * e.price = e.gap * d.price

\* The command line scans the directions that the engine may enter.
ScanDirections == {Allowed[i] : i \in 1..Len(Allowed)}

Gaps(bars, direction) ==
  LET price == bars[Len(bars)].close
      level(period) == IF direction = "SHORT" THEN ChannelLow(bars, period)
                       ELSE ChannelHigh(bars, period)
  IN {Distance(price, l) : l \in level(EntryShort) \cup level(EntryLong)}

\* _candidates: at most one for each scanned direction.
Candidates(s) ==
  LET bars == Seen(s)
      price == bars[Len(bars)].close
  IN {c \in [key : {s} \X ScanDirections, price : {price},
             gap : UNION {Gaps(bars, d) : d \in ScanDirections}] :
        /\ Gaps(bars, c.key[2]) # {} /\ c.gap = Min(Gaps(bars, c.key[2]))
        /\ \A most \in MaxDistancePct : c.gap * 100 <= most * price}

Scannable(s) ==
  LET bars == Seen(s)
  IN /\ bars # <<>> /\ Len(bars) >= MinCandles
     /\ bars[Len(bars)].close >= MinPrice
     /\ \A v \in AverageValue(bars, ValueDays) : v >= MinValue

Eligible(s, day) == \A universe \in pit : s \in universe[day]

Recommendable(day) ==
  UNION {Candidates(s) : s \in {t \in Symbols : Scannable(t) /\ Eligible(t, day)}}

\* The sort is by distance and symbol, and stable: LONG was appended first.
Before(c, d) ==
  \/ Nearer(c, d)
  \/ SameDistance(c, d) /\ c.key[1] < d.key[1]
  \/ SameDistance(c, d) /\ c.key[1] = d.key[1] /\ c.key[2] = "LONG" /\ d.key[2] = "SHORT"

Accepted(day) ==
  LET all == Recommendable(day)
      rank(c) == Cardinality({d \in all : Before(d, c)})
  IN {c.key : c \in {d \in all : rank(d) < ScanTopN /\ rank(d) < AcceptTopN}}

-----------------------------------------------------------------------------
(* The scan, and then the engine *)

AgedTooLate(held) == [k \in {l \in DOMAIN held : held[l] > 0} |-> held[k] - 1]
Aged(held) == [k \in {l \in DOMAIN held : held[l] > 1} |-> held[k] - 1]

\* Mutant: a symbol that is let in is let in both ways.
AdmittedSymbols(held, day) ==
  {k \in Keys : Eligible(k[1], day) /\ \E d \in Directions : <<k[1], d>> \in DOMAIN held}

\* The two entry filters together.
Admitted(held, day) == {k \in DOMAIN held : Eligible(k[1], day)}

\* _scan_one_day: what was accepted again starts its sessions anew; one session
\* is used up at the end of the day.
ScanDay(batch) ==
  LET day == Len(tape) + 1
      new == Accepted(day)
      held == [k \in DOMAIN active \cup new |-> IF k \in new THEN Max({HoldDays, 1}) ELSE active[k]]
  IN /\ \A universe \in pit : day \in DOMAIN universe
     /\ Load(batch, Admitted(held, day))
     /\ decisions' = Append(decisions, new)
     /\ active' = Aged(held)
     /\ UNCHANGED pit

\* A session without a snapshot is an error: nothing is traded at all.
PitMissing ==
  /\ phase = "input" /\ Len(tape) < Sessions
  /\ \E universe \in pit : Len(tape) + 1 \notin DOMAIN universe
  /\ phase' = "failed"
  /\ UNCHANGED <<input, session, todo, exited, market, account, skip, audit, curve,
                 skipped, pit, active, decisions>>
=============================================================================
