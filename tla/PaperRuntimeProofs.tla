-------------------------- MODULE PaperRuntimeProofs --------------------------
(***************************************************************************)
(* Proofs about PaperRuntime, for any symbols, bars, setups and holdings:  *)
(* what the rows of a live iteration say of the broker, how its orders     *)
(* relate to the holdings, how many positions momentum can come to, and    *)
(* that everything it keeps has its type.                                  *)
(***************************************************************************)
EXTENDS PaperRuntime, TurtleProofs, TLAPS, FiniteSetTheorems

-----------------------------------------------------------------------------
(* Rows and the sync *)

\* Every row comes from a holding; only the sync writes live rows, so that none
\* of them ever bears another system than momentum.
LiveRow(r) == "system" \in DOMAIN r /\ r.system = "MOMENTUM"
RowsOK == \A s \in DOMAIN rows : LiveRow(rows[s])

LEMMA ClosedIsLive ==
  ASSUME NEW r, LiveRow(r)
  PROVE  LiveRow(ClosedRow(r))
  BY DEF LiveRow, ClosedRow

LEMMA SyncedRows ==
  ASSUME NEW table, NEW read, \A s \in DOMAIN table : LiveRow(table[s])
  PROVE  \A s \in DOMAIN Synced(table, read) : LiveRow(Synced(table, read)[s])
<1> TAKE s \in DOMAIN Synced(table, read)
<1>1. s \in DOMAIN table \cup DOMAIN read
  BY DEF Synced
<1>2. CASE s \in DOMAIN read
  <2>1. Synced(table, read)[s] = FromHolding(read[s], table, s)
    BY <1>1, <1>2 DEF Synced
  <2>2. LiveRow(FromHolding(read[s], table, s))
    BY DEF FromHolding, LiveRow
  <2> QED BY <2>1, <2>2
<1>3. CASE s \notin DOMAIN read
  <2>1. LiveRow(table[s]) /\ LiveRow(ClosedRow(table[s]))
    BY <1>1, <1>3, ClosedIsLive
  <2>2. Synced(table, read)[s] \in {table[s], ClosedRow(table[s])}
    BY <1>1, <1>3 DEF Synced
  <2> QED BY <2>1, <2>2
<1> QED BY <1>2, <1>3

-----------------------------------------------------------------------------
(* Intents *)

IsSequence(q) == \E S : q \in Seq(S)
Intended == {intents[i].symbol : i \in DOMAIN intents}

\* What an intent must be for its order to fit: a sale is of a holding that the
\* row knows, a momentum purchase is of a symbol without one.
IntentOK(x) ==
  /\ x.side = "SELL" => x.symbol \in DOMAIN holdings /\ rows[x.symbol].qty = holdings[x.symbol].qty
  /\ x.side = "BUY" /\ kind = "momentum" => x.symbol \notin DOMAIN holdings

IntentsOK ==
  /\ IsSequence(intents)
  /\ \A i, j \in DOMAIN intents : intents[i].symbol = intents[j].symbol => i = j
  /\ \A i \in DOMAIN intents : IntentOK(intents[i])

LEMMA NoIntents == ASSUME intents = <<>> PROVE IntentsOK /\ Intended = {}
<1>1. intents \in Seq({})
  OBVIOUS
<1> QED BY <1>1 DEF IntentsOK, IsSequence, Intended

LEMMA AppendSequence ==
  ASSUME NEW q, IsSequence(q), NEW x
  PROVE  /\ IsSequence(Append(q, x)) /\ Len(q) \in Nat
         /\ DOMAIN q = 1..Len(q) /\ DOMAIN Append(q, x) = 1..(Len(q) + 1)
         /\ \A i \in 1..Len(q) : Append(q, x)[i] = q[i]
         /\ Append(q, x)[Len(q) + 1] = x
<1>1. PICK S : q \in Seq(S)
  BY DEF IsSequence
<1> DEFINE T == S \cup {x}
<1>2. q \in Seq(T) /\ x \in T
  BY <1>1
<1> HIDE DEF T
<1>3. Append(q, x) \in Seq(T)
  BY <1>2
<1> QED BY <1>2, <1>3 DEF IsSequence

LEMMA TailSequence ==
  ASSUME NEW q, IsSequence(q), q # <<>>
  PROVE  /\ IsSequence(Tail(q)) /\ Len(q) \in Nat \ {0}
         /\ DOMAIN q = 1..Len(q) /\ DOMAIN Tail(q) = 1..(Len(q) - 1)
         /\ \A i \in 1..(Len(q) - 1) : Tail(q)[i] = q[i + 1]
         /\ Head(q) = q[1]
<1>1. PICK S : q \in Seq(S)
  BY DEF IsSequence
<1>2. Tail(q) \in Seq(S)
  BY <1>1
<1> QED BY <1>1, <1>2 DEF IsSequence

\* An intent of a symbol that has none yet.
LEMMA IntentAdded ==
  ASSUME IntentsOK, NEW x, x.symbol \notin Intended, IntentOK(x), Record(x),
         UNCHANGED <<holdings, rows, setup>>
  PROVE  IntentsOK' /\ Intended' \subseteq Intended \cup {x.symbol}
<1>1. CASE UNCHANGED intents
  BY <1>1 DEF IntentsOK, IntentOK, Intended, kind
<1>2. CASE intents' = Append(intents, x)
  <2> DEFINE n == Len(intents)
  <2>1. /\ IsSequence(intents') /\ n \in Nat
        /\ DOMAIN intents = 1..n /\ DOMAIN intents' = 1..(n + 1)
        /\ \A i \in 1..n : intents'[i] = intents[i]
        /\ intents'[n + 1] = x
    BY <1>2, AppendSequence DEF IntentsOK
  <2> HIDE DEF n
  <2>2. \A i \in DOMAIN intents' : i \in DOMAIN intents \/ i = n + 1
    BY <2>1
  <2>3. \A i \in DOMAIN intents : intents'[i] = intents[i] /\ intents[i].symbol \in Intended
    BY <2>1 DEF Intended
  <2>4. \A i, j \in DOMAIN intents' : intents'[i].symbol = intents'[j].symbol => i = j
    <3> TAKE i, j \in DOMAIN intents'
    <3>1. CASE i \in DOMAIN intents /\ j \in DOMAIN intents
      BY <2>3, <3>1 DEF IntentsOK
    <3>2. CASE i = n + 1 \/ j = n + 1
      BY <2>1, <2>2, <2>3, <3>2
    <3> QED BY <2>2, <3>1, <3>2
  <2>5. \A i \in DOMAIN intents' : IntentOK(intents'[i])
    <3> TAKE i \in DOMAIN intents'
    <3>1. CASE i \in DOMAIN intents
      BY <2>3, <3>1 DEF IntentsOK
    <3> QED BY <2>1, <2>2, <3>1
  <2>6. \A i \in DOMAIN intents' : IntentOK(intents[i])'
    BY <2>5 DEF IntentOK, kind
  <2>7. Intended' \subseteq Intended \cup {x.symbol}
    BY <2>1, <2>2, <2>3 DEF Intended
  <2> QED BY <2>1, <2>4, <2>6, <2>7 DEF IntentsOK
<1> QED BY <1>1, <1>2 DEF Record

-----------------------------------------------------------------------------
(* The invariant *)

Running == step \in {"evaluate", "gather", "sell", "buy"}

RowsMatch ==
  /\ orders = {} /\ OpenRows(rows) = DOMAIN holdings
  /\ \A s \in DOMAIN holdings : rows[s].qty = holdings[s].qty

\* Which symbols the loops of an iteration have yet to visit.
Visits ==
  /\ step = "evaluate" => kind # "momentum" /\ todo \cap Intended = {}
  /\ step = "gather" => intents = <<>>
  /\ step = "sell" => /\ accepted = {} /\ Intended \subseteq exited
                     /\ todo \subseteq DOMAIN held /\ DOMAIN held \cap exited = {}
  /\ step \in {"sell", "buy"} =>
       /\ DOMAIN held \subseteq OpenRows(rows) /\ OpenRows(rows) \subseteq DOMAIN held \cup exited
  /\ step = "buy" => Intended \subseteq exited \cup accepted /\ todo \cap accepted = {}

Fits(o) ==
  /\ \A p \in orders : p.symbol = o.symbol => p = o
  /\ o.side = "SELL" => o.symbol \in DOMAIN holdings /\ o.qty <= holdings[o.symbol].qty
  /\ o.side = "BUY" /\ kind = "momentum" => o.symbol \notin DOMAIN holdings
OrdersFit == \A o \in orders : Fits(o)

\* What a live iteration relies on, while no fill came between two reads.
Progress ==
  /\ step = "orders" => seen = holdings
  /\ Running => RowsMatch
  /\ Running \/ step = "submit" => IntentsOK
  /\ step = "submit" => \A i \in DOMAIN intents, o \in orders : intents[i].symbol # o.symbol
  /\ Visits
  /\ OrdersFit

FitInv ==
  /\ RowsOK
  /\ mode # "live" => orders = {} /\ step # "submit"
  /\ mode = "live" /\ ~raced => Progress

LEMMA FitInit == Init => FitInv
<1> SUFFICES ASSUME Init PROVE FitInv
  OBVIOUS
<1>1. RowsOK
  BY DEF Init, RowsOK
<1>2. orders = {} /\ step = "idle"
  BY DEF Init
<1>3. Progress
  BY <1>2 DEF Progress, Running, Visits, OrdersFit
<1> QED BY <1>1, <1>2, <1>3 DEF FitInv

\* A step of an iteration that touches neither broker nor rows.
LEMMA Iterates ==
  ASSUME FitInv, UNCHANGED <<setup, broker, rows, raced>>,
         step' # "orders" \/ seen' = holdings', mode # "live" => step' # "submit",
         mode = "live" /\ ~raced =>
           /\ Running' => Running
           /\ Running' \/ step' = "submit" => IntentsOK'
           /\ step' = "submit" => \A i \in DOMAIN intents', o \in orders : intents'[i].symbol # o.symbol
           /\ Visits'
  PROVE  FitInv'
<1>1. RowsOK' /\ mode' = mode /\ kind' = kind
  BY DEF FitInv, RowsOK, mode, kind
<1>2. ASSUME mode = "live", ~raced PROVE Progress'
  <2>1. RowsMatch => RowsMatch'
    BY DEF RowsMatch, OpenRows, IsOpen, broker
  <2>2. OrdersFit => OrdersFit'
    BY <1>1 DEF OrdersFit, Fits, broker
  <2> QED BY <1>2, <2>1, <2>2 DEF FitInv, Progress, broker
<1> QED BY <1>1, <1>2 DEF FitInv, broker

LEMMA FitReads ==
  ASSUME FitInv, ReadHoldings
  PROVE  FitInv'
<1>1. step' = "orders" /\ seen' = holdings'
  BY DEF ReadHoldings, broker
<1>2. UNCHANGED <<setup, broker, rows, raced>>
  BY DEF ReadHoldings
<1>3. Visits' /\ ~Running' /\ step' # "submit"
  BY <1>1 DEF Visits, Running
<1> QED BY <1>1, <1>2, <1>3, Iterates

LEMMA FitOrders ==
  ASSUME FitInv, ReadOrders
  PROVE  FitInv'
<1>1. RowsOK'
  BY SyncedRows DEF FitInv, RowsOK, ReadOrders
<1>2. UNCHANGED <<setup, holdings, orders, raced>> /\ mode' = mode /\ kind' = kind
  BY DEF ReadOrders, broker, mode, kind
<1>3. step' \in {"gather", "evaluate", "idle"} /\ (step' = "evaluate" => kind # "momentum")
  BY DEF ReadOrders
<1>4. intents' = <<>>
  BY DEF ReadOrders
<1>5. ASSUME mode = "live", ~raced PROVE Progress'
  <2>1. step = "orders" /\ seen = holdings
    BY <1>5 DEF ReadOrders, FitInv, Progress
  <2>2. Running' => RowsMatch'
    <3> SUFFICES ASSUME step' # "idle" PROVE RowsMatch'
      BY DEF Running
    <3>1. Clean(rows', seen, orders)
      BY <1>5 DEF ReadOrders
    <3> QED BY <1>2, <2>1, <3>1 DEF Clean, RowsMatch
  <2>3. IntentsOK' /\ Intended' = {}
    <3> DEFINE q == intents'
    <3>1. q \in Seq({}) /\ DOMAIN q = {}
      BY <1>4
    <3> QED BY <3>1 DEF IntentsOK, IsSequence, Intended
  <2>4. Visits'
    BY <1>2, <1>3, <1>4, <2>3 DEF Visits
  <2>5. OrdersFit'
    BY <1>2, <1>5 DEF FitInv, Progress, OrdersFit, Fits
  <2> QED BY <1>3, <2>2, <2>3, <2>4, <2>5 DEF Progress
<1> QED BY <1>1, <1>2, <1>3, <1>5 DEF FitInv

\* Without a position a long strategy only buys.
LEMMA EntryIsBuy ==
  ASSUME NEW s, NEW bars, NEW price, NEW skip
  PROVE  \A g \in EntrySignals(<<s, "LONG">>, bars, price, skip) : g.side = "BUY"
  BY DEF EntrySignals, EntrySide, Signal

LEMMA FitEvaluate ==
  ASSUME FitInv, NEW s \in AllSymbols, Evaluate(s)
  PROVE  FitInv'
<1>1. UNCHANGED <<setup, broker, rows, raced, step>> /\ step = "evaluate"
  BY DEF Evaluate, Visit
<1>2. kind' = kind /\ todo' = todo \ {s} /\ s \in todo
  BY DEF Evaluate, Visit, kind
<1>3. ASSUME mode = "live", ~raced
      PROVE  IntentsOK' /\ Visits'
  <2>1. RowsMatch /\ IntentsOK /\ Visits
    BY <1>1, <1>3 DEF FitInv, Progress, Running
  <2>2. CASE UNCHANGED <<paper, result>>
    BY <1>1, <1>2, <2>1, <2>2 DEF result, IntentsOK, IntentOK, Visits, Intended, broker
  <2>3. ASSUME NEW price, NEW signal \in SignalsAt(s, price), Record(IntentFrom(s, signal, price))
        PROVE  IntentsOK' /\ Visits'
    <3> DEFINE x == IntentFrom(s, signal, price)
    <3>1. x.symbol = s /\ x.side = signal.side
      BY DEF IntentFrom
    <3>2. IsOpen(rows, s) \/ x.side = "BUY"
      BY <1>3, <3>1, EntryIsBuy DEF SignalsAt, Table
    <3> HIDE DEF x
    <3>3. IntentOK(x)
      BY <1>1, <2>1, <3>1, <3>2 DEF IntentOK, RowsMatch, OpenRows, IsOpen, Visits
    <3>4. s \notin Intended
      BY <1>1, <1>2, <2>1 DEF Visits
    <3>5. IntentsOK' /\ Intended' \subseteq Intended \cup {s}
      BY <1>1, <2>1, <2>3, <3>1, <3>3, <3>4, IntentAdded DEF x, broker
    <3> QED BY <1>1, <1>2, <2>1, <3>5 DEF Visits
  <2> QED BY <2>2, <2>3 DEF Evaluate
<1> QED BY <1>1, <1>3, Iterates DEF Running

LEMMA FitFails ==
  ASSUME FitInv, GatherFails \/ \E s \in AllSymbols : DataFails(s)
  PROVE  FitInv'
<1>1. CASE GatherFails
  <2>1. UNCHANGED <<setup, broker, rows, raced>> /\ step' = "idle"
    BY <1>1 DEF GatherFails
  <2>2. Visits'
    BY <2>1 DEF Visits
  <2> QED BY <2>1, <2>2, Iterates DEF Running
<1>2. ASSUME NEW s \in AllSymbols, DataFails(s) PROVE FitInv'
  <2>1. UNCHANGED <<setup, broker, rows, raced, step, intents>> /\ step = "evaluate"
        /\ todo' \subseteq todo /\ kind' = kind
    BY <1>2 DEF DataFails, Visit, kind
  <2>2. ASSUME mode = "live", ~raced PROVE IntentsOK' /\ Visits'
    <3>1. IntentsOK /\ Visits
      BY <2>1, <2>2 DEF FitInv, Progress, Running
    <3> QED BY <2>1, <3>1 DEF IntentsOK, IntentOK, Visits, Intended, broker
  <2> QED BY <2>1, <2>2, Iterates DEF Running
<1> QED BY <1>1, <1>2

LEMMA FitGather ==
  ASSUME FitInv, Gather
  PROVE  FitInv'
<1>1. UNCHANGED <<setup, broker, rows, raced, intents>> /\ step = "gather" /\ step' = "sell"
      /\ kind' = kind
  BY DEF Gather, result, kind
<1>2. ASSUME mode = "live", ~raced PROVE IntentsOK' /\ Visits'
  <2>1. IntentsOK /\ intents = <<>> /\ Intended' = {}
    BY <1>1, <1>2, NoIntents DEF FitInv, Progress, Visits, Running, Intended
  <2>2. DOMAIN held' = OpenRows(rows) /\ todo' = DOMAIN held' /\ exited' = {} /\ accepted' = {}
    <3>1. {s \in OpenRows(rows) : rows[s].system = "MOMENTUM"} = OpenRows(rows)
      BY DEF FitInv, RowsOK, LiveRow, OpenRows
    <3> QED BY <1>2, <3>1 DEF Gather, Table
  <2>3. OpenRows(rows') = OpenRows(rows)
    BY <1>1
  <2> QED BY <1>1, <2>1, <2>2, <2>3 DEF Visits, IntentsOK, IntentOK, broker
<1> QED BY <1>1, <1>2, Iterates DEF Running

LEMMA FitSell ==
  ASSUME FitInv, NEW s \in AllSymbols, SellHeld(s)
  PROVE  FitInv'
<1>1. UNCHANGED <<setup, broker, rows, raced, step, accepted>> /\ step = "sell" /\ kind' = kind
      /\ s \in todo /\ todo' = todo \ {s}
  BY DEF SellHeld, kind
<1>2. ASSUME mode = "live", ~raced PROVE IntentsOK' /\ Visits'
  <2>1. RowsMatch /\ IntentsOK /\ Visits /\ OpenRows(rows') = OpenRows(rows)
    BY <1>1, <1>2 DEF FitInv, Progress, Running
  <2>2. CASE UNCHANGED <<paper, result, held, exited>>
    BY <1>1, <2>1, <2>2 DEF result, IntentsOK, IntentOK, Visits, Intended, broker
  <2>3. CASE /\ Record(MomentumIntent(s, "SELL", held[s].qty))
             /\ held' = Restrict(held, DOMAIN held \ {s}) /\ exited' = exited \cup {s}
    <3> DEFINE x == MomentumIntent(s, "SELL", held[s].qty)
    <3>1. x.symbol = s /\ x.side = "SELL"
      BY DEF MomentumIntent
    <3> HIDE DEF x
    <3>2. s \in DOMAIN held /\ s \notin exited /\ s \in DOMAIN holdings
      BY <1>1, <2>1 DEF Visits, RowsMatch
    <3>3. IntentOK(x) /\ s \notin Intended
      BY <1>1, <2>1, <3>1, <3>2 DEF IntentOK, RowsMatch, Visits
    <3>4. IntentsOK' /\ Intended' \subseteq Intended \cup {s}
      BY <1>1, <2>1, <2>3, <3>1, <3>3, IntentAdded DEF x, broker
    <3>5. DOMAIN held' = DOMAIN held \ {s}
      BY <2>3 DEF Restrict
    <3> QED BY <1>1, <2>1, <2>3, <3>2, <3>4, <3>5 DEF Visits
  <2> QED BY <2>2, <2>3 DEF SellHeld
<1> QED BY <1>1, <1>2, Iterates DEF Running

LEMMA FitRank ==
  ASSUME FitInv, Rank
  PROVE  FitInv'
<1>1. UNCHANGED <<setup, broker, rows, raced, intents, held, exited, accepted>> /\ kind' = kind
      /\ step = "sell" /\ step' = "buy"
  BY DEF Rank, result, kind
<1>2. ASSUME mode = "live", ~raced PROVE IntentsOK' /\ Visits'
  <2>1. IntentsOK /\ Visits /\ OpenRows(rows') = OpenRows(rows)
    BY <1>1, <1>2 DEF FitInv, Progress, Running
  <2> QED BY <1>1, <2>1 DEF IntentsOK, IntentOK, Visits, Intended, broker
<1> QED BY <1>1, <1>2, Iterates DEF Running

\* What a momentum run buys is neither held nor was it just sold.
LEMMA FitBuy ==
  ASSUME FitInv, NEW s \in AllSymbols, BuyCandidate(s)
  PROVE  FitInv'
<1>1. UNCHANGED <<setup, broker, rows, raced, step, exited>> /\ step = "buy" /\ kind' = kind
      /\ s \in todo /\ todo' = todo \ {s}
  BY DEF BuyCandidate, Next1, kind
<1>2. ASSUME mode = "live", ~raced PROVE IntentsOK' /\ Visits'
  <2>1. RowsMatch /\ IntentsOK /\ Visits /\ OpenRows(rows') = OpenRows(rows)
    BY <1>1, <1>2 DEF FitInv, Progress, Running
  <2>2. CASE UNCHANGED <<paper, result, accepted, held>>
    BY <1>1, <2>1, <2>2 DEF result, IntentsOK, IntentOK, Visits, Intended, broker
  <2>3. CASE /\ Wanted(s) /\ Record(MomentumIntent(s, "BUY", MomentumQuantity(s)))
             /\ accepted' = accepted \cup {s}
             /\ held' = IF IsOpen(rows, s) THEN With(held, s, rows[s]) ELSE held
    <3> DEFINE x == MomentumIntent(s, "BUY", MomentumQuantity(s))
    <3>1. x.symbol = s /\ x.side = "BUY"
      BY DEF MomentumIntent
    <3> HIDE DEF x
    <3>2. s \notin OpenRows(rows) /\ s \notin exited
      BY <1>1, <2>1, <2>3 DEF Wanted, Visits
    <3>3. IntentOK(x) /\ s \notin Intended
      BY <1>1, <2>1, <3>1, <3>2 DEF IntentOK, RowsMatch, Visits
    <3>4. IntentsOK' /\ Intended' \subseteq Intended \cup {s}
      BY <1>1, <2>1, <2>3, <3>1, <3>3, IntentAdded DEF x, broker
    <3>5. held' = held
      BY <2>3, <3>2 DEF OpenRows, IsOpen
    <3> QED BY <1>1, <2>1, <2>3, <3>4, <3>5 DEF Visits
  <2> QED BY <1>2, <2>2, <2>3 DEF BuyCandidate
<1> QED BY <1>1, <1>2, Iterates DEF Running

LEMMA FitStopBuying ==
  ASSUME FitInv, StopBuying
  PROVE  FitInv'
<1>1. UNCHANGED <<setup, broker, rows, raced, step, intents, held, exited, accepted>> /\ kind' = kind
      /\ step = "buy" /\ todo' = {}
  BY DEF StopBuying, result, kind
<1>2. ASSUME mode = "live", ~raced PROVE IntentsOK' /\ Visits'
  <2>1. IntentsOK /\ Visits /\ OpenRows(rows') = OpenRows(rows)
    BY <1>1, <1>2 DEF FitInv, Progress, Running
  <2> QED BY <1>1, <2>1 DEF IntentsOK, IntentOK, Visits, Intended, broker
<1> QED BY <1>1, <1>2, Iterates DEF Running

LEMMA FitEndRun ==
  ASSUME FitInv, EndRun
  PROVE  FitInv'
<1>1. UNCHANGED <<setup, broker, rows, raced, intents>> /\ kind' = kind
      /\ step \in {"evaluate", "buy"}
      /\ step' = IF mode = "live" THEN "submit" ELSE "idle"
  BY DEF EndRun, result, kind
<1>2. ASSUME mode = "live", ~raced PROVE IntentsOK' /\ orders = {}
  <2>1. IntentsOK /\ RowsMatch
    BY <1>1, <1>2 DEF FitInv, Progress, Running
  <2> QED BY <1>1, <2>1 DEF IntentsOK, IntentOK, RowsMatch, broker
<1>3. Visits'
  BY <1>1 DEF Visits
<1> QED BY <1>1, <1>2, <1>3, Iterates DEF Running

LEMMA FitSubmits ==
  ASSUME FitInv, SubmitIntent
  PROVE  FitInv'
<1>1. UNCHANGED <<setup, holdings, rows, raced, step>> /\ step = "submit" /\ intents # <<>>
      /\ intents' = Tail(intents) /\ mode' = mode /\ kind' = kind
  BY DEF SubmitIntent, mode, kind
<1>2. mode = "live" /\ RowsOK'
  BY <1>1 DEF FitInv, RowsOK
<1>3. ASSUME ~raced PROVE Progress'
  <2> DEFINE x == Head(intents)
             n == Len(intents)
  <2>1. IntentsOK /\ OrdersFit /\ \A i \in DOMAIN intents, o \in orders : intents[i].symbol # o.symbol
    BY <1>1, <1>2, <1>3 DEF FitInv, Progress
  <2>2. /\ IsSequence(intents') /\ n \in Nat \ {0}
        /\ DOMAIN intents = 1..n /\ DOMAIN intents' = 1..(n - 1)
        /\ \A i \in 1..(n - 1) : intents'[i] = intents[i + 1]
        /\ x = intents[1]
    BY <1>1, <2>1, TailSequence DEF IntentsOK
  <2> HIDE DEF n, x
  <2>3. \A i \in DOMAIN intents' : i + 1 \in DOMAIN intents /\ i + 1 # 1 /\ intents'[i] = intents[i + 1]
    BY <2>2
  <2>4. 1 \in DOMAIN intents
    BY <2>2
  <2>5. IntentsOK'
    <3>1. \A i \in DOMAIN intents' : IntentOK(intents'[i])
      BY <2>1, <2>3 DEF IntentsOK
    <3>2. \A i, j \in DOMAIN intents' : intents'[i].symbol = intents'[j].symbol => i = j
      <4> TAKE i, j \in DOMAIN intents'
      <4> HAVE intents'[i].symbol = intents'[j].symbol
      <4>1. i + 1 = j + 1
        BY <2>1, <2>3 DEF IntentsOK
      <4> QED BY <2>2, <4>1
    <3> QED BY <1>1, <2>2, <3>1, <3>2 DEF IntentsOK, IntentOK
  <2>6. \A i \in DOMAIN intents' : intents'[i].symbol # x.symbol
    BY <2>1, <2>2, <2>3, <2>4 DEF IntentsOK
  <2>7. IntentOK(x) /\ \A o \in orders : o.symbol # x.symbol
    BY <2>1, <2>2, <2>4 DEF IntentsOK
  <2>8. CASE UNCHANGED orders
    <3>1. OrdersFit'
      BY <1>1, <2>1, <2>8 DEF OrdersFit, Fits
    <3>2. \A i \in DOMAIN intents', o \in orders' : intents'[i].symbol # o.symbol
      BY <2>1, <2>3, <2>8
    <3> QED BY <1>1, <2>5, <3>1, <3>2 DEF Progress, Running, Visits
  <2>9. ASSUME NEW o, o.symbol = x.symbol, o.side = x.side, o.qty = x.qty, orders' = orders \cup {o},
               x.side = "SELL" => x.qty <= rows[x.symbol].qty
        PROVE  Progress'
    <3>1. Fits(o)'
      BY <1>1, <2>7, <2>9 DEF Fits, IntentOK
    <3>2. \A p \in orders : Fits(p)'
      BY <1>1, <2>1, <2>7, <2>9 DEF OrdersFit, Fits
    <3>3. OrdersFit'
      BY <2>9, <3>1, <3>2 DEF OrdersFit
    <3>4. \A i \in DOMAIN intents', p \in orders' : intents'[i].symbol # p.symbol
      BY <2>1, <2>3, <2>6, <2>9
    <3> QED BY <1>1, <2>5, <3>3, <3>4 DEF Progress, Running, Visits
  <2> QED BY <2>8, <2>9 DEF SubmitIntent, x
<1> QED BY <1>1, <1>2, <1>3 DEF FitInv

LEMMA FitAllSubmitted ==
  ASSUME FitInv, AllSubmitted \/ NextDay
  PROVE  FitInv'
<1>1. UNCHANGED <<setup, broker, rows, raced>> /\ step' = "idle"
  BY DEF AllSubmitted, NextDay
<1>2. Visits'
  BY <1>1 DEF Visits
<1> QED BY <1>1, <1>2, Iterates DEF Running

\* A fill changes the holding of its own symbol only.
LEMMA FillChanges ==
  ASSUME NEW o \in orders, Fill(o)
  PROVE  \A t : t # o.symbol =>
           (t \in DOMAIN holdings' <=> t \in DOMAIN holdings)
           /\ (t \in DOMAIN holdings => holdings'[t] = holdings[t])
<1> TAKE t
<1> HAVE t # o.symbol
<1>1. CASE \E v : holdings' = With(holdings, o.symbol, v)
  BY <1>1 DEF With
<1>2. CASE holdings' = Restrict(holdings, DOMAIN holdings \ {o.symbol})
  BY <1>2 DEF Restrict
<1> QED BY <1>1, <1>2 DEF Fill

LEMMA FitFill ==
  ASSUME FitInv, NEW o \in orders, Fill(o)
  PROVE  FitInv'
<1>1. /\ UNCHANGED <<setup, rows, step, intents, todo, held, exited, accepted>>
      /\ mode' = mode /\ kind' = kind /\ orders' = orders \ {o}
      /\ raced' = (raced \/ step = "orders")
  BY DEF Fill, local, result, mode, kind
<1>2. mode = "live" /\ RowsOK'
  BY <1>1 DEF FitInv, RowsOK
<1>3. ASSUME ~raced' PROVE Progress'
  <2>1. ~raced /\ step # "orders" /\ Progress
    BY <1>1, <1>2, <1>3 DEF FitInv
  <2>2. ~Running /\ OrdersFit
    BY <2>1 DEF Progress, RowsMatch
  <2>3. OrdersFit'
    <3> SUFFICES ASSUME NEW p \in orders \ {o} PROVE Fits(p)'
      BY <1>1 DEF OrdersFit
    <3>1. Fits(p) /\ Fits(o)
      BY <2>2 DEF OrdersFit
    <3>2. p.symbol # o.symbol
      BY <3>1 DEF Fits
    <3> QED BY <1>1, <3>1, <3>2, FillChanges DEF Fits
  <2>4. step = "submit" =>
          /\ IntentsOK'
          /\ \A i \in DOMAIN intents', p \in orders' : intents'[i].symbol # p.symbol
    <3> SUFFICES ASSUME step = "submit"
                 PROVE  /\ IntentsOK'
                        /\ \A i \in DOMAIN intents', p \in orders' : intents'[i].symbol # p.symbol
      OBVIOUS
    <3>1. IntentsOK /\ \A i \in DOMAIN intents, p \in orders : intents[i].symbol # p.symbol
      BY <2>1 DEF Progress
    <3>2. \A i \in DOMAIN intents : IntentOK(intents[i])'
      <4> TAKE i \in DOMAIN intents
      <4>1. IntentOK(intents[i]) /\ intents[i].symbol # o.symbol
        BY <3>1 DEF IntentsOK
      <4> QED BY <1>1, <4>1, FillChanges DEF IntentOK
    <3> QED BY <1>1, <3>1, <3>2 DEF IntentsOK
  <2>5. Visits'
    BY <1>1, <2>1, <2>2 DEF Progress, Visits, Running
  <2> QED BY <1>1, <2>1, <2>2, <2>3, <2>4, <2>5 DEF Progress, Running
<1> QED BY <1>1, <1>2, <1>3 DEF FitInv

LEMMA FitLapse ==
  ASSUME FitInv, NEW o \in orders, Lapse(o)
  PROVE  FitInv'
<1>1. /\ UNCHANGED <<setup, holdings, rows, step, seen, intents, todo, held, exited, accepted, raced>>
      /\ mode' = mode /\ kind' = kind /\ orders' = orders \ {o}
  BY DEF Lapse, local, result, mode, kind
<1>2. mode = "live" /\ RowsOK'
  BY <1>1 DEF FitInv, RowsOK
<1>3. ASSUME ~raced PROVE Progress'
  <2>1. Progress
    BY <1>2, <1>3 DEF FitInv
  <2>2. OrdersFit'
    BY <1>1, <2>1 DEF Progress, OrdersFit, Fits
  <2>3. ~Running
    BY <2>1 DEF Progress, RowsMatch
  <2>4. Visits' /\ (IntentsOK => IntentsOK')
    BY <1>1, <2>1 DEF Progress, Visits, Intended, OpenRows, IsOpen, IntentsOK, IntentOK
  <2> QED BY <1>1, <2>1, <2>2, <2>3, <2>4 DEF Progress, Running
<1> QED BY <1>1, <1>2, <1>3 DEF FitInv

LEMMA FitPreserved == FitInv /\ [Next]_vars => FitInv'
<1>1. ASSUME FitInv, Next PROVE FitInv'
  BY <1>1, FitReads, FitOrders, FitEvaluate, FitFails, FitGather, FitSell, FitRank, FitBuy,
     FitStopBuying, FitEndRun, FitSubmits, FitAllSubmitted, FitFill, FitLapse DEF Next
<1>2. ASSUME FitInv, UNCHANGED vars PROVE FitInv'
  <2>1. UNCHANGED <<setup, broker, rows, step, seen, todo, held, exited, accepted, intents, raced>>
    BY <1>2 DEF vars, local, result
  <2>2. mode = "live" /\ ~raced /\ (Running \/ step = "submit") => IntentsOK'
    BY <1>2, <2>1 DEF FitInv, Progress, IntentsOK, IntentOK, broker, kind
  <2>3. mode = "live" /\ ~raced => Visits'
    BY <1>2, <2>1 DEF FitInv, Progress, Visits, Intended, OpenRows, IsOpen, kind
  <2>4. step = "orders" /\ mode = "live" /\ ~raced => seen' = holdings'
    BY <1>2, <2>1 DEF FitInv, Progress, broker
  <2>5. RowsOK' /\ mode' = mode /\ (mode = "live" /\ ~raced => Progress')
    BY <1>2, <2>1, <2>2, <2>3, <2>4
    DEF FitInv, RowsOK, Progress, RowsMatch, OpenRows, IsOpen, Running, OrdersFit, Fits, broker, mode,
        kind
  <2> QED BY <1>2, <2>1, <2>5 DEF FitInv, broker
<1> QED BY <1>1, <1>2

LEMMA FitAlways == Spec => []FitInv
  BY FitInit, FitPreserved, PTL DEF Spec

\* While a live iteration evaluates, its rows are the broker's holdings and no
\* order is open, unless an order was filled between the two reads.
THEOREM RowsAreTheBrokers == Spec => []RowsMatchBroker
<1>1. FitInv => RowsMatchBroker
  BY DEF FitInv, Progress, Running, RowsMatch, RowsMatchBroker
<1> QED BY FitAlways, <1>1, PTL

\* Under the same condition no symbol has two open orders, no sale exceeds its
\* holding, and momentum buys only what the account does not hold.
THEOREM OrdersAlwaysFit == Spec => []OrdersFitHoldings
<1>1. FitInv => OrdersFitHoldings
  BY DEF FitInv, Progress, OrdersFit, Fits, OrdersFitHoldings
<1> QED BY FitAlways, <1>1, PTL

-----------------------------------------------------------------------------
(* The slots of simulated fills *)

\* A momentum row that is open has a quantity.
PaperRow(r) ==
  /\ {"status", "qty", "units", "system"} \subseteq DOMAIN r
  /\ r.system = "MOMENTUM" /\ (r.status = "OPEN" => r.qty > 0)

PaperSlots ==
  /\ \A s \in DOMAIN paper : PaperRow(paper[s])
  /\ IsFiniteSet(OpenRows(paper)) /\ Cardinality(OpenRows(paper)) <= MaxPositions
  /\ step # "evaluate"
  /\ mode # "live" /\ step \in {"sell", "buy"} =>
       DOMAIN held = OpenRows(paper) /\ \A s \in DOMAIN held : held[s].qty > 0
  /\ mode # "live" /\ step = "sell" => todo \subseteq DOMAIN held

PaperInv == kind = "momentum" => PaperSlots

LEMMA PaperInit == Init => PaperInv
<1> SUFFICES ASSUME Init PROVE PaperSlots
  BY DEF PaperInv
<1>1. OpenRows(paper) = {} /\ DOMAIN paper = {} /\ step = "idle"
  BY DEF Init, OpenRows
<1>2. Cardinality({}) = 0 /\ IsFiniteSet({})
  BY FS_EmptySet
<1>3. Cardinality(OpenRows(paper)) = 0 /\ IsFiniteSet(OpenRows(paper))
  BY <1>1, <1>2, Zenon
<1> QED BY <1>1, <1>3, RuntimeConstantsOK DEF PaperSlots

\* A table with one row more, or another one.
LEMMA OpenWith ==
  ASSUME NEW table, NEW s, NEW r
  PROVE  OpenRows(With(table, s, r)) =
           IF r.status = "OPEN" THEN OpenRows(table) \cup {s} ELSE OpenRows(table) \ {s}
  BY DEF OpenRows, IsOpen, With

LEMMA PaperSell ==
  ASSUME PaperSlots, NEW s, SellHeld(s)
  PROVE  PaperSlots'
<1> DEFINE x == MomentumIntent(s, "SELL", held[s].qty)
<1>1. step = "sell" /\ step' = step /\ mode' = mode /\ s \in todo /\ todo' = todo \ {s}
  BY DEF SellHeld, mode
<1>2. CASE UNCHANGED <<paper, result, held, exited>>
  BY <1>1, <1>2 DEF PaperSlots, OpenRows, IsOpen
<1>3. CASE /\ Record(x)
           /\ held' = Restrict(held, DOMAIN held \ {s}) /\ exited' = exited \cup {s}
  <2>1. x.side = "SELL" /\ x.symbol = s /\ x.qty = held[s].qty /\ x.system = "MOMENTUM"
    BY DEF MomentumIntent
  <2> HIDE DEF x
  <2>2. CASE mode = "live"
    <3>1. paper' = paper
      BY <1>3, <2>2 DEF Record
    <3> QED BY <1>1, <2>2, <3>1 DEF PaperSlots, OpenRows, IsOpen
  <2>3. CASE mode # "live"
    <3>1. s \in DOMAIN held /\ held[s].qty > 0 /\ s \in OpenRows(paper) /\ s \in DOMAIN paper
      BY <1>1, <2>3 DEF PaperSlots, OpenRows
    <3>2. GuardPasses(x)
      BY <2>1, <2>3, <3>1 DEF GuardPasses, Table
    <3>3. paper' = With(paper, s, ClosedRow(paper[s]))
      BY <1>3, <2>1, <2>3, <3>2 DEF Record, FilledRow
    <3> DEFINE r == ClosedRow(paper[s])
    <3>4. PaperRow(r) /\ r.status = "CLOSED"
      BY <3>1 DEF PaperSlots, PaperRow, ClosedRow
    <3> HIDE DEF r
    <3>5. OpenRows(paper') = OpenRows(paper) \ {s}
      BY <3>3, <3>4, OpenWith DEF r
    <3>6. \A t \in DOMAIN paper' : PaperRow(paper'[t])
      BY <3>3, <3>4 DEF With, PaperSlots, r
    <3>7. DOMAIN held' = DOMAIN held \ {s} /\ \A t \in DOMAIN held' : held'[t] = held[t]
      BY <1>3 DEF Restrict
    <3>8. IsFiniteSet(OpenRows(paper')) /\ Cardinality(OpenRows(paper')) <= MaxPositions
      <4>1. IsFiniteSet(OpenRows(paper)) /\ OpenRows(paper') \in SUBSET OpenRows(paper)
        BY <3>5 DEF PaperSlots
      <4>2. /\ IsFiniteSet(OpenRows(paper')) /\ Cardinality(OpenRows(paper')) <= Cardinality(OpenRows(paper))
            /\ Cardinality(OpenRows(paper')) \in Nat /\ Cardinality(OpenRows(paper)) \in Nat
        BY <4>1, FS_Subset, FS_CardinalityType
      <4> QED BY <4>2, RuntimeConstantsOK DEF PaperSlots
    <3> QED BY <1>1, <2>3, <3>5, <3>6, <3>7, <3>8 DEF PaperSlots
  <2> QED BY <2>2, <2>3
<1> QED BY <1>2, <1>3 DEF SellHeld

LEMMA PaperBuy ==
  ASSUME PaperSlots, NEW s, BuyCandidate(s)
  PROVE  PaperSlots'
<1> DEFINE x == MomentumIntent(s, "BUY", MomentumQuantity(s))
<1>1. step = "buy" /\ step' = step /\ mode' = mode /\ ~(Cardinality(DOMAIN held) >= MaxPositions)
  BY DEF BuyCandidate, Next1, BuyLimit, mode
<1>2. CASE UNCHANGED <<paper, result, accepted, held>>
  BY <1>1, <1>2 DEF PaperSlots, OpenRows, IsOpen
<1>3. CASE /\ Wanted(s) /\ Record(x)
           /\ held' = IF mode # "live" THEN With(held, s, paper'[s])
                      ELSE IF IsOpen(rows, s) THEN With(held, s, rows[s]) ELSE held
  <2>1. x.side = "BUY" /\ x.symbol = s /\ x.qty = MomentumQuantity(s) /\ x.system = "MOMENTUM"
    BY DEF MomentumIntent
  <2>2. x.qty > 0 /\ s \notin DOMAIN held
    BY <1>3, <2>1 DEF Wanted
  <2> HIDE DEF x
  <2>3. CASE mode = "live"
    <3>1. paper' = paper
      BY <1>3, <2>3 DEF Record
    <3> QED BY <1>1, <2>3, <3>1 DEF PaperSlots, OpenRows, IsOpen
  <2>4. CASE mode # "live"
    <3>1. DOMAIN held = OpenRows(paper) /\ ~IsOpen(paper, s)
      BY <1>1, <2>2, <2>4 DEF PaperSlots, OpenRows, IsOpen
    <3>2. GuardPasses(x)
      BY <2>1, <2>2 DEF GuardPasses
    <3> DEFINE r == Bought(x)
    <3>3. paper' = With(paper, s, r)
      BY <1>3, <2>1, <2>4, <3>2 DEF Record, FilledRow
    <3>4. PaperRow(r) /\ r.status = "OPEN"
      BY <2>1, <2>2, <3>1 DEF Bought, PaperRow
    <3> HIDE DEF r
    <3>5. OpenRows(paper') = OpenRows(paper) \cup {s}
      BY <3>3, <3>4, OpenWith
    <3>6. \A t \in DOMAIN paper' : PaperRow(paper'[t])
      BY <3>3, <3>4 DEF With, PaperSlots
    <3>7. DOMAIN held' = OpenRows(paper') /\ \A t \in DOMAIN held' : held'[t].qty > 0
      <4>1. held' = With(held, s, r)
        BY <1>3, <2>4, <3>3 DEF With
      <4> QED BY <1>1, <2>4, <3>1, <3>4, <3>5, <4>1 DEF With, PaperSlots, PaperRow
    <3>8. IsFiniteSet(OpenRows(paper')) /\ Cardinality(OpenRows(paper')) <= MaxPositions
      <4>1. IsFiniteSet(OpenRows(paper)) /\ Cardinality(OpenRows(paper)) \in Nat
        BY FS_CardinalityType DEF PaperSlots
      <4>2. /\ IsFiniteSet(OpenRows(paper) \cup {s})
            /\ Cardinality(OpenRows(paper) \cup {s}) <= Cardinality(OpenRows(paper)) + 1
        BY <4>1, FS_AddElement
      <4>3. Cardinality(OpenRows(paper)) < MaxPositions
        BY <1>1, <3>1, <4>1, RuntimeConstantsOK
      <4>4. Cardinality(OpenRows(paper) \cup {s}) \in Nat
        BY <4>2, FS_CardinalityType
      <4>5. Cardinality(OpenRows(paper) \cup {s}) <= MaxPositions
        BY <4>1, <4>2, <4>3, <4>4, RuntimeConstantsOK
      <4> QED BY <3>5, <4>2, <4>5
    <3> QED BY <1>1, <2>4, <3>6, <3>7, <3>8 DEF PaperSlots
  <2> QED BY <2>3, <2>4
<1> QED BY <1>2, <1>3 DEF BuyCandidate

LEMMA PaperPreserved == PaperInv /\ [Next]_vars => PaperInv'
<1> SUFFICES ASSUME PaperInv, [Next]_vars, kind' = "momentum" PROVE PaperSlots'
  BY DEF PaperInv
<1>1. kind = "momentum" /\ mode' = mode
  BY DEF Next, vars, kind, mode, ReadHoldings, ReadOrders, Gather, GatherFails, Rank, StopBuying, EndRun,
         SubmitIntent, AllSubmitted, NextDay, Evaluate, DataFails, SellHeld, BuyCandidate, Fill, Lapse
<1>2. PaperSlots
  BY <1>1 DEF PaperInv
<1>3. ASSUME paper' = paper, step' \notin {"evaluate", "sell", "buy"} PROVE PaperSlots'
  BY <1>2, <1>3 DEF PaperSlots, OpenRows, IsOpen
<1>4. CASE ReadHoldings \/ ReadOrders \/ GatherFails \/ EndRun \/ AllSubmitted \/ NextDay
  BY <1>1, <1>3, <1>4 DEF ReadHoldings, ReadOrders, GatherFails, EndRun, AllSubmitted, NextDay
<1>5. CASE SubmitIntent \/ \E o \in orders : Fill(o) \/ Lapse(o)
  BY <1>1, <1>2, <1>5 DEF SubmitIntent, Fill, Lapse, local, PaperSlots, OpenRows, IsOpen
<1>6. CASE Gather
  <2>1. paper' = paper /\ step' = "sell" /\ todo' = DOMAIN held'
    BY <1>6 DEF Gather
  <2>2. ASSUME mode # "live"
        PROVE  DOMAIN held' = OpenRows(paper) /\ \A s \in DOMAIN held' : held'[s].qty > 0
    <3>1. held' = [s \in {t \in OpenRows(paper) : paper[t].system = "MOMENTUM"} |-> paper[s]]
      BY <1>6, <2>2 DEF Gather, Table
    <3>2. \A s \in OpenRows(paper) : paper[s].system = "MOMENTUM" /\ paper[s].qty > 0
      BY <1>2 DEF PaperSlots, PaperRow, OpenRows, IsOpen
    <3> QED BY <3>1, <3>2
  <2>3. OpenRows(paper') = OpenRows(paper)
    BY <2>1
  <2> QED BY <1>1, <1>2, <2>1, <2>2, <2>3 DEF PaperSlots
<1>7. CASE Rank \/ StopBuying
  BY <1>1, <1>2, <1>7 DEF Rank, StopBuying, PaperSlots, OpenRows, IsOpen
<1>8. ASSUME NEW s \in AllSymbols, Evaluate(s) \/ DataFails(s) PROVE PaperSlots'
  BY <1>2, <1>8 DEF Evaluate, DataFails, Visit, PaperSlots
<1>9. ASSUME NEW s \in AllSymbols, SellHeld(s) \/ BuyCandidate(s) PROVE PaperSlots'
  BY <1>2, <1>9, PaperSell, PaperBuy
<1>10. CASE UNCHANGED vars
  BY <1>1, <1>2, <1>10 DEF vars, local, PaperSlots, OpenRows, IsOpen
<1> QED BY <1>4, <1>5, <1>6, <1>7, <1>8, <1>9, <1>10 DEF Next

LEMMA PaperAlways == Spec => []PaperInv
  BY PaperInit, PaperPreserved, PTL DEF Spec

-----------------------------------------------------------------------------
(* The slots of a live account *)

LiveSlotsOK ==
  /\ IsFiniteSet(DOMAIN holdings) /\ unsold \subseteq DOMAIN holdings
  /\ IsFiniteSet(Occupied) /\ Cardinality(Occupied) <= LiveSlots
  /\ step \notin {"sell", "buy", "submit"} => intents = <<>>
  /\ IsFiniteSet(accepted)
  /\ step \in {"sell", "buy"} => exited \subseteq Due("SELL") \cup unsold /\ Due("BUY") \subseteq accepted

LiveInv == kind = "momentum" /\ mode = "live" /\ ~raced => LiveSlotsOK

\* What an account holds to begin with fits as well.
OwnFits == \A h \in OwnHoldings : IsFiniteSet(DOMAIN h) /\ Cardinality(DOMAIN h) <= LiveSlots

LEMMA LiveSlotsEnough == LiveSlots \in Nat /\ MaxPositions - 1 + AcceptTopN <= LiveSlots /\ MaxPositions <= LiveSlots
<1>1. \E m \in {AcceptTopN, 1} : \A n \in {AcceptTopN, 1} : m >= n
  <2>1. CASE AcceptTopN >= 1
    BY <2>1, RuntimeConstantsOK
  <2>2. CASE ~(AcceptTopN >= 1)
    BY <2>2, RuntimeConstantsOK
  <2> QED BY <2>1, <2>2
<1>2. Max({AcceptTopN, 1}) \in {AcceptTopN, 1} /\ Max({AcceptTopN, 1}) >= AcceptTopN /\ Max({AcceptTopN, 1}) >= 1
  BY <1>1 DEF Max
<1> QED BY <1>2, RuntimeConstantsOK DEF LiveSlots

LEMMA DueIs ==
  ASSUME NEW side, NEW t
  PROVE  t \in Due(side) <=>
           \/ \E o \in orders : o.side = side /\ o.symbol = t
           \/ \E i \in DOMAIN intents : intents[i].side = side /\ intents[i].symbol = t
  BY DEF Due

LEMMA FewerOccupied ==
  ASSUME IsFiniteSet(Occupied), Cardinality(Occupied) <= LiveSlots, Occupied' \subseteq Occupied
  PROVE  IsFiniteSet(Occupied') /\ Cardinality(Occupied') <= LiveSlots
<1>1. Occupied' \in SUBSET Occupied
  OBVIOUS
<1>2. /\ IsFiniteSet(Occupied') /\ Cardinality(Occupied') <= Cardinality(Occupied)
      /\ Cardinality(Occupied') \in Nat /\ Cardinality(Occupied) \in Nat
  BY <1>1, FS_Subset, FS_CardinalityType
<1> QED BY <1>2, LiveSlotsEnough

\* An intent is recorded as one to buy or to sell, or a sale fails.
LEMMA DueRecorded ==
  ASSUME IntentsOK, NEW x, Record(x), orders' = orders
  PROVE  /\ \A side, t : t \in Due(side)' => t \in Due(side) \/ (x.side = side /\ t = x.symbol)
         /\ \A side, t : t \in Due(side) => t \in Due(side)'
         /\ unsold \subseteq unsold' /\ unsold' \subseteq unsold \cup {x.symbol}
         /\ x.side # "SELL" => unsold' = unsold
         /\ x.side = "SELL" => x.symbol \in Due("SELL")' \cup unsold'
<1>1. CASE GuardPasses(x)
  <2>1. intents' = Append(intents, x) /\ unsold' = unsold
    BY <1>1 DEF Record
  <2> DEFINE n == Len(intents)
  <2>2. /\ n \in Nat /\ DOMAIN intents = 1..n /\ DOMAIN intents' = 1..(n + 1)
        /\ \A i \in 1..n : intents'[i] = intents[i]
        /\ intents'[n + 1] = x
    BY <2>1, AppendSequence DEF IntentsOK
  <2> HIDE DEF n
  <2>3. \A i \in DOMAIN intents' : (i \in DOMAIN intents /\ intents'[i] = intents[i]) \/ intents'[i] = x
    BY <2>2
  <2>4. \A i \in DOMAIN intents : i \in DOMAIN intents' /\ intents'[i] = intents[i]
    BY <2>2
  <2>5. n + 1 \in DOMAIN intents'
    BY <2>2
  <2>6. \A side, t : t \in Due(side)' => t \in Due(side) \/ (x.side = side /\ t = x.symbol)
    BY <2>3 DEF Due
  <2>7. \A side, t : t \in Due(side) => t \in Due(side)'
    BY <2>4 DEF Due
  <2>8. x.side = "SELL" => x.symbol \in Due("SELL")'
    BY <2>2, <2>5 DEF Due
  <2> QED BY <2>1, <2>6, <2>7, <2>8
<1>2. CASE ~GuardPasses(x)
  <2>1. intents' = intents /\ unsold' = IF x.side = "SELL" THEN unsold \cup {x.symbol} ELSE unsold
    BY <1>2 DEF Record, NotCarriedOut
  <2> QED BY <2>1 DEF Due
<1> QED BY <1>1, <1>2

\* A step that leaves the account, its orders and the intents alone.
LEMMA LiveStays ==
  ASSUME LiveSlotsOK, UNCHANGED <<holdings, orders, intents, unsold>>,
         step' \notin {"sell", "buy", "submit"} => intents = <<>>,
         accepted' = accepted \/ accepted' = {},
         step' \in {"sell", "buy"} => exited' \subseteq Due("SELL") \cup unsold /\ Due("BUY") \subseteq accepted'
  PROVE  LiveSlotsOK'
<1>1. Occupied' = Occupied /\ Due("SELL")' = Due("SELL") /\ Due("BUY")' = Due("BUY")
  BY DEF Occupied, Due
<1>2. IsFiniteSet(accepted')
  BY FS_EmptySet DEF LiveSlotsOK
<1> QED BY <1>1, <1>2 DEF LiveSlotsOK

LEMMA LiveSell ==
  ASSUME LiveSlotsOK, RowsMatch, IntentsOK, Visits, NEW s, SellHeld(s)
  PROVE  LiveSlotsOK'
<1> DEFINE x == MomentumIntent(s, "SELL", held[s].qty)
<1>1. step = "sell" /\ step' = step /\ UNCHANGED <<holdings, orders, accepted>>
  BY DEF SellHeld, broker
<1>2. CASE UNCHANGED <<paper, result, held, exited>>
  BY <1>1, <1>2, LiveStays DEF result, LiveSlotsOK
<1>3. CASE Record(x) /\ exited' = exited \cup {s}
  <2>1. x.side = "SELL" /\ x.symbol = s
    BY DEF MomentumIntent
  <2> HIDE DEF x
  <2>2. /\ \A t : t \in Due("BUY")' => t \in Due("BUY")
        /\ \A t : t \in Due("SELL") => t \in Due("SELL")'
        /\ unsold \subseteq unsold' /\ unsold' \subseteq unsold \cup {s}
        /\ s \in Due("SELL")' \cup unsold'
    BY <1>1, <1>3, <2>1, DueRecorded
  <2>4. s \in DOMAIN holdings
    BY <1>1 DEF SellHeld, Visits, RowsMatch
  <2>3. Occupied' \subseteq Occupied
    BY <1>1, <2>2 DEF Occupied
  <2> QED BY <1>1, <1>3, <2>2, <2>3, <2>4, FewerOccupied DEF LiveSlotsOK
<1> QED BY <1>2, <1>3 DEF SellHeld

LEMMA LiveBuy ==
  ASSUME LiveSlotsOK, RowsMatch, IntentsOK, Visits, NEW s, BuyCandidate(s)
  PROVE  LiveSlotsOK'
<1> DEFINE x == MomentumIntent(s, "BUY", MomentumQuantity(s))
<1>1. step = "buy" /\ step' = step /\ UNCHANGED <<holdings, orders, exited>> /\ ~BuyLimit
  BY DEF BuyCandidate, Next1, broker
<1>2. CASE UNCHANGED <<paper, result, accepted, held>>
  BY <1>1, <1>2, LiveStays DEF result, LiveSlotsOK
<1>3. CASE Record(x) /\ accepted' = accepted \cup {s}
  <2>1. x.side = "BUY" /\ x.symbol = s
    BY DEF MomentumIntent
  <2> HIDE DEF x
  <2>2. /\ \A t : t \in Due("BUY")' => t \in Due("BUY") \/ t = s
        /\ \A t : t \in Due("SELL")' <=> t \in Due("SELL")
        /\ unsold' = unsold
    BY <1>1, <1>3, <2>1, DueRecorded
  <2>3. /\ IsFiniteSet(accepted') /\ Cardinality(accepted') <= AcceptTopN
    <3>1. IsFiniteSet(accepted) /\ Cardinality(accepted) \in Nat /\ Cardinality(accepted) < AcceptTopN
      BY <1>1, FS_CardinalityType, RuntimeConstantsOK DEF LiveSlotsOK, BuyLimit
    <3>2. IsFiniteSet(accepted \cup {s}) /\ Cardinality(accepted \cup {s}) <= Cardinality(accepted) + 1
      <4>1. IsFiniteSet(accepted) /\ Cardinality(accepted) \in Nat
        BY <3>1
      <4> QED BY <4>1, FS_AddElement
    <3>3. Cardinality(accepted \cup {s}) \in Nat
      BY <3>2, FS_CardinalityType
    <3>4. Cardinality(accepted \cup {s}) <= AcceptTopN
      BY <3>1, <3>2, <3>3, RuntimeConstantsOK
    <3> QED BY <1>3, <3>2, <3>4
  <2>4. DOMAIN held \in SUBSET DOMAIN holdings /\ DOMAIN holdings \subseteq DOMAIN held \cup exited
    BY <1>1 DEF Visits, RowsMatch
  <2>5. IsFiniteSet(DOMAIN held) /\ Cardinality(DOMAIN held) \in Nat /\ Cardinality(DOMAIN held) <= MaxPositions - 1
    <3>1. IsFiniteSet(DOMAIN held)
      BY <2>4, FS_Subset DEF LiveSlotsOK
    <3>2. Cardinality(DOMAIN held) \in Nat
      BY <3>1, FS_CardinalityType
    <3> QED BY <1>1, <3>1, <3>2, RuntimeConstantsOK DEF BuyLimit
  <2>6. Occupied' \subseteq DOMAIN held \cup accepted'
    <3>1. exited \subseteq Due("SELL")' \cup unsold'
      BY <1>1, <2>2 DEF LiveSlotsOK
    <3>2. Due("BUY")' \subseteq accepted'
      BY <1>1, <1>3, <2>2 DEF LiveSlotsOK
    <3> QED BY <1>1, <2>4, <3>1, <3>2 DEF Occupied
  <2>7. IsFiniteSet(Occupied') /\ Cardinality(Occupied') <= LiveSlots
    <3> DEFINE U == DOMAIN held \cup accepted'
    <3>1. IsFiniteSet(U) /\ Cardinality(U) <= Cardinality(DOMAIN held) + Cardinality(accepted')
      <4>1. IsFiniteSet(U) /\ Cardinality(U) = Cardinality(DOMAIN held) + Cardinality(accepted')
                                               - Cardinality(DOMAIN held \cap accepted')
        BY <2>3, <2>5, FS_Union
      <4>2. Cardinality(DOMAIN held \cap accepted') \in Nat /\ Cardinality(accepted') \in Nat
        <5>1. DOMAIN held \cap accepted' \in SUBSET accepted'
          OBVIOUS
        <5>2. IsFiniteSet(DOMAIN held \cap accepted')
          BY <2>3, <5>1, FS_Subset
        <5> QED BY <2>3, <5>2, FS_CardinalityType
      <4> HIDE DEF U
      <4> QED BY <2>5, <4>1, <4>2
    <3> HIDE DEF U
    <3>2. Occupied' \in SUBSET U
      BY <2>6 DEF U
    <3>3. /\ IsFiniteSet(Occupied') /\ Cardinality(Occupied') <= Cardinality(U)
          /\ Cardinality(Occupied') \in Nat /\ Cardinality(U) \in Nat
      BY <3>1, <3>2, FS_Subset, FS_CardinalityType
    <3>4. Cardinality(accepted') \in Nat
      BY <2>3, FS_CardinalityType
    <3> QED BY <2>3, <2>5, <3>1, <3>3, <3>4, LiveSlotsEnough, RuntimeConstantsOK
  <2> QED BY <1>1, <1>3, <2>2, <2>3, <2>7 DEF LiveSlotsOK
<1> QED BY <1>2, <1>3 DEF BuyCandidate

\* An intent becomes an order, or it is dropped.
LEMMA LiveSubmit ==
  ASSUME LiveSlotsOK, IntentsOK, SubmitIntent
  PROVE  LiveSlotsOK'
<1> DEFINE x == Head(intents)
           n == Len(intents)
<1>1. step = "submit" /\ step' = step /\ UNCHANGED <<holdings, accepted>> /\ intents # <<>>
      /\ intents' = Tail(intents)
  BY DEF SubmitIntent, local
<1>2. /\ n \in Nat \ {0} /\ DOMAIN intents = 1..n /\ DOMAIN intents' = 1..(n - 1)
      /\ \A i \in 1..(n - 1) : intents'[i] = intents[i + 1]
      /\ x = intents[1]
  BY <1>1, TailSequence DEF IntentsOK
<1>3. \/ orders' = orders /\ unsold' = IF x.side = "SELL" THEN unsold \cup {x.symbol} ELSE unsold
      \/ /\ unsold' = unsold
         /\ \E o : o.symbol = x.symbol /\ o.side = x.side /\ orders' = orders \cup {o}
  BY DEF SubmitIntent, NotCarriedOut
<1> HIDE DEF x, n
<1>4. \A i \in DOMAIN intents' : i + 1 \in DOMAIN intents /\ intents'[i] = intents[i + 1]
  BY <1>2
<1>5. \A i \in DOMAIN intents : intents[i] = x \/ (i - 1 \in DOMAIN intents' /\ intents'[i - 1] = intents[i])
  <2> TAKE i \in DOMAIN intents
  <2>1. CASE i = 1
    BY <1>2, <2>1
  <2>2. CASE i # 1
    <3>1. i - 1 \in 1..(n - 1) /\ (i - 1) + 1 = i
      BY <1>2, <2>2
    <3> QED BY <1>2, <3>1
  <2> QED BY <2>1, <2>2
<1>6. 1 \in DOMAIN intents
  BY <1>2
<1>7. \A side, t : t \in Due(side)' => t \in Due(side)
  <2> SUFFICES ASSUME NEW side, NEW t, t \in Due(side)' PROVE t \in Due(side)
    OBVIOUS
  <2>1. CASE \E i \in DOMAIN intents' : intents'[i].side = side /\ intents'[i].symbol = t
    BY <1>4, <2>1, DueIs
  <2>2. CASE \E o \in orders' : o.side = side /\ o.symbol = t
    <3>1. (\E o \in orders : o.side = side /\ o.symbol = t) \/ (x.side = side /\ x.symbol = t)
      BY <1>3, <2>2
    <3> QED BY <1>2, <1>6, <3>1, DueIs
  <2> QED BY <2>1, <2>2 DEF Due
<1>8. \A t : t \in Due("SELL") => t \in Due("SELL")' \cup unsold'
  <2> SUFFICES ASSUME NEW t, t \in Due("SELL") PROVE t \in Due("SELL")' \cup unsold'
    OBVIOUS
  <2>1. CASE \E o \in orders : o.side = "SELL" /\ o.symbol = t
    <3>1. \E o \in orders' : o.side = "SELL" /\ o.symbol = t
      BY <1>3, <2>1
    <3> QED BY <3>1 DEF Due
  <2>2. CASE \E i \in DOMAIN intents : intents[i].side = "SELL" /\ intents[i].symbol = t
    <3>1. PICK i \in DOMAIN intents : intents[i].side = "SELL" /\ intents[i].symbol = t
      BY <2>2
    <3>2. CASE intents[i] = x
      <4>1. CASE orders' = orders /\ unsold' = IF x.side = "SELL" THEN unsold \cup {x.symbol} ELSE unsold
        BY <3>1, <3>2, <4>1
      <4>2. CASE \E o : o.symbol = x.symbol /\ o.side = x.side /\ orders' = orders \cup {o}
        <5>1. \E o \in orders' : o.side = "SELL" /\ o.symbol = t
          BY <3>1, <3>2, <4>2
        <5> QED BY <5>1 DEF Due
      <4> QED BY <1>3, <4>1, <4>2
    <3>3. CASE i - 1 \in DOMAIN intents' /\ intents'[i - 1] = intents[i]
      BY <3>1, <3>3 DEF Due
    <3> QED BY <1>5, <3>2, <3>3
  <2> QED BY <2>1, <2>2, DueIs
<1>9. unsold \subseteq unsold' /\ unsold' \subseteq DOMAIN holdings
  <2>1. x.side = "SELL" => x.symbol \in DOMAIN holdings
    BY <1>2, <1>6 DEF IntentsOK, IntentOK
  <2> QED BY <1>3, <2>1 DEF LiveSlotsOK
<1>10. Occupied' \subseteq Occupied
  BY <1>1, <1>7, <1>8, <1>9 DEF Occupied
<1> QED BY <1>1, <1>9, <1>10, FewerOccupied DEF LiveSlotsOK

\* A purchase takes the slot that its order had, a sale gives its slot up.
LEMMA LiveFill ==
  ASSUME LiveSlotsOK, OrdersFit, step \notin {"sell", "buy"}, NEW o \in orders, Fill(o),
         step # "submit" => intents = <<>>,
         step = "submit" => \A i \in DOMAIN intents : intents[i].symbol # o.symbol
  PROVE  LiveSlotsOK'
<1>1. /\ UNCHANGED <<step, intents, accepted, exited>> /\ orders' = orders \ {o}
      /\ unsold' = (IF o.side = "SELL" THEN unsold \cup {o.symbol} ELSE unsold) \cap DOMAIN holdings'
  BY DEF Fill, local
<1>2. /\ \A t : t # o.symbol => (t \in DOMAIN holdings' <=> t \in DOMAIN holdings)
      /\ DOMAIN holdings' \subseteq DOMAIN holdings \cup {o.symbol}
  BY FillChanges
<1>3. \A p \in orders' : p \in orders /\ p.symbol # o.symbol
  BY <1>1 DEF OrdersFit, Fits
<1>4. \A i \in DOMAIN intents : intents[i].symbol # o.symbol
  <2>1. CASE intents = <<>>
    BY <2>1
  <2> QED BY <2>1 DEF LiveSlotsOK
<1>5. \A side, t : t \in Due(side)' <=> t \in Due(side) /\ t # o.symbol
  <2> TAKE side, t
  <2>1. CASE t = o.symbol
    BY <1>1, <1>3, <1>4, <2>1 DEF Due
  <2>2. CASE t # o.symbol
    <3>1. (\E p \in orders' : p.side = side /\ p.symbol = t) <=> \E p \in orders : p.side = side /\ p.symbol = t
      BY <1>1, <2>2
    <3> QED BY <1>1, <2>2, <3>1 DEF Due
  <2> QED BY <2>1, <2>2
<1>6. Occupied' \subseteq Occupied
  <2> SUFFICES ASSUME NEW t \in Occupied' PROVE t \in Occupied
    OBVIOUS
  <2>1. t \notin unsold' /\ ((t \in DOMAIN holdings' /\ t \notin Due("SELL")') \/ t \in Due("BUY")')
    BY DEF Occupied
  <2>2. CASE t # o.symbol
    <3>1. t \in unsold => t \in unsold'
      BY <1>1, <1>2, <2>2 DEF LiveSlotsOK
    <3> QED BY <1>2, <1>5, <2>1, <2>2, <3>1 DEF Occupied
  <2>3. CASE t = o.symbol
    <3>1. t \in DOMAIN holdings' /\ t \notin unsold'
      BY <1>5, <2>1, <2>3
    <3>2. o.side = "BUY"
      BY <1>1, <2>3, <3>1 DEF Fill
    <3>3. t \in Due("BUY")
      BY <2>3, <3>2 DEF Due
    <3>4. t \notin unsold
      BY <1>1, <3>1
    <3> QED BY <3>3, <3>4 DEF Occupied
  <2> QED BY <2>2, <2>3
<1>7. IsFiniteSet(DOMAIN holdings')
  <2>1. IsFiniteSet(DOMAIN holdings \cup {o.symbol})
    BY FS_AddElement DEF LiveSlotsOK
  <2>2. DOMAIN holdings' \in SUBSET (DOMAIN holdings \cup {o.symbol})
    BY <1>2
  <2> QED BY <2>1, <2>2, FS_Subset
<1> QED BY <1>1, <1>6, <1>7, FewerOccupied DEF LiveSlotsOK

LEMMA LiveLapse ==
  ASSUME LiveSlotsOK, OrdersFit, step \notin {"sell", "buy"}, NEW o \in orders, Lapse(o)
  PROVE  LiveSlotsOK'
<1>1. /\ UNCHANGED <<step, holdings, intents, accepted>> /\ orders' = orders \ {o}
      /\ unsold' = IF o.side = "SELL" THEN unsold \cup {o.symbol} ELSE unsold
  BY DEF Lapse, local, NotCarriedOut
<1>2. \A side, t : t \in Due(side)' => t \in Due(side)
  BY <1>1 DEF Due
<1>3. \A t : t \in Due("SELL") => t \in Due("SELL")' \cup unsold'
  BY <1>1 DEF Due
<1>4. unsold \subseteq unsold' /\ unsold' \subseteq DOMAIN holdings
  BY <1>1 DEF LiveSlotsOK, OrdersFit, Fits
<1>5. Occupied' \subseteq Occupied
  BY <1>1, <1>2, <1>3, <1>4 DEF Occupied
<1> QED BY <1>1, <1>4, <1>5, FewerOccupied DEF LiveSlotsOK

LEMMA LiveInit == ASSUME OwnFits, Init PROVE LiveInv
<1> SUFFICES LiveSlotsOK
  BY DEF LiveInv
<1>1. /\ holdings \in OwnHoldings /\ orders = {} /\ intents = <<>> /\ unsold = {} /\ step = "idle"
      /\ accepted = {}
  BY DEF Init
<1>2. Occupied = DOMAIN holdings
  <2>1. \A side, t : t \notin Due(side)
    BY <1>1 DEF Due
  <2> QED BY <1>1, <2>1 DEF Occupied
<1>3. IsFiniteSet(DOMAIN holdings) /\ Cardinality(DOMAIN holdings) <= LiveSlots
  BY <1>1 DEF OwnFits
<1>4. IsFiniteSet(Occupied) /\ Cardinality(Occupied) <= LiveSlots
  BY <1>2, <1>3, Zenon
<1> QED BY <1>1, <1>3, <1>4, FS_EmptySet DEF LiveSlotsOK

LEMMA LivePreserved == FitInv /\ LiveInv /\ [Next]_vars => LiveInv'
<1> SUFFICES ASSUME FitInv, LiveInv, [Next]_vars, kind' = "momentum", mode' = "live", ~raced'
             PROVE  LiveSlotsOK'
  BY DEF LiveInv
<1>1. kind = "momentum" /\ mode = "live" /\ ~raced
  <2>1. setup' = setup /\ (raced' = raced \/ raced' = (raced \/ step = "orders"))
    <3>1. ASSUME NEW o \in orders, Fill(o) PROVE setup' = setup /\ raced' = (raced \/ step = "orders")
      BY <3>1 DEF Fill
    <3>2. CASE ReadHoldings \/ ReadOrders \/ Gather \/ GatherFails \/ Rank \/ StopBuying \/ EndRun
               \/ SubmitIntent \/ AllSubmitted \/ NextDay \/ UNCHANGED vars
      BY <3>2 DEF vars, ReadHoldings, ReadOrders, Gather, GatherFails, Rank, StopBuying, EndRun,
                  SubmitIntent, AllSubmitted, NextDay
    <3>3. ASSUME NEW s, Evaluate(s) \/ DataFails(s) \/ SellHeld(s) \/ BuyCandidate(s)
          PROVE  setup' = setup /\ raced' = raced
      BY <3>3 DEF Evaluate, DataFails, SellHeld, BuyCandidate
    <3>4. ASSUME NEW o, Lapse(o) PROVE setup' = setup /\ raced' = raced
      BY <3>4 DEF Lapse
    <3> QED BY <3>1, <3>2, <3>3, <3>4 DEF Next
  <2>2. ~raced
    BY <2>1
  <2> QED BY <2>1, <2>2 DEF kind, mode
<1>2. LiveSlotsOK /\ Progress
  BY <1>1 DEF LiveInv, FitInv
<1>3. CASE ReadHoldings \/ AllSubmitted \/ NextDay
  BY <1>2, <1>3, LiveStays DEF ReadHoldings, AllSubmitted, NextDay, LiveSlotsOK, broker, local, result
<1>4. CASE ReadOrders
  <2>1. UNCHANGED <<holdings, orders, intents, unsold, accepted>> /\ step' \notin {"sell", "buy"} /\ intents = <<>>
    BY <1>2, <1>4 DEF ReadOrders, LiveSlotsOK, broker
  <2> QED BY <1>2, <2>1, LiveStays
<1>5. CASE Gather
  <2>1. UNCHANGED <<holdings, orders, intents, unsold>> /\ step' = "sell" /\ exited' = {} /\ accepted' = {}
    BY <1>5 DEF Gather, broker, result
  <2>2. intents = <<>> /\ orders = {}
    BY <1>2, <1>5 DEF Gather, LiveSlotsOK, Progress, Running, RowsMatch
  <2>3. Due("BUY") = {}
    BY <2>2 DEF Due
  <2> QED BY <1>2, <2>1, <2>3, LiveStays
<1>6. CASE GatherFails
  <2>1. UNCHANGED <<holdings, orders, intents, unsold, accepted>> /\ step' = "idle" /\ intents = <<>>
    BY <1>2, <1>6 DEF GatherFails, LiveSlotsOK, broker
  <2> QED BY <1>2, <2>1, LiveStays
<1>7. CASE Rank \/ StopBuying
  BY <1>2, <1>7, LiveStays DEF Rank, StopBuying, LiveSlotsOK, broker, result
<1>8. CASE EndRun
  <2>1. UNCHANGED <<holdings, orders, intents, unsold>> /\ step' = "submit" /\ accepted' = {}
    BY <1>1, <1>8 DEF EndRun, broker, result
  <2> QED BY <1>2, <2>1, LiveStays
<1>9. CASE SubmitIntent
  BY <1>2, <1>9, LiveSubmit DEF Progress, SubmitIntent
<1>10. ASSUME NEW s \in AllSymbols, Evaluate(s) \/ DataFails(s) PROVE FALSE
  BY <1>1, <1>2, <1>10 DEF Evaluate, DataFails, Visit, Progress, Visits
<1>11. ASSUME NEW s \in AllSymbols, SellHeld(s) PROVE LiveSlotsOK'
  BY <1>2, <1>11, LiveSell DEF Progress, Running, SellHeld
<1>12. ASSUME NEW s \in AllSymbols, BuyCandidate(s) PROVE LiveSlotsOK'
  BY <1>2, <1>12, LiveBuy DEF Progress, Running, BuyCandidate, Next1
<1>13. ASSUME NEW o \in orders, Fill(o) PROVE LiveSlotsOK'
  <2>1. step # "orders"
    BY <1>13 DEF Fill
  <2>2. ~Running /\ OrdersFit
    BY <1>2, <1>13 DEF Progress, RowsMatch
  <2>3. step = "submit" => \A i \in DOMAIN intents : intents[i].symbol # o.symbol
    BY <1>2 DEF Progress
  <2>4. step # "submit" => intents = <<>>
    BY <1>2, <2>1, <2>2 DEF LiveSlotsOK, Running
  <2> QED BY <1>2, <1>13, <2>2, <2>3, <2>4, LiveFill DEF Running
<1>14. ASSUME NEW o \in orders, Lapse(o) PROVE LiveSlotsOK'
  <2>1. ~Running /\ OrdersFit
    BY <1>2, <1>14 DEF Progress, RowsMatch
  <2> QED BY <1>2, <1>14, <2>1, LiveLapse DEF Running
<1>15. CASE UNCHANGED vars
  BY <1>2, <1>15, LiveStays DEF vars, LiveSlotsOK, broker, local, result
<1> QED BY <1>3, <1>4, <1>5, <1>6, <1>7, <1>8, <1>9, <1>10, <1>11, <1>12, <1>13, <1>14, <1>15 DEF Next

\* Where fills are simulated momentum keeps within max_positions.  A live account
\* that starts within LiveSlots stays within them, counting what it holds or is
\* about to buy without what it is about to sell or could not sell, unless an
\* order was filled between the two reads of a reconcile.
THEOREM SlotsAreKept == ASSUME OwnFits PROVE Spec => []MomentumSlots
<1>1. FitInv /\ PaperInv /\ LiveInv => MomentumSlots
  BY DEF PaperInv, PaperSlots, LiveInv, LiveSlotsOK, MomentumSlots
<1>2. Init => LiveInv
  BY LiveInit
<1> QED BY FitAlways, PaperAlways, LivePreserved, <1>1, <1>2, PTL DEF Spec

-----------------------------------------------------------------------------
(* Types *)

Holding == [qty : Nat \ {0}, cost : Nat]
Order == [symbol : AllSymbols, side : {"BUY", "SELL"}, qty : Nat \ {0}, price : Price]
Intent == [symbol : AllSymbols, side : {"BUY", "SELL"}, kind : {"ENTRY", "PYRAMID", "STOP", "EXIT"},
           system : Systems \cup {"MOMENTUM"}, qty : Int, price : Price, n : Nat, stop : Int]

GoodRow(r) == /\ r \in Row
              /\ r.status = "OPEN" <=> r.qty > 0
              /\ r.status = "OPEN" <=> r.units > 0

RowsTyped(table) == DOMAIN table \subseteq AllSymbols /\ \A s \in DOMAIN table : GoodRow(table[s])
HoldingsTyped(h) == DOMAIN h \subseteq AllSymbols /\ \A s \in DOMAIN h : h[s] \in Holding

CalendarTyped ==
  /\ setup \in Setups /\ day \in 1..Len(Days)
  /\ today \in [AllSymbols -> Bar] /\ histories \in [AllSymbols -> Seq(Bar)]

PlaceTyped ==
  /\ step \in {"idle", "orders", "evaluate", "gather", "sell", "buy", "submit"}
  /\ todo \subseteq AllSymbols
  /\ step \in {"sell", "buy"} => prices \in [AllSymbols -> Price]
  /\ step = "sell" => todo \subseteq DOMAIN held

BrokerTyped == HoldingsTyped(holdings) /\ HoldingsTyped(seen) /\ orders \subseteq Order

IntentsTyped == intents \in Seq({x \in Intent : x.qty > 0})

TypeInv ==
  /\ CalendarTyped /\ PlaceTyped /\ BrokerTyped /\ IntentsTyped
  /\ RowsTyped(rows) /\ RowsTyped(paper) /\ RowsTyped(held)

LEMMA TypeStart == Init => TypeInv
<1> SUFFICES ASSUME Init PROVE TypeInv
  OBVIOUS
<1>1. Days[1] \in SUBSET [AllSymbols -> Bar] /\ 1 \in 1..Len(Days)
  BY RuntimeConstantsOK
<1>2. CalendarTyped
  BY <1>1, RuntimeConstantsOK DEF Init, CalendarTyped
<1>3. \A f : f = <<>> => DOMAIN f = {}
  OBVIOUS
<1>4. DOMAIN seen = {} /\ DOMAIN rows = {} /\ DOMAIN paper = {} /\ DOMAIN held = {}
  BY <1>3 DEF Init
<1>5. PlaceTyped
  BY DEF Init, PlaceTyped
<1>6. BrokerTyped
  BY <1>4, RuntimeConstantsOK DEF Init, BrokerTyped, HoldingsTyped, Holding
<1>7. IntentsTyped
  BY DEF Init, IntentsTyped
<1> QED BY <1>2, <1>4, <1>5, <1>6, <1>7 DEF TypeInv, RowsTyped

LEMMA RowFields ==
  ASSUME NEW r \in Row
  PROVE  /\ r.status \in {"OPEN", "CLOSED"} /\ r.direction = "LONG" /\ r.system \in Systems \cup {"MOMENTUM"}
         /\ r.qty \in Nat /\ r.avg \in Nat /\ r.entryN \in Nat /\ r.stop \in Int /\ r.last \in Nat
         /\ r.units \in Nat
  BY DEF Row

LEMMA ClosedTyped ==
  ASSUME NEW r \in Row
  PROVE  GoodRow(ClosedRow(r))
<1> DEFINE status == "CLOSED"
           none == 0
<1>1. ClosedRow(r) = [r EXCEPT !.status = status, !.qty = none, !.units = none]
  BY DEF ClosedRow
<1>2. ClosedRow(r) \in Row
  <2>1. status \in {"OPEN", "CLOSED"} /\ none \in Nat
    OBVIOUS
  <2> HIDE DEF status, none
  <2> QED BY <1>1, <2>1, Zenon DEF Row
<1>3. ClosedRow(r).status = "CLOSED" /\ ClosedRow(r).qty = 0 /\ ClosedRow(r).units = 0
  BY <1>1 DEF Row
<1> QED BY <1>2, <1>3 DEF GoodRow

LEMMA HoldingRow ==
  ASSUME NEW table, RowsTyped(table), NEW s, NEW holding \in Holding
  PROVE  GoodRow(FromHolding(holding, table, s))
<1> DEFINE avg == holding.cost \div holding.qty
           r == FromHolding(holding, table, s)
           system == IF s \in DOMAIN table THEN table[s].system ELSE "MOMENTUM"
           entryN == IF s \in DOMAIN table THEN table[s].entryN ELSE 0
           stop == IF s \in DOMAIN table THEN table[s].stop ELSE avg
<1>1. avg \in Nat /\ holding.qty \in Nat \ {0}
  BY QuotientNat DEF Holding
<1>2. system \in Systems \cup {"MOMENTUM"} /\ entryN \in Nat /\ stop \in Int
  <2>1. CASE s \in DOMAIN table
    BY <2>1, RowFields DEF RowsTyped, GoodRow
  <2>2. CASE s \notin DOMAIN table
    BY <1>1, <2>2
  <2> QED BY <2>1, <2>2
<1>3. r = [status |-> "OPEN", direction |-> "LONG", qty |-> holding.qty, avg |-> avg,
           system |-> system, entryN |-> entryN, stop |-> stop, last |-> avg, units |-> 1]
  BY DEF FromHolding
<1> HIDE DEF avg, system, entryN, stop, r
<1>4. /\ r.status = "OPEN" /\ r.qty = holding.qty /\ r.units = 1
  BY <1>3
<1>5. r \in Row
  BY <1>1, <1>2, <1>3 DEF Row
<1> QED BY <1>1, <1>4, <1>5 DEF GoodRow, r

LEMMA SyncedTyped ==
  ASSUME NEW table, RowsTyped(table), NEW read, HoldingsTyped(read)
  PROVE  RowsTyped(Synced(table, read))
<1> DEFINE t == Synced(table, read)
<1>1. DOMAIN t = DOMAIN table \cup DOMAIN read
  BY DEF Synced
<1>2. ASSUME NEW s \in DOMAIN t PROVE GoodRow(t[s])
  <2>1. CASE s \in DOMAIN read
    <3>1. t[s] = FromHolding(read[s], table, s)
      BY <1>1, <2>1 DEF Synced
    <3>2. read[s] \in Holding
      BY <2>1 DEF HoldingsTyped
    <3> QED BY <3>1, <3>2, HoldingRow
  <2>2. CASE s \notin DOMAIN read
    <3>1. t[s] \in {table[s], ClosedRow(table[s])} /\ s \in DOMAIN table
      BY <1>1, <2>2 DEF Synced
    <3> QED BY <3>1, ClosedTyped DEF RowsTyped, GoodRow
  <2> QED BY <2>1, <2>2
<1> HIDE DEF t
<1> QED BY <1>1, <1>2 DEF RowsTyped, HoldingsTyped, t

LEMMA BoughtTyped ==
  ASSUME RowsTyped(paper), NEW x \in Intent, x.qty > 0
  PROVE  GoodRow(Bought(x))
<1>0. /\ x.qty \in Nat \ {0} /\ x.price \in Price /\ x.price \in Nat /\ x.n \in Nat /\ x.stop \in Int
      /\ x.system \in Systems \cup {"MOMENTUM"}
  BY DEF Intent, Price
<1>1. CASE IsOpen(paper, x.symbol)
  <2> DEFINE row == paper[x.symbol]
             qty == row.qty + x.qty
             units == row.units + 1
             avg == (row.avg * row.qty + x.price * x.qty) \div (row.qty + x.qty)
             stop == x.stop
             last == x.price
             r == [row EXCEPT !.qty = qty, !.units = units, !.avg = avg, !.stop = stop, !.last = last]
  <2>1. row \in Row /\ row.status = "OPEN"
    BY <1>1 DEF RowsTyped, GoodRow, IsOpen
  <2>2. row.qty \in Nat /\ row.avg \in Nat /\ row.units \in Nat
    BY <2>1, RowFields
  <2>3. qty \in Nat \ {0} /\ units \in Nat \ {0}
    <3> HIDE DEF row
    <3> QED BY <1>0, <2>2
  <2>4. avg \in Nat
    <3>1. row.avg * row.qty \in Nat /\ x.price * x.qty \in Nat
      BY <1>0, <2>2, ProductNat
    <3>2. row.avg * row.qty + x.price * x.qty \in Nat
      BY <3>1
    <3> QED BY <2>3, <3>2, QuotientNat
  <2>5. Bought(x) = r
    BY <1>1 DEF Bought
  <2>6. stop \in Int /\ last \in Nat
    BY <1>0
  <2> HIDE DEF row, qty, units, avg, stop, last
  <2>7. qty \in Nat /\ units \in Nat
    BY <2>3
  <2>8. r \in Row
    BY <2>1, <2>4, <2>6, <2>7, Zenon DEF Row
  <2>9. r.status = "OPEN" /\ r.qty = qty /\ r.units = units
    BY <2>1 DEF Row
  <2> HIDE DEF r
  <2> QED BY <2>3, <2>5, <2>8, <2>9 DEF GoodRow
<1>2. CASE ~IsOpen(paper, x.symbol)
  BY <1>0, <1>2 DEF Bought, GoodRow, Row
<1> QED BY <1>1, <1>2

\* What recording an intent makes of the rows and the list of intents.
LEMMA RecordTyped ==
  ASSUME IntentsTyped, RowsTyped(paper), NEW x \in Intent, Record(x)
  PROVE  IntentsTyped' /\ RowsTyped(paper')
<1>1. CASE GuardPasses(x)
  <2>1. /\ intents' = Append(intents, x) /\ x.qty > 0
        /\ paper' = IF mode = "live" THEN paper ELSE With(paper, x.symbol, FilledRow(x))
        /\ x.side = "SELL" => x.symbol \in DOMAIN Table
    BY <1>1 DEF Record, GuardPasses
  <2>2. IntentsTyped'
    BY <2>1 DEF IntentsTyped
  <2>3. ASSUME mode # "live" PROVE GoodRow(FilledRow(x))
    <3>1. CASE x.side = "BUY"
      BY <2>1, <3>1, BoughtTyped DEF FilledRow
    <3>2. CASE x.side # "BUY"
      <4>1. x.side = "SELL" /\ Table = paper
        BY <2>3, <3>2 DEF Intent, Table
      <4>2. paper[x.symbol] \in Row
        BY <2>1, <4>1 DEF RowsTyped, GoodRow
      <4> QED BY <3>2, <4>2, ClosedTyped DEF FilledRow
    <3> QED BY <3>1, <3>2
  <2>4. RowsTyped(paper')
    <3>1. CASE mode = "live"
      BY <2>1, <3>1
    <3>2. CASE mode # "live"
      <4>1. paper' = With(paper, x.symbol, FilledRow(x)) /\ GoodRow(FilledRow(x)) /\ x.symbol \in AllSymbols
        BY <2>1, <2>3, <3>2 DEF Intent
      <4> QED BY <4>1 DEF With, RowsTyped
    <3> QED BY <3>1, <3>2
  <2> QED BY <2>2, <2>4
<1>2. CASE ~GuardPasses(x)
  BY <1>2 DEF Record, IntentsTyped
<1> QED BY <1>1, <1>2

LEMMA PricesTyped ==
  ASSUME CalendarTyped, NEW s \in AllSymbols
  PROVE  PricesOf(today[s]) \subseteq Price
<1>1. today[s] \in Bar
  BY DEF CalendarTyped
<1> QED BY <1>1 DEF PricesOf, Bar

LEMMA TableTyped ==
  ASSUME TypeInv
  PROVE  RowsTyped(Table) /\ \A s \in DOMAIN Table : s \in AllSymbols /\ GoodRow(Table[s]) /\ Table[s] \in Row
  BY DEF TypeInv, Table, RowsTyped, GoodRow

\* A signal of the turtle rules makes an intent of the right kind.
LEMMA SignalIntent ==
  ASSUME TypeInv, NEW s \in AllSymbols, NEW price \in Price, NEW signal \in SignalsAt(s, price)
  PROVE  IntentFrom(s, signal, price) \in Intent
<1> DEFINE bars == histories[s]
<1>1. bars \in Seq(Bar) /\ price \in Int
  BY DEF TypeInv, CalendarTyped, Price
<1>2. IsOpen(Table, s) => Table[s] \in Row
  BY TableTyped DEF IsOpen
<1>3. CASE IsOpen(Table, s)
  <2> DEFINE row == Table[s]
  <2>1. signal \in HeldSignals(row, bars, price)
    BY <1>3 DEF SignalsAt
  <2>2. /\ row.system \in Systems \cup {"MOMENTUM"} /\ row.qty \in Nat /\ row.entryN \in Nat
        /\ row.stop \in Int /\ row.last \in Int
    BY <1>2, <1>3, RowFields
  <2>3. /\ signal.system = row.system
        /\ signal.kind \in {"STOP", "EXIT"} => signal.side = ExitSide(row.direction)
        /\ signal.kind \notin {"STOP", "EXIT"} =>
             signal.kind = "PYRAMID" /\ signal.side = EntrySide(row.direction)
    <3> HIDE DEF bars, row
    <3> QED BY <1>1, <2>1, <2>2, HeldTriggers
  <2>4. NFor(s) = row.entryN
    BY <1>3 DEF NFor, IsOpen
  <2>5. price - StopN * NFor(s) \in Int
    <3>1. StopN * row.entryN \in Nat
      BY <2>2, ProductNat, TurtleConstantsOK
    <3> HIDE DEF row
    <3> QED BY <1>1, <2>4, <3>1
  <2>6. signal.side \in {"BUY", "SELL"}
    BY <2>3 DEF ExitSide, EntrySide
  <2>7. CASE signal.kind \in {"STOP", "EXIT"}
    <3>1. IntentFrom(s, signal, price) =
            [symbol |-> s, side |-> signal.side, kind |-> signal.kind, system |-> signal.system,
             qty |-> row.qty, price |-> price, n |-> 0, stop |-> 0]
      BY <2>7 DEF IntentFrom
    <3> HIDE DEF row
    <3> QED BY <2>2, <2>3, <2>6, <2>7, <3>1 DEF Intent
  <2>8. CASE signal.kind \notin {"STOP", "EXIT"}
    <3> DEFINE stop == price - StopN * NFor(s)
    <3>1. IntentFrom(s, signal, price) =
            [symbol |-> s, side |-> signal.side, kind |-> signal.kind, system |-> signal.system,
             qty |-> UnitQty, price |-> price, n |-> NFor(s), stop |-> stop]
      BY <2>8 DEF IntentFrom
    <3>2. UnitQty \in Nat /\ stop \in Int /\ NFor(s) \in Nat
      BY <2>2, <2>4, <2>5, RuntimeConstantsOK
    <3> HIDE DEF row, stop
    <3> QED BY <2>2, <2>3, <2>6, <2>8, <3>1, <3>2 DEF Intent
  <2> QED BY <2>7, <2>8
<1>4. CASE ~IsOpen(Table, s)
  <2>1. signal \in EntrySignals(<<s, "LONG">>, bars, price, StrategyState)
    BY <1>4 DEF SignalsAt
  <2>2. signal.kind = "ENTRY" /\ signal.side \in {"BUY", "SELL"} /\ signal.system \in Systems
    <3> HIDE DEF bars
    <3> QED BY <1>1, <2>1, EntryTriggers DEF EntrySide
  <2>3. NFor(s) \in Nat
    <3>1. CASE s \in DOMAIN Table
      BY <3>1, TableTyped, RowFields DEF NFor
    <3>2. CASE s \notin DOMAIN Table
      <4>1. N(bars) # {} /\ N(bars) \subseteq Nat
        BY <1>1, <2>1, NNat DEF EntrySignals
      <4> QED BY <3>2, <4>1 DEF NFor
    <3> QED BY <3>1, <3>2
  <2> DEFINE stop == price - StopN * NFor(s)
  <2>4. stop \in Int
    <3>1. StopN * NFor(s) \in Nat
      BY <2>3, ProductNat, TurtleConstantsOK
    <3> QED BY <1>1, <3>1
  <2>5. IntentFrom(s, signal, price) =
          [symbol |-> s, side |-> signal.side, kind |-> signal.kind, system |-> signal.system,
           qty |-> UnitQty, price |-> price, n |-> NFor(s), stop |-> stop]
    BY <2>2 DEF IntentFrom
  <2>6. UnitQty \in Nat
    BY RuntimeConstantsOK
  <2> HIDE DEF stop
  <2> QED BY <2>2, <2>3, <2>4, <2>5, <2>6 DEF Intent
<1> QED BY <1>3, <1>4

\* What momentum orders is typed; the quantity only if it passes the guard.
LEMMA MomentumTyped ==
  ASSUME prices \in [AllSymbols -> Price], NEW s \in AllSymbols, NEW side \in {"BUY", "SELL"}, NEW qty \in Int
  PROVE  MomentumIntent(s, side, qty) \in Intent
<1>1. prices[s] \in Price
  OBVIOUS
<1> QED BY <1>1 DEF MomentumIntent, Intent

LEMMA SymbolsFinite == IsFiniteSet(AllSymbols)
  BY RuntimeConstantsOK, FS_AddElement DEF AllSymbols

LEMMA MomentumQuantityInt ==
  ASSUME RowsTyped(held), prices \in [AllSymbols -> Price], NEW s \in AllSymbols
  PROVE  MomentumQuantity(s) \in Int
<1> DEFINE gain == [t \in DOMAIN held |-> held[t].qty * (prices[t] - held[t].avg)]
           worth == [t \in DOMAIN held |-> held[t].qty * prices[t]]
           equity == BaseEquity + SumFunction(gain)
           share == equity * TargetPct
           room == equity * MaxExposurePct - 100 * MomentumExposure
           allocation == Min({share, room})
<1>1. DOMAIN held \subseteq AllSymbols /\ IsFiniteSet(DOMAIN held)
  BY SymbolsFinite, FS_Subset DEF RowsTyped
<1>2. ASSUME NEW t \in DOMAIN held PROVE gain[t] \in Int /\ worth[t] \in Int
  <2>1. held[t].qty \in Int /\ held[t].avg \in Int
    BY RowFields DEF RowsTyped, GoodRow
  <2>2. prices[t] \in Int
    BY <1>1 DEF Price
  <2>3. prices[t] - held[t].avg \in Int
    BY <2>1, <2>2
  <2> QED BY <2>1, <2>2, <2>3, ProductInt
<1>3. DOMAIN gain = DOMAIN held /\ DOMAIN worth = DOMAIN held
  OBVIOUS
<1>4. MomentumExposure = SumFunction(worth)
  BY DEF MomentumExposure
<1>5. MomentumQuantity(s) = allocation \div (100 * prices[s])
  BY DEF MomentumQuantity
<1> HIDE DEF gain, worth
<1>6. SumFunction(gain) \in Int /\ MomentumExposure \in Int
  BY <1>1, <1>2, <1>3, <1>4, SumInt
<1>7. equity \in Int
  BY <1>6, RuntimeConstantsOK
<1> HIDE DEF equity
<1>8. share \in Int /\ equity * MaxExposurePct \in Int
  <2>1. TargetPct \in Int /\ MaxExposurePct \in Int
    BY RuntimeConstantsOK
  <2> QED BY <1>7, <2>1, ProductInt
<1>9. room \in Int
  BY <1>6, <1>8
<1> HIDE DEF share, room
<1>10. allocation \in Int
  BY <1>8, <1>9, GreaterOf
<1> HIDE DEF allocation
<1>11. 100 * prices[s] \in Nat \ {0}
  BY DEF Price
<1> QED BY <1>5, <1>10, <1>11, QuotientInt

LEMMA TypesRead ==
  ASSUME TypeInv, ReadHoldings \/ ReadOrders
  PROVE  TypeInv'
<1>1. CASE ReadHoldings
  <2>1. /\ seen' = holdings /\ step' = "orders"
        /\ UNCHANGED <<setup, day, today, histories, holdings, orders, rows, paper, held, todo, intents>>
    BY <1>1 DEF ReadHoldings, broker, local, result
  <2>2. BrokerTyped' /\ CalendarTyped' /\ IntentsTyped' /\ PlaceTyped'
    BY <2>1 DEF TypeInv, CalendarTyped, BrokerTyped, IntentsTyped, PlaceTyped
  <2> QED BY <2>1, <2>2 DEF TypeInv
<1>2. CASE ReadOrders
  <2>1. /\ rows' = IF mode = "live" THEN Synced(rows, seen) ELSE rows
        /\ step' \in {"gather", "evaluate", "idle"} /\ todo' = Symbols /\ seen' = <<>> /\ intents' = <<>>
        /\ UNCHANGED <<setup, day, today, histories, holdings, orders, paper, held>>
    BY <1>2 DEF ReadOrders, market, broker
  <2>2. RowsTyped(rows')
    BY <2>1, SyncedTyped DEF TypeInv, BrokerTyped
  <2>3. HoldingsTyped(seen')
    <3>1. \A f : f = <<>> => DOMAIN f = {}
      OBVIOUS
    <3>2. DOMAIN seen' = {}
      BY <2>1, <3>1
    <3> QED BY <3>2 DEF HoldingsTyped
  <2>4. BrokerTyped' /\ CalendarTyped' /\ IntentsTyped'
    BY <2>1, <2>3 DEF TypeInv, CalendarTyped, BrokerTyped, IntentsTyped
  <2>5. PlaceTyped'
    BY <2>1 DEF PlaceTyped, AllSymbols
  <2> QED BY <2>1, <2>2, <2>4, <2>5 DEF TypeInv
<1> QED BY <1>1, <1>2

LEMMA TypesEvaluate ==
  ASSUME TypeInv, NEW s \in AllSymbols, Evaluate(s) \/ DataFails(s)
  PROVE  TypeInv'
<1>1. /\ UNCHANGED <<setup, day, today, histories, holdings, orders, seen, rows, held>>
      /\ step = "evaluate" /\ step' = step /\ todo' \subseteq todo
  BY DEF Evaluate, DataFails, Visit, market, broker
<1>2. CalendarTyped' /\ BrokerTyped' /\ PlaceTyped' /\ RowsTyped(rows') /\ RowsTyped(held')
  BY <1>1 DEF TypeInv, CalendarTyped, BrokerTyped, PlaceTyped
<1>3. CASE DataFails(s) \/ UNCHANGED <<paper, result>>
  BY <1>2, <1>3 DEF TypeInv, DataFails, IntentsTyped, result
<1>4. CASE \E price \in PricesOf(today[s]) : \E signal \in SignalsAt(s, price) :
             Record(IntentFrom(s, signal, price))
  <2>1. PICK price \in PricesOf(today[s]) : \E signal \in SignalsAt(s, price) :
          Record(IntentFrom(s, signal, price))
    BY <1>4
  <2>2. PICK signal \in SignalsAt(s, price) : Record(IntentFrom(s, signal, price))
    BY <2>1
  <2>3. price \in Price
    BY <2>1, PricesTyped DEF TypeInv
  <2>4. IntentFrom(s, signal, price) \in Intent
    BY <2>2, <2>3, SignalIntent
  <2>5. IntentsTyped' /\ RowsTyped(paper')
    BY <2>2, <2>4, RecordTyped DEF TypeInv
  <2> QED BY <1>2, <2>5 DEF TypeInv
<1> QED BY <1>3, <1>4 DEF Evaluate

LEMMA TypesGather ==
  ASSUME TypeInv, Gather \/ GatherFails
  PROVE  TypeInv'
<1>1. /\ step = "gather"
      /\ UNCHANGED <<setup, day, today, histories, holdings, orders, seen, rows, paper, intents>>
  BY DEF Gather, GatherFails, market, broker, result
<1>2. CalendarTyped' /\ BrokerTyped' /\ IntentsTyped' /\ RowsTyped(rows') /\ RowsTyped(paper')
  BY <1>1 DEF TypeInv, CalendarTyped, BrokerTyped, IntentsTyped
<1>3. CASE Gather
  <2>1. /\ held' = [s \in {t \in OpenRows(Table) : Table[t].system = "MOMENTUM"} |-> Table[s]]
        /\ prices' \in [AllSymbols -> UNION {PricesOf(today[s]) : s \in AllSymbols}]
        /\ \A s \in AllSymbols : prices'[s] \in PricesOf(today[s])
        /\ step' = "sell" /\ todo' = DOMAIN held'
    BY <1>3 DEF Gather
  <2>2. prices' \in [AllSymbols -> Price]
    BY <2>1, PricesTyped DEF TypeInv
  <2>3. DOMAIN held' \subseteq DOMAIN Table /\ \A s \in DOMAIN held' : held'[s] = Table[s]
    BY <2>1 DEF OpenRows
  <2>4. RowsTyped(held')
    BY <2>3, TableTyped DEF RowsTyped
  <2>5. PlaceTyped'
    BY <2>1, <2>2, <2>4 DEF PlaceTyped, RowsTyped
  <2> QED BY <1>2, <2>4, <2>5 DEF TypeInv
<1>4. CASE GatherFails
  <2>1. PlaceTyped' /\ RowsTyped(held')
    BY <1>4 DEF GatherFails, PlaceTyped, TypeInv
  <2> QED BY <1>2, <2>1 DEF TypeInv
<1> QED BY <1>3, <1>4

LEMMA TypesSell ==
  ASSUME TypeInv, NEW s \in AllSymbols, SellHeld(s)
  PROVE  TypeInv'
<1>1. /\ step = "sell" /\ step' = step /\ s \in todo /\ todo' = todo \ {s}
      /\ UNCHANGED <<setup, day, today, histories, holdings, orders, seen, rows, prices>>
  BY DEF SellHeld, market, broker
<1>2. CalendarTyped' /\ BrokerTyped' /\ RowsTyped(rows')
  BY <1>1 DEF TypeInv, CalendarTyped, BrokerTyped
<1>3. /\ prices \in [AllSymbols -> Price] /\ todo \subseteq DOMAIN held /\ todo \subseteq AllSymbols
      /\ RowsTyped(held)
  BY <1>1 DEF TypeInv, PlaceTyped
<1>4. held[s].qty \in Int
  BY <1>1, <1>3, RowFields DEF RowsTyped, GoodRow
<1>5. CASE /\ Record(MomentumIntent(s, "SELL", held[s].qty))
           /\ held' = Restrict(held, DOMAIN held \ {s})
  <2>1. MomentumIntent(s, "SELL", held[s].qty) \in Intent
    BY <1>3, <1>4, MomentumTyped
  <2>2. IntentsTyped' /\ RowsTyped(paper')
    BY <1>5, <2>1, RecordTyped DEF TypeInv
  <2>3. DOMAIN held' = DOMAIN held \ {s} /\ \A t \in DOMAIN held' : held'[t] = held[t]
    BY <1>5 DEF Restrict
  <2>4. RowsTyped(held') /\ PlaceTyped'
    BY <1>1, <1>3, <2>3 DEF RowsTyped, PlaceTyped
  <2> QED BY <1>2, <2>2, <2>4 DEF TypeInv
<1>6. CASE UNCHANGED <<paper, result, held, exited>>
  <2>1. PlaceTyped' /\ IntentsTyped' /\ RowsTyped(held') /\ RowsTyped(paper')
    BY <1>1, <1>3, <1>6 DEF TypeInv, PlaceTyped, IntentsTyped, result
  <2> QED BY <1>2, <2>1 DEF TypeInv
<1> QED BY <1>5, <1>6 DEF SellHeld

LEMMA TypesBuy ==
  ASSUME TypeInv, NEW s \in AllSymbols, BuyCandidate(s)
  PROVE  TypeInv'
<1>1. /\ step = "buy" /\ step' = step /\ todo' = todo \ {s}
      /\ UNCHANGED <<setup, day, today, histories, holdings, orders, seen, rows, prices>>
  BY DEF BuyCandidate, Next1, market, broker
<1>2. CalendarTyped' /\ BrokerTyped' /\ RowsTyped(rows') /\ PlaceTyped'
  BY <1>1 DEF TypeInv, CalendarTyped, BrokerTyped, PlaceTyped
<1>3. prices \in [AllSymbols -> Price] /\ RowsTyped(held)
  BY <1>1 DEF TypeInv, PlaceTyped
<1>4. CASE /\ Wanted(s) /\ Record(MomentumIntent(s, "BUY", MomentumQuantity(s)))
           /\ held' = IF mode # "live" THEN With(held, s, paper'[s])
                      ELSE IF IsOpen(rows, s) THEN With(held, s, rows[s]) ELSE held
  <2> DEFINE x == MomentumIntent(s, "BUY", MomentumQuantity(s))
  <2>1. MomentumQuantity(s) \in Int /\ MomentumQuantity(s) > 0
    BY <1>3, <1>4, MomentumQuantityInt DEF Wanted
  <2>2. x \in Intent
    BY <1>3, <2>1, MomentumTyped
  <2>3. IntentsTyped' /\ RowsTyped(paper')
    <3> HIDE DEF x
    <3> QED BY <1>4, <2>2, RecordTyped DEF TypeInv, x
  <2>4. mode # "live" => s \in DOMAIN paper'
    <3>1. x.qty > 0 /\ x.side = "BUY" /\ x.system = "MOMENTUM" /\ x.symbol = s
      BY <2>1 DEF MomentumIntent
    <3> HIDE DEF x
    <3>2. GuardPasses(x)
      BY <3>1 DEF GuardPasses
    <3> QED BY <1>4, <3>1, <3>2 DEF Record, With, x
  <2>5. RowsTyped(held')
    <3>1. \A r : GoodRow(r) => RowsTyped(With(held, s, r))
      BY <1>3 DEF RowsTyped, With
    <3>2. IsOpen(rows, s) => GoodRow(rows[s])
      BY DEF TypeInv, RowsTyped, IsOpen
    <3>3. mode # "live" => GoodRow(paper'[s])
      BY <2>3, <2>4 DEF RowsTyped
    <3> QED BY <1>3, <1>4, <3>1, <3>2, <3>3
  <2> QED BY <1>2, <2>3, <2>5 DEF TypeInv
<1>5. CASE UNCHANGED <<paper, result, accepted, held>>
  BY <1>2, <1>3, <1>5 DEF TypeInv, IntentsTyped, result
<1> QED BY <1>4, <1>5 DEF BuyCandidate

LEMMA TypesSteps ==
  ASSUME TypeInv, Rank \/ StopBuying \/ EndRun \/ AllSubmitted
  PROVE  TypeInv'
<1>1. UNCHANGED <<setup, day, today, histories, holdings, orders, seen, rows, paper, intents>>
  BY DEF Rank, StopBuying, EndRun, AllSubmitted, market, broker, result
<1>2. CalendarTyped' /\ BrokerTyped' /\ IntentsTyped' /\ RowsTyped(rows') /\ RowsTyped(paper')
  BY <1>1 DEF TypeInv, CalendarTyped, BrokerTyped, IntentsTyped
<1>3. RowsTyped(held')
  <2>1. \A f : f = <<>> => DOMAIN f = {}
    OBVIOUS
  <2>2. held' = held \/ held' = <<>>
    BY DEF Rank, StopBuying, EndRun, AllSubmitted, local
  <2> QED BY <2>1, <2>2 DEF RowsTyped, TypeInv
<1>4. PlaceTyped'
  <2>1. CASE Rank
    <3>1. step = "sell" /\ step' = "buy" /\ UNCHANGED <<prices, held>> /\ todo' \subseteq AllSymbols
      BY <2>1 DEF Rank
    <3> QED BY <3>1 DEF TypeInv, PlaceTyped
  <2>2. CASE StopBuying
    BY <2>2 DEF StopBuying, TypeInv, PlaceTyped
  <2>3. CASE EndRun
    BY <2>3 DEF EndRun, TypeInv, PlaceTyped
  <2>4. CASE AllSubmitted
    BY <2>4 DEF AllSubmitted, local, TypeInv, PlaceTyped
  <2> QED BY <2>1, <2>2, <2>3, <2>4
<1> QED BY <1>2, <1>3, <1>4 DEF TypeInv

LEMMA TypesSubmit ==
  ASSUME TypeInv, SubmitIntent
  PROVE  TypeInv'
<1>1. /\ intents # <<>> /\ intents' = Tail(intents)
      /\ UNCHANGED <<setup, day, today, histories, holdings, seen, rows, paper, step, todo, prices, held>>
  BY DEF SubmitIntent, market, local
<1>2. Head(intents) \in {x \in Intent : x.qty > 0} /\ IntentsTyped'
  BY <1>1 DEF TypeInv, IntentsTyped
<1>3. orders' \subseteq Order
  <2> DEFINE x == Head(intents)
  <2>1. \/ orders' = orders
        \/ orders' = orders \cup {[symbol |-> x.symbol, side |-> x.side, qty |-> x.qty, price |-> x.price]}
    BY DEF SubmitIntent
  <2>2. [symbol |-> x.symbol, side |-> x.side, qty |-> x.qty, price |-> x.price] \in Order
    BY <1>2 DEF Intent, Order
  <2> HIDE DEF x
  <2> QED BY <2>1, <2>2 DEF TypeInv, BrokerTyped
<1>4. CalendarTyped' /\ PlaceTyped' /\ BrokerTyped'
  BY <1>1, <1>3 DEF TypeInv, CalendarTyped, PlaceTyped, BrokerTyped
<1> QED BY <1>1, <1>2, <1>4 DEF TypeInv

\* A fill leaves whole shares at a cost that is not negative.
LEMMA TypesFill ==
  ASSUME TypeInv, NEW o \in orders, Fill(o)
  PROVE  TypeInv'
<1> DEFINE s == o.symbol
           before == IF s \in DOMAIN holdings THEN holdings[s] ELSE [qty |-> 0, cost |-> 0]
           average == before.cost \div before.qty
           paid == o.qty * o.price
           bought == [qty |-> before.qty + o.qty, cost |-> before.cost + paid]
           left == [qty |-> before.qty - o.qty, cost |-> average * (before.qty - o.qty)]
<1>1. o \in Order /\ HoldingsTyped(holdings)
  BY DEF TypeInv, BrokerTyped
<1>2. s \in AllSymbols /\ o.qty \in Nat \ {0} /\ paid \in Nat
  <2>1. o.qty \in Nat \ {0} /\ o.price \in Nat /\ s \in AllSymbols
    BY <1>1 DEF Order, Price
  <2> QED BY <2>1, ProductNat
<1>3. before.qty \in Nat /\ before.cost \in Nat
  BY <1>1 DEF HoldingsTyped, Holding
<1>4. bought \in Holding
  <2> HIDE DEF before, paid
  <2> QED BY <1>2, <1>3 DEF Holding
<1>5. before.qty > o.qty => left \in Holding
  <2> HIDE DEF before
  <2>1. SUFFICES ASSUME before.qty > o.qty PROVE left \in Holding
    OBVIOUS
  <2>2. before.qty \in Nat \ {0} /\ before.qty - o.qty \in Nat \ {0}
    BY <1>2, <1>3, <2>1
  <2>3. average \in Nat
    BY <1>3, <2>2, QuotientNat
  <2> HIDE DEF average
  <2>4. average * (before.qty - o.qty) \in Nat
    BY <2>2, <2>3, ProductNat
  <2> QED BY <2>2, <2>4 DEF Holding
<1>6. /\ orders' \subseteq orders
      /\ \/ holdings' = With(holdings, s, bought)
         \/ before.qty > o.qty /\ holdings' = With(holdings, s, left)
         \/ holdings' = Restrict(holdings, DOMAIN holdings \ {s})
      /\ UNCHANGED <<setup, day, today, histories, rows, paper, step, seen, todo, prices, held, intents>>
  BY DEF Fill, market, local
<1> HIDE DEF bought, left, before
<1>7. HoldingsTyped(holdings')
  <2>1. \A h \in Holding : HoldingsTyped(With(holdings, s, h))
    <3> HIDE DEF s
    <3> QED BY <1>1, <1>2 DEF HoldingsTyped, With
  <2>2. HoldingsTyped(Restrict(holdings, DOMAIN holdings \ {s}))
    BY <1>1 DEF HoldingsTyped, Restrict
  <2> QED BY <1>4, <1>5, <1>6, <2>1, <2>2
<1>8. CalendarTyped' /\ PlaceTyped' /\ BrokerTyped' /\ IntentsTyped'
  BY <1>6, <1>7 DEF TypeInv, CalendarTyped, PlaceTyped, BrokerTyped, IntentsTyped
<1> QED BY <1>6, <1>8 DEF TypeInv

LEMMA TypesElse ==
  ASSUME TypeInv, (\E o \in orders : Lapse(o)) \/ NextDay \/ UNCHANGED vars
  PROVE  TypeInv'
<1>1. /\ orders' \subseteq orders
      /\ UNCHANGED <<setup, holdings, rows, paper, step, seen, todo, prices, held, intents>>
  BY DEF Lapse, NextDay, vars, broker, local, result
<1>2. CalendarTyped'
  <2>1. CASE NextDay
    <3>1. day' = day + 1 /\ day < Len(Days) /\ day \in 1..Len(Days) /\ today' \in Days[day + 1]
      BY <2>1 DEF NextDay, TypeInv, CalendarTyped
    <3>2. day' \in 1..Len(Days) /\ today' \in [AllSymbols -> Bar]
      BY <3>1, RuntimeConstantsOK
    <3>3. histories' \in [AllSymbols -> Seq(Bar)]
      BY <2>1 DEF NextDay, TypeInv, CalendarTyped
    <3> QED BY <1>1, <3>2, <3>3 DEF TypeInv, CalendarTyped
  <2>2. CASE ~NextDay
    <3>1. UNCHANGED <<day, today, histories>>
      BY <2>2 DEF Lapse, vars, market
    <3> QED BY <1>1, <3>1 DEF TypeInv, CalendarTyped
  <2> QED BY <2>1, <2>2
<1>3. PlaceTyped' /\ BrokerTyped' /\ IntentsTyped'
  BY <1>1 DEF TypeInv, PlaceTyped, BrokerTyped, IntentsTyped
<1> QED BY <1>1, <1>2, <1>3 DEF TypeInv

LEMMA TypesPreserved == TypeInv /\ [Next]_vars => TypeInv'
  BY TypesRead, TypesEvaluate, TypesGather, TypesSell, TypesBuy, TypesSteps, TypesSubmit, TypesFill,
     TypesElse DEF Next

\* What the runtime keeps has its type whatever the bars, the fills and the
\* iterations are: live or simulated, a row is open exactly if it has a quantity
\* and units, and no holding is ever empty or below a cost of nothing.
THEOREM RuntimeTypesCorrect == Spec => []RuntimeTypeOK
<1>1. TypeInv => RuntimeTypeOK
  BY DEF TypeInv, CalendarTyped, PlaceTyped, BrokerTyped, RowsTyped, GoodRow, HoldingsTyped, Holding, RuntimeTypeOK
<1> QED BY TypeStart, TypesPreserved, <1>1, PTL DEF Spec
=============================================================================
