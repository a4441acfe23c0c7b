---------------------------- MODULE BacktestsProofs ----------------------------
(***************************************************************************)
(* Proofs about Backtests, for any candles, filters, limits and costs: the *)
(* order of the events of a session, the skips after winning trades, what  *)
(* a scan lets in; the types and the cash of every engine, the prices of   *)
(* fills and stops, the drawdown of a result; and the loop of the          *)
(* portfolio as an implementation of the loop of a single symbol.          *)
(***************************************************************************)
EXTENDS Backtests, TurtleProofs, TLAPS, FiniteSetTheorems

-----------------------------------------------------------------------------
(* Sequences that grow *)

IsSequence(q) == \E S : q \in Seq(S)

LEMMA Emptied == ASSUME NEW q, q = <<>> PROVE IsSequence(q) /\ DOMAIN q = {}
<1>1. q \in Seq({})
  OBVIOUS
<1> QED BY <1>1 DEF IsSequence

LEMMA Appended ==
  ASSUME NEW q, IsSequence(q), NEW x
  PROVE  /\ IsSequence(Append(q, x)) /\ Len(q) \in Nat
         /\ DOMAIN q = 1..Len(q) /\ DOMAIN Append(q, x) = 1..(Len(q) + 1)
         /\ Len(Append(q, x)) = Len(q) + 1
         /\ \A i \in 1..Len(q) : Append(q, x)[i] = q[i]
         /\ Append(q, x)[Len(q) + 1] = x
<1>1. PICK S : q \in Seq(S)
  BY DEF IsSequence
<1> DEFINE T == S \cup {x}
<1>2. q \in Seq(T) /\ x \in T
  BY <1>1
<1> HIDE DEF T
<1>3. Append(q, x) \in Seq(T)
  BY <1>2
<1> QED BY <1>2, <1>3 DEF IsSequence

-----------------------------------------------------------------------------
(* No re-entry *)

Left(kind) == kind \in {"STOP", "EXIT"}
Trading == phase \in {"exits", "entries"}

\* While a session is under way what was left in it is remembered, and is not held.
AuditInv ==
  /\ IsSequence(audit) /\ session \in Nat
  /\ \A i \in DOMAIN audit : audit[i].session \in Nat
  /\ Trading =>
       /\ \A i \in DOMAIN audit :
            /\ audit[i].session <= session
            /\ audit[i].session = session /\ Left(audit[i].kind) => audit[i].symbol \in exited
       /\ exited \cap DOMAIN positions = {}
  /\ phase \in {"input", "between"} =>
       exited = {} /\ \A i \in DOMAIN audit : audit[i].session < session
  /\ NoReentry

LEMMA AuditStart == BacktestsInit => AuditInv
<1> SUFFICES ASSUME BacktestsInit PROVE AuditInv
  OBVIOUS
<1>1. audit = <<>> /\ session = 1 /\ phase = "input" /\ exited = {}
  BY DEF BacktestsInit, ScanInit, BacktestInit
<1> QED BY <1>1, Emptied DEF AuditInv, NoReentry, Trading

\* An event of the session under way.
LEMMA Booked ==
  ASSUME AuditInv, Trading, NEW e, e.session = session, audit' = Append(audit, e),
         UNCHANGED <<session, phase>>, exited \subseteq exited', exited' \cap DOMAIN positions' = {},
         Left(e.kind) => e.symbol \in exited',
         e.kind \in {"ENTRY", "PYRAMID"} => e.symbol \notin exited
  PROVE  AuditInv'
<1> DEFINE n == Len(audit)
<1>1. /\ IsSequence(audit') /\ n \in Nat /\ DOMAIN audit = 1..n /\ DOMAIN audit' = 1..(n + 1)
      /\ \A i \in 1..n : audit'[i] = audit[i]
      /\ audit'[n + 1] = e
  BY Appended DEF AuditInv
<1> HIDE DEF n
<1>2. \A i \in DOMAIN audit' : i = n + 1 \/ (i \in DOMAIN audit /\ audit'[i] = audit[i])
  BY <1>1
<1>3. session \in Nat
  BY DEF AuditInv
<1>4. \A i \in DOMAIN audit' : audit'[i].session \in Nat
  BY <1>1, <1>2, <1>3 DEF AuditInv
<1>5. \A i \in DOMAIN audit' :
        /\ audit'[i].session <= session
        /\ audit'[i].session = session /\ Left(audit'[i].kind) => audit'[i].symbol \in exited'
  BY <1>1, <1>2, <1>3 DEF AuditInv
<1>6. NoReentry'
  <2> SUFFICES ASSUME NEW i \in DOMAIN audit', NEW j \in DOMAIN audit', i < j,
                      audit'[i].session = audit'[j].session, audit'[i].symbol = audit'[j].symbol,
                      Left(audit'[i].kind)
               PROVE  audit'[j].kind \notin {"ENTRY", "PYRAMID"}
    BY DEF NoReentry, Left
  <2>1. i \in DOMAIN audit /\ audit'[i] = audit[i]
    BY <1>1, <1>2
  <2>2. CASE j = n + 1
    BY <1>1, <2>1, <2>2 DEF AuditInv
  <2>3. CASE j \in DOMAIN audit /\ audit'[j] = audit[j]
    BY <2>1, <2>3 DEF AuditInv, NoReentry, Left
  <2> QED BY <1>2, <2>2, <2>3
<1> QED BY <1>1, <1>3, <1>4, <1>5, <1>6 DEF AuditInv, Trading

LEMMA NothingBooked ==
  ASSUME AuditInv, UNCHANGED <<audit, session, exited>>, DOMAIN positions' = DOMAIN positions,
         \/ phase' = phase \/ phase' = "failed"
         \/ phase \in {"input", "between"} /\ phase' = "exits"
         \/ Trading /\ phase' = "entries"
  PROVE  AuditInv'
<1>1. NoReentry'
  BY DEF AuditInv, NoReentry
<1> QED BY <1>1 DEF AuditInv, Trading

LEMMA SessionEnds ==
  ASSUME AuditInv, Trading, UNCHANGED audit, exited' = {},
         \/ session' = session + 1 /\ phase' = "between"
         \/ session' = session /\ phase' = "done"
  PROVE  AuditInv'
<1>1. NoReentry'
  BY DEF AuditInv, NoReentry
<1> QED BY <1>1 DEF AuditInv, Trading

LEMMA BuyBooks ==
  ASSUME AuditInv, phase = "entries", NEW s, NEW direction, NEW signal, NEW qty, NEW position,
         Buy(s, direction, signal, qty, position), UNCHANGED <<session, phase, exited>>,
         s \notin exited, signal.kind \in {"ENTRY", "PYRAMID"}
  PROVE  AuditInv'
<1>1. exited \cap DOMAIN positions = {}
  BY DEF AuditInv, Trading
<1>2. ASSUME NEW reason \in {"cap", "unit_qty_zero", "insufficient_cash"}, Block(s, reason)
      PROVE  AuditInv'
  <2> DEFINE e == Event(reason, "none", s, 0)
  <2>1. e.session = session /\ e.kind = reason /\ audit' = Append(audit, e) /\ positions' = positions
    BY <1>2 DEF Event, Block, account
  <2> HIDE DEF e
  <2> QED BY <1>1, <2>1, Booked DEF Trading, Left
<1>3. ASSUME NEW price, audit' = Append(audit, Event(signal.kind, signal.side, s, price)),
             positions' = With(positions, s, position)
      PROVE  AuditInv'
  <2> DEFINE e == Event(signal.kind, signal.side, s, price)
  <2>1. /\ e.session = session /\ e.kind = signal.kind /\ e.side = signal.side /\ e.symbol = s /\ audit' = Append(audit, e)
        /\ DOMAIN positions' = DOMAIN positions \cup {s}
    BY <1>3 DEF Event, With
  <2> HIDE DEF e
  <2> QED BY <1>1, <2>1, Booked DEF Trading, Left
<1> QED BY <1>2, <1>3 DEF Buy

LEMMA AuditSession == ASSUME AuditInv, SessionStep PROVE AuditInv'
<1>1. CASE OpenSession
  BY <1>1, NothingBooked DEF OpenSession, account
<1>2. CASE ExitsDone
  BY <1>2, NothingBooked DEF ExitsDone, account, Trading
<1>3. CASE EndSession
  BY <1>3, SessionEnds DEF EndSession, Trading
<1>4. ASSUME NEW s \in Symbols, Exit(s) PROVE AuditInv'
  <2>1. PICK signal \in ExitsOf(s) : CloseOut(s, signal)
    BY <1>4 DEF Exit
  <2>2. UNCHANGED <<session, phase>> /\ phase = "exits"
    BY <1>4 DEF Exit
  <2>3. /\ DOMAIN positions' = DOMAIN positions \ {s} /\ exited' = exited \cup {s}
        /\ \E price : audit' = Append(audit, Event(signal.kind, signal.side, s, price))
    BY <2>1 DEF CloseOut, Without, Restrict
  <2>4. Left(signal.kind)
    BY <2>1 DEF ExitsOf, ExitSignals, Left
  <2>5. PICK price : audit' = Append(audit, Event(signal.kind, signal.side, s, price))
    BY <2>3
  <2> DEFINE e == Event(signal.kind, signal.side, s, price)
  <2>6. e.session = session /\ e.kind = signal.kind /\ e.side = signal.side /\ e.symbol = s /\ audit' = Append(audit, e)
    BY <2>5 DEF Event
  <2> HIDE DEF e
  <2>7. exited' \cap DOMAIN positions' = {}
    BY <2>2, <2>3 DEF AuditInv, Trading
  <2> QED BY <2>2, <2>3, <2>4, <2>6, <2>7, Booked DEF Trading, Left
<1>5. ASSUME NEW s \in Symbols, Keep(s) \/ Pass(s) PROVE AuditInv'
  BY <1>5, NothingBooked DEF Keep, Pass, account
<1>6. ASSUME NEW s \in Symbols, Pyramid(s) PROVE AuditInv'
  <2>1. s \in DOMAIN positions /\ phase = "entries" /\ UNCHANGED <<session, phase, exited>>
    BY <1>6 DEF Pyramid
  <2>2. s \notin exited
    BY <2>1 DEF AuditInv, Trading
  <2>3. PICK signal \in UnitsOf(s) : \E qty, position : Buy(s, positions[s].direction, signal, qty, position)
    BY <1>6 DEF Pyramid
  <2>4. signal.kind = "PYRAMID"
    BY <2>3 DEF UnitsOf, PyramidSignals
  <2> QED BY <2>1, <2>2, <2>3, <2>4, BuyBooks
<1>7. ASSUME NEW s \in Symbols, Enter(s) PROVE AuditInv'
  <2>1. s \notin exited /\ phase = "entries" /\ UNCHANGED <<session, phase, exited>>
    BY <1>7 DEF Enter
  <2>2. PICK direction : \E signal \in EntryIn(s, direction) : \E qty, position : Buy(s, direction, signal, qty, position)
    BY <1>7 DEF Enter
  <2>3. \A signal \in EntryIn(s, direction) : signal.kind = "ENTRY"
    BY DEF EntryIn, EntrySignals, Signal
  <2> QED BY <2>1, <2>2, <2>3, BuyBooks
<1> QED BY <1>1, <1>2, <1>3, <1>4, <1>5, <1>6, <1>7 DEF SessionStep

LEMMA AuditMomentum == ASSUME AuditInv, Momentum!MomentumNext PROVE AuditInv'
<1>1. CASE Momentum!MomentumOpen
  BY <1>1, NothingBooked DEF Momentum!MomentumOpen
<1>2. CASE Momentum!MomentumRank \/ Momentum!MomentumStop
  BY <1>2, NothingBooked DEF Momentum!MomentumRank, Momentum!MomentumStop, Trading
<1>3. CASE Momentum!MomentumEnd
  BY <1>3, SessionEnds DEF Momentum!MomentumEnd, Trading
<1>4. ASSUME NEW s \in Symbols, Momentum!MomentumKeep(s) \/ Momentum!MomentumSkip(s) PROVE AuditInv'
  BY <1>4, NothingBooked DEF Momentum!MomentumKeep, Momentum!MomentumSkip
<1>5. ASSUME NEW s \in Symbols, Momentum!MomentumExit(s) PROVE AuditInv'
  <2> DEFINE e == Momentum!Event("EXIT", "SELL", s, tape[session][s].close)
  <2>1. /\ UNCHANGED <<session, phase>> /\ phase = "exits"
        /\ audit' = Append(audit, e) /\ exited' = exited \cup {s}
        /\ DOMAIN positions' = DOMAIN positions \ {s}
    BY <1>5 DEF Momentum!MomentumExit, Momentum!Restrict
  <2>2. e.session = session /\ e.kind = "EXIT" /\ e.symbol = s
    BY DEF Momentum!Event
  <2> HIDE DEF e
  <2>3. exited' \cap DOMAIN positions' = {}
    BY <2>1 DEF AuditInv, Trading
  <2> QED BY <2>1, <2>2, <2>3, Booked DEF Trading, Left
<1>6. ASSUME NEW s \in Symbols, Momentum!MomentumEnter(s) PROVE AuditInv'
  <2> DEFINE e == Momentum!Event("ENTRY", "BUY", s, tape[session][s].close)
  <2>1. /\ UNCHANGED <<session, phase, exited>> /\ phase = "entries"
        /\ audit' = Append(audit, e)
        /\ DOMAIN positions' = DOMAIN positions \cup {s}
    BY <1>6 DEF Momentum!MomentumEnter
  <2>2. e.session = session /\ e.kind = "ENTRY" /\ e.symbol = s
    BY DEF Momentum!Event
  <2> HIDE DEF e
  <2>3. s \notin exited
    BY <1>6 DEF Momentum!MomentumEnter, Momentum!Buyable
  <2>4. exited' \cap DOMAIN positions' = {}
    BY <2>1, <2>3 DEF AuditInv, Trading
  <2> QED BY <2>1, <2>2, <2>3, <2>4, Booked DEF Trading, Left
<1> QED BY <1>1, <1>2, <1>3, <1>4, <1>5, <1>6 DEF Momentum!MomentumNext

LEMMA AuditPreserved == AuditInv /\ [BacktestsNext]_vars => AuditInv'
<1> SUFFICES ASSUME AuditInv, [BacktestsNext]_vars PROVE AuditInv'
  OBVIOUS
<1>1. ASSUME NEW batch, NEW keys, Load(batch, keys) PROVE AuditInv'
  BY <1>1, NothingBooked DEF Load, account
<1>2. CASE PitMissing
  BY <1>2, NothingBooked DEF PitMissing, account
<1>3. CASE UNCHANGED vars
  BY <1>3, NothingBooked DEF vars, scanVars, backtestVars, account
<1> QED BY <1>1, <1>2, <1>3, AuditSession, AuditMomentum
        DEF BacktestsNext, Single, Portfolio, Scan, MomentumRun, ScanDay

\* No engine trades a symbol again in the session in which it left it.
THEOREM NothingIsReentered == BacktestsSpec => []NoReentry
<1>1. AuditInv => NoReentry
  BY DEF AuditInv
<1> QED BY AuditStart, AuditPreserved, <1>1, PTL DEF BacktestsSpec

-----------------------------------------------------------------------------
(* The skips after winners *)

WonS1(k) ==
  {i \in DOMAIN trades : trades[i].key = k /\ trades[i].system = "S1" /\ trades[i].pnl > 0}

TurtlePosition(p) ==
  /\ {"direction", "system", "qty", "entryN", "stop", "last", "units"} \subseteq DOMAIN p
  /\ p.direction \in Directions

SkipCounts ==
  /\ IsSequence(trades) /\ skip \subseteq Keys /\ DOMAIN skipped = Keys
  /\ \A k \in Keys :
       /\ skipped[k] \in Nat
       /\ IsFiniteSet(WonS1(k)) /\ Cardinality(WonS1(k)) = skipped[k] + Cardinality({k} \cap skip)

\* No skip waits for a symbol and direction that S1 holds.
HeldUnskipped ==
  command # "momentum" =>
    \A s \in DOMAIN positions :
      /\ s \in Symbols /\ TurtlePosition(positions[s])
      /\ positions[s].system = "S1" => <<s, positions[s].direction>> \notin skip

SkipInv == SkipCounts /\ HeldUnskipped

LEMMA SkipStart == BacktestsInit => SkipInv
<1> SUFFICES ASSUME BacktestsInit PROVE SkipInv
  OBVIOUS
<1>1. /\ trades = <<>> /\ skip = {} /\ skipped = [k \in Keys |-> 0] /\ positions = <<>>
  BY DEF BacktestsInit, ScanInit, BacktestInit
<1>2. Cardinality({}) = 0 /\ IsFiniteSet({})
  BY FS_EmptySet
<1>3. ASSUME NEW k \in Keys
      PROVE  IsFiniteSet(WonS1(k)) /\ Cardinality(WonS1(k)) = 0 /\ Cardinality({k} \cap skip) = 0
  <2>1. WonS1(k) = {} /\ {k} \cap skip = {}
    BY <1>1, Emptied DEF WonS1
  <2> QED BY <1>2, <2>1, Zenon
<1>4. \A k \in Keys : skipped[k] = 0
  BY <1>1
<1> QED BY <1>1, <1>3, <1>4, Emptied DEF SkipInv, SkipCounts, HeldUnskipped

\* A skip of a key is one, or none.
LEMMA SkipCount ==
  ASSUME NEW S, NEW k
  PROVE  Cardinality({k} \cap S) = IF k \in S THEN 1 ELSE 0
<1>1. CASE k \in S
  <2>1. {k} \cap S = {k}
    BY <1>1
  <2>2. Cardinality({k}) = 1
    BY FS_Singleton
  <2> QED BY <1>1, <2>1, <2>2
<1>2. CASE k \notin S
  <2>1. {k} \cap S = {}
    BY <1>2
  <2>2. Cardinality({}) = 0
    BY FS_EmptySet
  <2> QED BY <1>2, <2>1, <2>2
<1> QED BY <1>1, <1>2

\* A trade that is not a winning one of S1 changes no count; a winning one is
\* counted once, and so is its skip.
LEMMA WinnerCounted ==
  ASSUME SkipCounts, NEW t, trades' = Append(trades, t), skipped' = skipped,
         NEW won \in BOOLEAN, won <=> t.system = "S1" /\ t.pnl > 0,
         won => t.key \in Keys \ skip, skip' = IF won THEN skip \cup {t.key} ELSE skip
  PROVE  SkipCounts'
<1> DEFINE n == Len(trades)
<1>1. /\ IsSequence(trades') /\ n \in Nat /\ DOMAIN trades = 1..n /\ DOMAIN trades' = 1..(n + 1)
      /\ \A i \in 1..n : trades'[i] = trades[i]
      /\ trades'[n + 1] = t
  BY Appended DEF SkipCounts
<1> HIDE DEF n
<1>2. skip' \subseteq Keys
  BY DEF SkipCounts
<1>3. ASSUME NEW k \in Keys
      PROVE  IsFiniteSet(WonS1(k)') /\ Cardinality(WonS1(k)') = skipped'[k] + Cardinality({k} \cap skip')
  <2>0. /\ skipped[k] \in Nat /\ IsFiniteSet(WonS1(k))
        /\ Cardinality(WonS1(k)) = skipped[k] + Cardinality({k} \cap skip)
    BY DEF SkipCounts
  <2>1. CASE won /\ t.key = k
    <3>1. WonS1(k)' = WonS1(k) \cup {n + 1} /\ n + 1 \notin WonS1(k)
      BY <1>1, <2>1 DEF WonS1
    <3>2. IsFiniteSet(WonS1(k)') /\ Cardinality(WonS1(k)') = Cardinality(WonS1(k)) + 1
      BY <2>0, <3>1, FS_AddElement
    <3>3. Cardinality({k} \cap skip) = 0 /\ Cardinality({k} \cap skip') = 1
      <4>1. k \notin skip /\ k \in skip'
        BY <2>1
      <4> QED BY <4>1, SkipCount
    <3> QED BY <2>0, <3>2, <3>3
  <2>2. CASE ~(won /\ t.key = k)
    <3>1. WonS1(k)' = WonS1(k)
      BY <1>1, <2>2 DEF WonS1
    <3>2. k \in skip' <=> k \in skip
      BY <2>2
    <3>3. {k} \cap skip' = {k} \cap skip
      BY <3>2
    <3> QED BY <2>0, <3>1, <3>3
  <2> QED BY <2>1, <2>2
<1> QED BY <1>1, <1>2, <1>3 DEF SkipCounts

LEMMA SkipsSpent ==
  ASSUME SkipCounts, NEW U \in SUBSET skip, skip' = skip \ U, trades' = trades,
         skipped' = [k \in Keys |-> IF k \in U THEN skipped[k] + 1 ELSE skipped[k]]
  PROVE  SkipCounts'
<1>1. ASSUME NEW k \in Keys
      PROVE  skipped'[k] \in Nat /\ IsFiniteSet(WonS1(k)')
             /\ Cardinality(WonS1(k)') = skipped'[k] + Cardinality({k} \cap skip')
  <2>1. /\ skipped[k] \in Nat /\ IsFiniteSet(WonS1(k))
        /\ Cardinality(WonS1(k)) = skipped[k] + Cardinality({k} \cap skip)
    BY DEF SkipCounts
  <2>2. WonS1(k)' = WonS1(k)
    BY DEF WonS1
  <2>3. CASE k \in U
    <3>1. k \in skip /\ k \notin skip' /\ skipped'[k] = skipped[k] + 1
      BY <2>3
    <3>2. Cardinality({k} \cap skip) = 1 /\ Cardinality({k} \cap skip') = 0
      BY <3>1, SkipCount
    <3> QED BY <2>1, <2>2, <3>1, <3>2
  <2>4. CASE k \notin U
    <3>1. {k} \cap skip' = {k} \cap skip /\ skipped'[k] = skipped[k]
      BY <2>4
    <3> QED BY <2>1, <2>2, <3>1
  <2> QED BY <2>3, <2>4
<1> QED BY <1>1 DEF SkipCounts

LEMMA SkipKept ==
  ASSUME SkipCounts, UNCHANGED <<trades, skip, skipped>>
  PROVE  SkipCounts'
  BY DEF SkipCounts, WonS1

LEMMA HeldKept ==
  ASSUME HeldUnskipped, UNCHANGED <<positions, command>>, skip' \subseteq skip
  PROVE  HeldUnskipped'
  BY DEF HeldUnskipped

LEMMA SkipExit ==
  ASSUME SkipInv, command # "momentum", command' = command, NEW s \in DOMAIN positions, NEW signal,
         CloseOut(s, signal), skipped' = skipped
  PROVE  SkipInv'
<1> DEFINE p == positions[s]
           k == <<s, p.direction>>
           pnl == Pnl(p.direction, openCosts[s], ExitDelta(p.direction, FillPrice(Batch[s], signal), p.qty))
           t == [key |-> k, system |-> p.system, pnl |-> pnl]
           won == p.system = "S1" /\ pnl > 0
<1>1. k \in Keys /\ (p.system = "S1" => k \notin skip)
  BY DEF SkipInv, HeldUnskipped, TurtlePosition, Keys
<1>2. trades' = Append(trades, t) /\ skip' = SkipAfter(k, p.system, pnl, skip)
      /\ positions' = Without(positions, s)
  BY DEF CloseOut
<1>3. t.key = k /\ t.system = p.system /\ t.pnl = pnl
  OBVIOUS
<1> HIDE DEF t, pnl
<1>4. skip' = IF won THEN skip \cup {t.key} ELSE skip
  BY <1>2, <1>3 DEF SkipAfter
<1>5. won \in BOOLEAN /\ (won <=> t.system = "S1" /\ t.pnl > 0) /\ (won => t.key \in Keys \ skip)
  BY <1>1, <1>3
<1>6. \A u \in DOMAIN positions' : u \in DOMAIN positions /\ u # s /\ positions'[u] = positions[u]
  BY <1>2 DEF Without, Restrict
<1>7. skip' \subseteq skip \cup {k}
  BY <1>3, <1>4
<1> HIDE DEF won, k, p
<1>8. SkipCounts'
  BY <1>2, <1>4, <1>5, WinnerCounted DEF SkipInv
<1>9. HeldUnskipped'
  <2> SUFFICES ASSUME NEW u \in DOMAIN positions'
               PROVE  /\ u \in Symbols /\ TurtlePosition(positions[u])
                      /\ positions[u].system = "S1" => <<u, positions[u].direction>> \notin skip'
    BY <1>6 DEF HeldUnskipped
  <2>1. u # s /\ <<u, positions[u].direction>> # k
    BY <1>6 DEF k
  <2> QED BY <1>6, <1>7, <2>1 DEF SkipInv, HeldUnskipped
<1> QED BY <1>8, <1>9 DEF SkipInv

\* The direction of a unit that is bought is the one that is allowed, and an
\* entry by S1 has no skip that waits for it.
LEMMA SkipBuy ==
  ASSUME HeldUnskipped, command # "momentum", command' = command, NEW s \in Symbols, NEW direction,
         NEW signal, NEW qty, NEW position, Buy(s, direction, signal, qty, position),
         TurtlePosition(position), skip' \subseteq skip,
         position.system = "S1" => <<s, position.direction>> \notin skip
  PROVE  HeldUnskipped' /\ trades' = trades
<1>1. CASE UNCHANGED account
  BY <1>1 DEF account, HeldUnskipped
<1>2. CASE positions' = With(positions, s, position) /\ trades' = trades
  <2>1. \A u \in DOMAIN positions' : IF u = s THEN positions'[u] = position
                                     ELSE u \in DOMAIN positions /\ positions'[u] = positions[u]
    BY <1>2 DEF With
  <2> QED BY <1>2, <2>1 DEF HeldUnskipped
<1> QED BY <1>1, <1>2 DEF Buy, Block

LEMMA SkipPyramid ==
  ASSUME SkipInv, command # "momentum", command' = command, NEW s \in Symbols, Pyramid(s)
  PROVE  SkipInv'
<1> DEFINE p == positions[s]
<1>1. s \in DOMAIN positions /\ UNCHANGED <<skip, skipped>>
  BY DEF Pyramid
<1>2. PICK signal, fill, qty : Buy(s, p.direction, signal, qty, WithUnit(p, fill, qty))
  BY DEF Pyramid
<1>3. TurtlePosition(p) /\ (p.system = "S1" => <<s, p.direction>> \notin skip)
  BY <1>1 DEF SkipInv, HeldUnskipped
<1> HIDE DEF p
<1> DEFINE q == WithUnit(p, fill, qty)
<1>4. TurtlePosition(q) /\ q.system = p.system /\ q.direction = p.direction
  BY <1>3 DEF WithUnit, TurtlePosition
<1> HIDE DEF q
<1>5. HeldUnskipped' /\ trades' = trades
  BY <1>1, <1>2, <1>3, <1>4, SkipBuy DEF SkipInv, q
<1> QED BY <1>1, <1>5, SkipKept DEF SkipInv

LEMMA SpentInSkip == ASSUME NEW s PROVE Used(s) \in SUBSET skip
  BY DEF Used, SkipUsed

\* A breakout of S2 comes first, and one of S1 only where no skip waits.
LEMMA EntryUnskipped ==
  ASSUME NEW s, NEW direction, NEW signal \in EntryIn(s, direction)
  PROVE  signal.system = "S1" => <<s, direction>> \notin skip
  BY DEF EntryIn, EntrySignals, Signal

LEMMA SkipEnter ==
  ASSUME SkipInv, command # "momentum", command' = command, NEW s \in Symbols, Enter(s)
  PROVE  SkipInv'
<1>1. PICK i \in Taken(s) : \E signal \in EntryIn(s, Allowed[i]) : \E fill, n, qty :
        Buy(s, Allowed[i], signal, qty, Opened(signal, Allowed[i], fill, n, qty))
  BY DEF Enter
<1> DEFINE d == Allowed[i]
<1>2. PICK signal \in EntryIn(s, d) : \E fill, n, qty : Buy(s, d, signal, qty, Opened(signal, d, fill, n, qty))
  BY <1>1
<1>3. PICK fill, n, qty : Buy(s, d, signal, qty, Opened(signal, d, fill, n, qty))
  BY <1>2
<1>4. d \in Directions
  BY BacktestConstantsOK DEF Taken, Tried
<1>5. signal.system = "S1" => <<s, d>> \notin skip
  BY EntryUnskipped
<1> HIDE DEF d
<1> DEFINE q == Opened(signal, d, fill, n, qty)
<1>6. TurtlePosition(q) /\ q.system = signal.system /\ q.direction = d
  BY <1>4 DEF Opened, TurtlePosition
<1> HIDE DEF q
<1>7. skip' = skip \ Used(s)
      /\ skipped' = [k \in Keys |-> IF k \in Used(s) THEN skipped[k] + 1 ELSE skipped[k]]
  BY DEF Enter
<1>8. HeldUnskipped' /\ trades' = trades
  BY <1>3, <1>5, <1>6, <1>7, SkipBuy DEF SkipInv, q
<1>9. SkipCounts'
  BY <1>7, <1>8, SpentInSkip, SkipsSpent DEF SkipInv
<1> QED BY <1>8, <1>9 DEF SkipInv

LEMMA SkipSession ==
  ASSUME SkipInv, command # "momentum", command' = command, SessionStep
  PROVE  SkipInv'
<1>1. CASE OpenSession \/ ExitsDone \/ EndSession
  BY <1>1, SkipKept, HeldKept DEF OpenSession, ExitsDone, EndSession, account, SkipInv
<1>2. ASSUME NEW s \in Symbols, Exit(s) PROVE SkipInv'
  BY <1>2, SkipExit DEF Exit
<1>3. ASSUME NEW s \in Symbols, Keep(s) PROVE SkipInv'
  BY <1>3, SkipKept, HeldKept DEF Keep, account, SkipInv
<1>4. ASSUME NEW s \in Symbols, Pass(s) PROVE SkipInv'
  <2>1. UNCHANGED <<trades, positions>>
    BY <1>4 DEF Pass, account
  <2>2. CASE UNCHANGED <<skip, skipped>>
    BY <2>1, <2>2, SkipKept, HeldKept DEF SkipInv
  <2>3. CASE skip' = skip \ Used(s)
             /\ skipped' = [k \in Keys |-> IF k \in Used(s) THEN skipped[k] + 1 ELSE skipped[k]]
    BY <2>1, <2>3, SpentInSkip, SkipsSpent, HeldKept DEF SkipInv
  <2> QED BY <1>4, <2>2, <2>3 DEF Pass
<1> QED BY <1>1, <1>2, <1>3, <1>4, SkipPyramid, SkipEnter DEF SessionStep

LEMMA SkipMomentum ==
  ASSUME SkipInv, command = "momentum", command' = command, UNCHANGED <<skip, skipped>>,
         Momentum!MomentumNext
  PROVE  SkipInv'
<1>1. HeldUnskipped'
  BY DEF HeldUnskipped
<1>2. CASE trades' = trades
  BY <1>1, <1>2, SkipKept DEF SkipInv
<1>3. ASSUME NEW s, Momentum!MomentumExit(s) PROVE SkipInv'
  <2>1. PICK t : t.system = "MOMENTUM" /\ trades' = Append(trades, t)
    BY <1>3 DEF Momentum!MomentumExit
  <2> DEFINE won == FALSE
  <2>2. won \in BOOLEAN /\ (won <=> t.system = "S1" /\ t.pnl > 0)
    BY <2>1
  <2>3. SkipCounts'
    BY <2>1, <2>2, WinnerCounted DEF SkipInv
  <2> QED BY <1>1, <2>3 DEF SkipInv
<1> QED BY <1>2, <1>3
        DEF Momentum!MomentumNext, Momentum!MomentumOpen, Momentum!MomentumRank, Momentum!MomentumStop,
            Momentum!MomentumEnd, Momentum!MomentumKeep, Momentum!MomentumSkip, Momentum!MomentumEnter

LEMMA SkipPreserved == SkipInv /\ [BacktestsNext]_vars => SkipInv'
<1> SUFFICES ASSUME SkipInv, [BacktestsNext]_vars PROVE SkipInv'
  OBVIOUS
<1>1. command' = command
  BY DEF BacktestsNext, Single, Portfolio, Scan, MomentumRun, vars
<1>2. CASE UNCHANGED <<trades, skip, skipped, positions>>
  BY <1>1, <1>2, SkipKept, HeldKept DEF SkipInv
<1>3. \A batch, keys : Load(batch, keys) => UNCHANGED <<trades, skip, skipped, positions>>
  BY DEF Load, account
<1>4. PitMissing => UNCHANGED <<trades, skip, skipped, positions>>
  BY DEF PitMissing, account
<1>5. UNCHANGED vars => UNCHANGED <<trades, skip, skipped, positions>>
  BY DEF vars, scanVars, backtestVars, account
<1> QED BY <1>1, <1>2, <1>3, <1>4, <1>5, SkipSession, SkipMomentum
        DEF BacktestsNext, Single, Portfolio, Scan, MomentumRun, ScanDay

\* Every winning S1 trade makes one later S1 breakout be skipped, and only one.
THEOREM WinnersSkipOnce == BacktestsSpec => []OneSkipPerWinner
<1>1. SkipInv => OneSkipPerWinner
  BY DEF SkipInv, SkipCounts, WonS1, OneSkipPerWinner
<1> QED BY SkipStart, SkipPreserved, <1>1, PTL DEF BacktestsSpec

-----------------------------------------------------------------------------
(* What a scan lets in *)

Hold == Max({HoldDays, 1})

LEMMA HoldIs == Hold \in Nat \ {0}
<1>1. \E m \in {HoldDays, 1} : \A n \in {HoldDays, 1} : m >= n
  <2>1. CASE HoldDays >= 1
    BY <2>1, ScanConstantsOK
  <2>2. CASE ~(HoldDays >= 1)
    BY <2>2, ScanConstantsOK
  <2> QED BY <2>1, <2>2
<1>2. Max({HoldDays, 1}) \in {HoldDays, 1} /\ Max({HoldDays, 1}) >= 1
  BY <1>1 DEF Max
<1> QED BY <1>2, ScanConstantsOK DEF Hold

\* What the filters of a session let in was accepted in it or not long before.
LetIn(k, day) ==
  /\ Eligible(k[1], day)
  /\ \E before \in 0..(Hold - 1) : before < day /\ k \in decisions[day - before]

\* An acceptance with n sessions left was renewed Hold - 1 - n sessions ago.
Remembered(k, n, day) ==
  n \in 1..(Hold - 1) /\ Hold - 1 - n < day /\ k \in decisions[day - (Hold - 1 - n)]

Scanned ==
  /\ IsSequence(tape) /\ IsSequence(admitted) /\ IsSequence(decisions)
  /\ Len(admitted) = Len(tape) /\ Len(decisions) = Len(tape)
  /\ \A day \in DOMAIN admitted : \A k \in admitted[day] : LetIn(k, day)
  /\ \A k \in DOMAIN active : Remembered(k, active[k], Len(tape))
  /\ phase = "input" => audit = <<>> /\ session = 1
  /\ phase \in {"exits", "entries", "between"} => Len(tape) = Sessions /\ session \in 1..Sessions
  /\ EntriesWereAccepted

ScanInv == command = "scan" => Scanned

LEMMA ScanStart == BacktestsInit => ScanInv
<1> SUFFICES ASSUME BacktestsInit PROVE Scanned
  BY DEF ScanInv
<1>1. /\ tape = <<>> /\ admitted = <<>> /\ decisions = <<>> /\ active = <<>> /\ audit = <<>>
      /\ session = 1 /\ phase = "input"
  BY DEF BacktestsInit, ScanInit, BacktestInit
<1>2. DOMAIN active = {}
  BY <1>1
<1> QED BY <1>1, <1>2, Emptied DEF Scanned, EntriesWereAccepted

LEMMA ScanDays ==
  ASSUME Scanned, command = "scan", command' = command, NEW batch, ScanDay(batch)
  PROVE  Scanned'
<1> DEFINE L == Len(tape)
           new == Accepted(L + 1)
           held == [k \in DOMAIN active \cup new |-> IF k \in new THEN Hold ELSE active[k]]
<1>1. /\ phase = "input" /\ UNCHANGED <<phase, session, audit, pit>>
      /\ tape' = Append(tape, batch)
      /\ admitted' = Append(admitted, {k \in DOMAIN held : Eligible(k[1], L + 1)})
      /\ decisions' = Append(decisions, new)
      /\ active' = Aged(held)
  BY DEF ScanDay, Admitted, Load, Hold
<1>2. /\ L \in Nat /\ IsSequence(tape') /\ Len(tape') = L + 1
      /\ IsSequence(admitted') /\ Len(admitted') = L + 1 /\ DOMAIN admitted = 1..L
      /\ DOMAIN admitted' = 1..(L + 1) /\ \A i \in 1..L : admitted'[i] = admitted[i]
      /\ admitted'[L + 1] = {k \in DOMAIN held : Eligible(k[1], L + 1)}
      /\ IsSequence(decisions') /\ Len(decisions') = L + 1
      /\ \A i \in 1..L : decisions'[i] = decisions[i]
      /\ decisions'[L + 1] = new
  <2> HIDE DEF new, held
  <2> QED BY <1>1, Appended DEF Scanned
<1>3. \A k \in DOMAIN held : /\ held[k] \in 1..Hold /\ Hold - held[k] < L + 1
                             /\ k \in decisions'[L + 1 - (Hold - held[k])]
  <2> TAKE k \in DOMAIN held
  <2> HIDE DEF new
  <2>1. CASE k \in new
    <3>1. held[k] = Hold
      BY <2>1
    <3> HIDE DEF held
    <3> QED BY <1>2, <2>1, <3>1, HoldIs
  <2>2. CASE k \notin new
    <3>1. k \in DOMAIN active /\ held[k] = active[k]
      BY <2>2
    <3> HIDE DEF held
    <3>2. Remembered(k, held[k], L)
      BY <3>1 DEF Scanned
    <3>3. L - (Hold - 1 - held[k]) \in 1..L /\ L + 1 - (Hold - held[k]) = L - (Hold - 1 - held[k])
      BY <1>2, <3>2, HoldIs DEF Remembered
    <3> QED BY <1>2, <3>2, <3>3, HoldIs DEF Remembered
  <2> QED BY <2>1, <2>2
<1>4. \A k \in DOMAIN active' : k \in DOMAIN held /\ held[k] > 1 /\ active'[k] = held[k] - 1
  BY <1>1 DEF Aged
<1> HIDE DEF new, held
<1>5. \A day \in DOMAIN admitted' : \A k \in admitted'[day] : LetIn(k, day)'
  <2> TAKE day \in DOMAIN admitted'
  <2> TAKE k \in admitted'[day]
  <2>0. Eligible(k[1], day)' <=> Eligible(k[1], day)
    BY <1>1 DEF Eligible
  <2>1. CASE day = L + 1
    <3>1. k \in DOMAIN held /\ Eligible(k[1], day)
      BY <1>2, <2>1
    <3>2. /\ Hold - held[k] \in 0..(Hold - 1) /\ Hold - held[k] < day
          /\ k \in decisions'[day - (Hold - held[k])]
      BY <1>2, <1>3, <2>1, <3>1, HoldIs
    <3> QED BY <2>0, <3>1, <3>2 DEF LetIn
  <2>2. CASE day \in 1..L
    <3>1. LetIn(k, day)
      BY <1>2, <2>2 DEF Scanned
    <3>2. PICK before \in 0..(Hold - 1) : before < day /\ k \in decisions[day - before]
      BY <3>1 DEF LetIn
    <3>3. day - before \in 1..L
      BY <1>2, <2>2, <3>2, HoldIs
    <3>4. k \in decisions'[day - before]
      BY <1>2, <3>2, <3>3
    <3> QED BY <2>0, <3>1, <3>2, <3>4 DEF LetIn
  <2> QED BY <1>2, <2>1, <2>2
<1>6. \A k \in DOMAIN active' : Remembered(k, active[k], Len(tape))'
  <2> TAKE k \in DOMAIN active'
  <2>1. k \in DOMAIN held /\ held[k] > 1 /\ active'[k] = held[k] - 1
    BY <1>4
  <2>2. held[k] \in 1..Hold /\ Hold - held[k] < L + 1 /\ k \in decisions'[L + 1 - (Hold - held[k])]
    BY <1>3, <2>1
  <2>3. active'[k] \in 1..(Hold - 1) /\ Hold - 1 - active'[k] = Hold - held[k]
    BY <2>1, <2>2, HoldIs
  <2> DEFINE m == active'[k]
             D == decisions'
  <2>4. L \in Nat /\ Len(tape') = L + 1 /\ m \in 1..(Hold - 1) /\ Hold - 1 - m < L + 1 /\ k \in D[L + 1 - (Hold - 1 - m)]
    BY <1>2, <2>2, <2>3
  <2>5. m \in 1..(Hold - 1) /\ Hold - 1 - m < Len(tape') /\ k \in D[Len(tape') - (Hold - 1 - m)]
    <3> DEFINE z == Len(tape')
               c == Hold - 1 - m
    <3>1. L \in Nat /\ c \in Int /\ z = L + 1 /\ k \in D[L + 1 - c] /\ c < L + 1
      BY <2>4, HoldIs
    <3> HIDE DEF m, D, L, z, c
    <3>2. c < z /\ k \in D[z - c]
      BY <3>1
    <3> QED BY <2>4, <3>2 DEF z, c
  <2> QED BY <2>5 DEF Remembered
<1>7. audit' = <<>> /\ session' = 1 /\ phase' = "input"
  BY <1>1 DEF Scanned
<1>8. EntriesWereAccepted'
  <2>1. DOMAIN audit' = {}
    BY <1>7
  <2> QED BY <2>1 DEF EntriesWereAccepted
<1> QED BY <1>2, <1>5, <1>6, <1>7, <1>8 DEF Scanned

\* A step that leaves the scan alone and books no entry.
LEMMA ScanStays ==
  ASSUME Scanned, UNCHANGED <<tape, admitted, decisions, active, pit, command>>,
         phase' = "input" => phase = "input" /\ UNCHANGED <<audit, session>>,
         phase' \in {"exits", "entries", "between"} => Len(tape) = Sessions /\ session' \in 1..Sessions,
         EntriesWereAccepted'
  PROVE  Scanned'
<1>1. \A day \in DOMAIN admitted' : \A k \in admitted'[day] : LetIn(k, day)'
  BY DEF Scanned, LetIn, Eligible
<1>2. \A k \in DOMAIN active' : Remembered(k, active[k], Len(tape))'
  BY DEF Scanned, Remembered
<1> QED BY <1>1, <1>2 DEF Scanned

\* An event that is no entry, or an entry that the filters let in.
LEMMA EventAccepted ==
  ASSUME Scanned, command = "scan", UNCHANGED <<decisions, pit, command>>, IsSequence(audit), NEW e,
         audit' = Append(audit, e),
         e.kind = "ENTRY" => /\ e.symbol \in Symbols
                              /\ LetIn(<<e.symbol, SignalDirection(e.side)>>, e.session)
  PROVE  EntriesWereAccepted'
<1> DEFINE n == Len(audit)
<1>1. /\ n \in Nat /\ DOMAIN audit = 1..n /\ DOMAIN audit' = 1..(n + 1)
      /\ \A i \in 1..n : audit'[i] = audit[i]
      /\ audit'[n + 1] = e
  BY Appended
<1> HIDE DEF n
<1> DEFINE Good(x) == /\ Eligible(x.symbol, x.session)
                      /\ \E before \in 0..(Max({HoldDays, 1}) - 1) :
                           /\ before < x.session
                           /\ <<x.symbol, SignalDirection(x.side)>> \in decisions[x.session - before]
<1>2. \A i \in DOMAIN audit : audit[i].kind = "ENTRY" => Good(audit[i])
  BY DEF Scanned, EntriesWereAccepted
<1>3. e.kind = "ENTRY" => Good(e)
  <2> DEFINE k == <<e.symbol, SignalDirection(e.side)>>
  <2> SUFFICES ASSUME e.kind = "ENTRY" PROVE Good(e)
    OBVIOUS
  <2>1. LetIn(k, e.session) /\ k[1] = e.symbol
    OBVIOUS
  <2> QED BY <2>1 DEF LetIn, Hold
<1>4. \A i \in DOMAIN audit' : audit'[i].kind = "ENTRY" => Good(audit'[i])
  <2> HIDE DEF Good
  <2> QED BY <1>1, <1>2, <1>3
<1> QED BY <1>4 DEF EntriesWereAccepted, Eligible

LEMMA AcceptedKept ==
  ASSUME EntriesWereAccepted, UNCHANGED <<audit, decisions, pit, command>>
  PROVE  EntriesWereAccepted'
  BY DEF EntriesWereAccepted, Eligible

LEMMA BuyAccepted ==
  ASSUME Scanned, command = "scan", UNCHANGED <<decisions, pit, command>>, IsSequence(audit),
         NEW s, NEW direction, NEW signal, NEW qty, NEW position, Buy(s, direction, signal, qty, position),
         signal.kind = "ENTRY" => s \in Symbols /\ LetIn(<<s, SignalDirection(signal.side)>>, session)
  PROVE  EntriesWereAccepted'
<1>1. ASSUME NEW reason \in {"cap", "unit_qty_zero", "insufficient_cash"}, Block(s, reason)
      PROVE  EntriesWereAccepted'
  <2> DEFINE e == Event(reason, "none", s, 0)
  <2>1. e.kind # "ENTRY" /\ audit' = Append(audit, e)
    BY <1>1 DEF Event, Block
  <2> HIDE DEF e
  <2> QED BY <2>1, EventAccepted
<1>2. ASSUME NEW price, audit' = Append(audit, Event(signal.kind, signal.side, s, price)) PROVE EntriesWereAccepted'
  <2> DEFINE e == Event(signal.kind, signal.side, s, price)
  <2>1. e.session = session /\ e.kind = signal.kind /\ e.side = signal.side /\ e.symbol = s /\ audit' = Append(audit, e)
    BY <1>2 DEF Event
  <2> HIDE DEF e
  <2> QED BY <2>1, EventAccepted
<1> QED BY <1>1, <1>2 DEF Buy

LEMMA SessionAccepted ==
  ASSUME Scanned, command = "scan", UNCHANGED <<decisions, pit, command>>, IsSequence(audit), SessionStep
  PROVE  EntriesWereAccepted'
<1>1. CASE audit' = audit
  BY <1>1, AcceptedKept DEF Scanned
<1>2. ASSUME NEW s \in Symbols, Exit(s) PROVE EntriesWereAccepted'
  <2>1. PICK signal \in ExitsOf(s) : CloseOut(s, signal)
    BY <1>2 DEF Exit
  <2> DEFINE price == FillPrice(Batch[s], signal)
  <2> DEFINE e == Event(signal.kind, signal.side, s, price)
  <2>2. e.kind # "ENTRY" /\ audit' = Append(audit, e)
    BY <2>1 DEF CloseOut, Event, ExitsOf, ExitSignals
  <2> HIDE DEF e
  <2> QED BY <2>2, EventAccepted
<1>3. ASSUME NEW s \in Symbols, Pyramid(s) PROVE EntriesWereAccepted'
  <2>1. PICK signal \in UnitsOf(s) : \E qty, position : Buy(s, positions[s].direction, signal, qty, position)
    BY <1>3 DEF Pyramid
  <2>2. signal.kind # "ENTRY"
    BY DEF UnitsOf, PyramidSignals
  <2> QED BY <2>1, <2>2, BuyAccepted
<1>4. ASSUME NEW s \in Symbols, Enter(s) PROVE EntriesWereAccepted'
  <2>6. PICK i \in Taken(s) : \E signal \in EntryIn(s, Allowed[i]) : \E qty, position :
          Buy(s, Allowed[i], signal, qty, position)
    BY <1>4 DEF Enter
  <2>1. PICK signal \in EntryIn(s, Allowed[i]) : \E qty, position :
          Buy(s, Allowed[i], signal, qty, position)
    BY <2>6
  <2>5. SignalDirection(signal.side) = Allowed[i]
    <3>1. Allowed[i] \in Directions
      BY BacktestConstantsOK DEF Taken, Tried
    <3>2. signal.side = EntrySide(Allowed[i])
      BY DEF EntryIn, EntrySignals, Signal
    <3> QED BY <3>1, <3>2 DEF SignalDirection, EntrySide, Directions
  <2> DEFINE k == <<s, Allowed[i]>>
  <2>2. k \in Symbols \X Directions /\ k[1] = s /\ k \in admitted[session]
    BY BacktestConstantsOK DEF Taken, Tried
  <2>3. session \in DOMAIN admitted
    <3>1. session \in 1..Len(admitted)
      BY <1>4 DEF Enter, Scanned
    <3>2. DOMAIN admitted = 1..Len(admitted)
      BY Appended DEF Scanned
    <3> QED BY <3>1, <3>2
  <2>4. LetIn(k, session)
    BY <2>2, <2>3 DEF Scanned
  <2> QED BY <2>1, <2>4, <2>5, BuyAccepted
<1> QED BY <1>1, <1>2, <1>3, <1>4 DEF SessionStep, OpenSession, ExitsDone, EndSession, Keep, Pass

LEMMA ScanSession ==
  ASSUME Scanned, command = "scan", UNCHANGED <<active, decisions, pit, command>>, IsSequence(audit),
         session \in Nat, SessionStep
  PROVE  Scanned'
<1>1. EntriesWereAccepted' /\ UNCHANGED <<tape, admitted>>
  BY SessionAccepted
     DEF SessionStep, OpenSession, ExitsDone, EndSession, Exit, Keep, Pyramid, Enter, Pass, input
<1>2. /\ phase' # "input"
      /\ phase' \in {"exits", "entries", "between"} => Len(tape) = Sessions /\ session' \in 1..Sessions
  <2>1. CASE OpenSession
    <3>1. session' = session /\ phase' = "exits" /\ Sessions \in Nat
      BY <2>1, BacktestConstantsOK DEF OpenSession
    <3>2. CASE phase = "input" /\ Len(tape) = Sessions /\ Sessions > 0
      BY <3>1, <3>2 DEF Scanned
    <3>3. CASE phase = "between"
      BY <3>1, <3>3 DEF Scanned
    <3> QED BY <2>1, <3>2, <3>3 DEF OpenSession
  <2>2. CASE ExitsDone
    BY <2>2 DEF ExitsDone, Scanned
  <2>3. CASE EndSession
    BY <2>3, BacktestConstantsOK DEF EndSession, Scanned
  <2>4. ASSUME NEW s, Exit(s) \/ Keep(s) \/ Pyramid(s) \/ Enter(s) \/ Pass(s)
        PROVE  UNCHANGED <<phase, session>> /\ phase \in {"exits", "entries"}
    BY <2>4 DEF Exit, Keep, Pyramid, Enter, Pass
  <2> QED BY <2>1, <2>2, <2>3, <2>4 DEF SessionStep, Scanned
<1> QED BY <1>1, <1>2, ScanStays

LEMMA ScanPreserved == AuditInv /\ ScanInv /\ [BacktestsNext]_vars => ScanInv'
<1> SUFFICES ASSUME AuditInv, ScanInv, [BacktestsNext]_vars, command' = "scan" PROVE Scanned'
  BY DEF ScanInv
<1>1. command' = command /\ command = "scan" /\ Scanned
  BY DEF BacktestsNext, Single, Portfolio, Scan, MomentumRun, vars, ScanInv
<1>2. ASSUME NEW batch, ScanDay(batch) PROVE Scanned'
  BY <1>1, <1>2, ScanDays
<1>3. CASE PitMissing
  <2>1. UNCHANGED <<tape, admitted, decisions, active, pit, audit>> /\ phase' = "failed"
    BY <1>3 DEF PitMissing, input
  <2> QED BY <1>1, <2>1, AcceptedKept, ScanStays DEF Scanned
<1>4. CASE UNCHANGED vars
  <2>1. UNCHANGED <<tape, admitted, decisions, active, pit, audit, phase, session>>
    BY <1>4 DEF vars, scanVars, backtestVars, input
  <2> QED BY <1>1, <2>1, AcceptedKept, ScanStays DEF Scanned
<1>5. CASE SessionStep /\ UNCHANGED <<pit, active, decisions>>
  BY <1>1, <1>5, ScanSession DEF AuditInv
<1> QED BY <1>1, <1>2, <1>3, <1>4, <1>5 DEF BacktestsNext, Single, Portfolio, Scan, MomentumRun

\* A scan's backtest enters only a symbol and direction accepted in the session or
\* within the HoldDays - 1 before it, and eligible on that day.
THEOREM EntriesAreAccepted == BacktestsSpec => []EntriesWereAccepted
<1>1. ScanInv => EntriesWereAccepted
  BY DEF ScanInv, Scanned, EntriesWereAccepted
<1> QED BY AuditStart, AuditPreserved, ScanStart, ScanPreserved, <1>1, PTL DEF BacktestsSpec

-----------------------------------------------------------------------------
(* The books: what the engines keep has its type, and the cash is accounted *)
(* for.                                                                      *)

Position == [system : Systems, direction : Directions, qty : Int, entryN : Nat,
             stop : Int, last : Int, units : Nat]

TapeOK ==
  /\ command \in DOMAIN Batches /\ pit \in PitUniverses
  /\ phase \in {"input", "between", "exits", "entries", "done", "failed"}
  /\ IsSequence(tape) /\ Len(tape) <= Sessions
  /\ \A i \in 1..Len(tape) : tape[i] \in Batches[command][i]
  /\ session \in 1..Max({Sessions, 1})
  /\ phase = "input" => session = 1
  /\ phase \in {"between", "exits", "entries", "done"} =>
       Len(tape) = Sessions /\ session \in 1..Sessions

MarksOK ==
  /\ histories \in [Symbols -> Seq(Bar)]
  /\ DOMAIN closes \subseteq Symbols /\ \A s \in DOMAIN closes : closes[s] \in Price

\* What is visited has a candle, and a candle that was visited has been marked.
VisitsOK ==
  /\ todo \subseteq Symbols /\ exited \subseteq Symbols
  /\ IF command = "momentum"
     THEN /\ phase = "exits" => todo \subseteq DOMAIN positions
          /\ Trading => DOMAIN Batch \subseteq DOMAIN closes
     ELSE /\ Trading => todo \subseteq DOMAIN Batch
          /\ phase = "exits" => DOMAIN Batch \ todo \subseteq DOMAIN closes
          /\ phase = "entries" => DOMAIN Batch \subseteq DOMAIN closes

\* The stop of a turtle position is that of its last fill.
HoldingsOK ==
  /\ IsFiniteSet(DOMAIN positions) /\ DOMAIN positions \subseteq DOMAIN closes
  /\ IF command = "momentum"
     THEN \A s \in DOMAIN positions : positions[s].qty \in Int /\ positions[s].cost \in Int
     ELSE /\ DOMAIN openCosts = DOMAIN positions
          /\ \A s \in DOMAIN positions :
               /\ positions[s] \in Position /\ openCosts[s] \in Int
               /\ positions[s].stop =
                    StopFor(positions[s].direction, positions[s].last, positions[s].entryN)

LedgerOK ==
  /\ cash \in Int /\ skip \subseteq Keys
  /\ IsSequence(trades) /\ \A i \in DOMAIN trades : trades[i].pnl \in Int
  /\ CashAccounted

Books == TapeOK /\ MarksOK /\ VisitsOK /\ HoldingsOK /\ LedgerOK

LEMMA MaxSession ==
  /\ Max({Sessions, 1}) \in Nat /\ 1..Sessions \subseteq 1..Max({Sessions, 1})
  /\ 1 \in 1..Max({Sessions, 1})
<1>1. Sessions \in Nat /\ Sessions \in Int /\ 1 \in Int
  BY BacktestConstantsOK
<1>2. Max({Sessions, 1}) = IF Sessions <= 1 THEN 1 ELSE Sessions
  BY <1>1, GreaterOf
<1> QED BY <1>1, <1>2

LEMMA BooksStart == BacktestsInit => Books
<1> SUFFICES ASSUME BacktestsInit PROVE Books
  OBVIOUS
<1>1. /\ tape = <<>> /\ session = 1 /\ phase = "input" /\ todo = {} /\ exited = {}
      /\ histories = [s \in Symbols |-> <<>>] /\ closes = <<>> /\ cash = InitialEquity
      /\ positions = <<>> /\ openCosts = <<>> /\ skip = {} /\ trades = <<>>
      /\ pit \in PitUniverses /\ command \in DOMAIN Batches
  BY DEF BacktestsInit, ScanInit, BacktestInit
<1>2. TapeOK
  <2>1. Len(tape) = 0 /\ Sessions \in Nat /\ IsSequence(tape)
    BY <1>1, Emptied, BacktestConstantsOK
  <2> QED BY <1>1, <2>1, MaxSession DEF TapeOK
<1>3. DOMAIN positions = {} /\ DOMAIN closes = {} /\ DOMAIN openCosts = {} /\ DOMAIN trades = {}
      /\ IsSequence(trades)
  BY <1>1, Emptied
<1>4. MarksOK /\ VisitsOK
  BY <1>1, <1>3 DEF MarksOK, VisitsOK, Trading
<1>5. HoldingsOK
  BY <1>1, <1>3, FS_EmptySet DEF HoldingsOK
<1>6. CashAccounted
  <2> DEFINE f == [i \in DOMAIN trades |-> trades[i].pnl]
             g == [s \in DOMAIN positions |-> TiedUp(s)]
  <2>1. DOMAIN f = {} /\ DOMAIN g = {}
    BY <1>3
  <2> HIDE DEF f, g
  <2>2. SumFunction(f) = 0 /\ SumFunction(g) = 0
    BY <2>1, SumNone
  <2>3. InitialEquity = InitialEquity + 0 - 0
    BY BacktestConstantsOK
  <2> QED BY <1>1, <2>2, <2>3 DEF CashAccounted, f, g
<1>7. LedgerOK
  BY <1>1, <1>3, <1>6, BacktestConstantsOK DEF LedgerOK
<1> QED BY <1>2, <1>4, <1>5, <1>7 DEF Books

\* The candles of the session under way.
LEMMA Candle ==
  ASSUME TapeOK, session \in 1..Len(tape)
  PROVE  DOMAIN Batch \subseteq Symbols /\ \A s \in DOMAIN Batch : Batch[s] \in Bar
<1>1. session \in 1..Sessions
  BY Appended, BacktestConstantsOK DEF TapeOK
<1>2. tape[session] \in Batches[command][session] /\ command \in DOMAIN Batches
  BY DEF TapeOK
<1> QED BY <1>1, <1>2, BatchesOK DEF Batch

LEMMA CandleNow ==
  ASSUME TapeOK, phase \in {"between", "exits", "entries"}
  PROVE  DOMAIN Batch \subseteq Symbols /\ \A s \in DOMAIN Batch : Batch[s] \in Bar
<1>1. session \in 1..Len(tape)
  BY DEF TapeOK
<1> QED BY <1>1, Candle

-----------------------------------------------------------------------------
(* Fills *)

LEMMA FeeInt == \A gross \in Int : Fee(gross) \in Int
<1> SUFFICES ASSUME NEW gross \in Int PROVE Fee(gross) \in Int
  OBVIOUS
<1>1. CommissionPct \in Int /\ FixedCommission \in Int
  BY CostConstantsOK
<1>2. gross * CommissionPct \in Int
  BY <1>1, ProductInt
<1>3. (gross * CommissionPct) \div 100 \in Int
  BY <1>2, QuotientInt
<1> QED BY <1>1, <1>3 DEF Fee

LEMMA DeltasInt ==
  ASSUME NEW price \in Int, NEW qty \in Int, NEW direction
  PROVE  EntryDelta(direction, price, qty) \in Int /\ ExitDelta(direction, price, qty) \in Int
<1>1. price * qty \in Int
  BY ProductInt
<1>2. Fee(price * qty) \in Int
  BY <1>1, FeeInt
<1>3. (price * qty * TaxPct) \div 100 \in Int
  <2>1. TaxPct \in Int
    BY CostConstantsOK
  <2>2. (price * qty) * TaxPct \in Int
    BY <1>1, <2>1, ProductInt
  <2> QED BY <2>2, QuotientInt
<1>4. BuyDelta(price, qty) \in Int
  BY <1>1, <1>2 DEF BuyDelta
<1>5. SellDelta(price, qty) \in Int
  BY <1>1, <1>2, <1>3 DEF SellDelta
<1> QED BY <1>4, <1>5 DEF EntryDelta, ExitDelta

LEMMA SlippedOrder ==
  ASSUME NEW side, NEW x \in Int, NEW y \in Int, 0 <= x, x <= y
  PROVE  /\ Slipped(side, x) \in Int /\ Slipped(side, y) \in Int
         /\ Slipped(side, x) <= Slipped(side, y)
         /\ side = "SELL" => Slipped(side, y) <= y
         /\ side # "SELL" => y <= Slipped(side, y)
<1> DEFINE rate == IF side = "SELL" THEN 100 - SlippagePct ELSE 100 + SlippagePct
           a == x * rate
           c == y * rate
<1>1. /\ rate \in Nat
      /\ side = "SELL" => rate <= 100
      /\ side # "SELL" => 100 <= rate
  BY CostConstantsOK
<1>2. Slipped(side, x) = a \div 100 /\ Slipped(side, y) = c \div 100
  BY DEF Slipped
<1> HIDE DEF rate
<1>3. a \in Int /\ c \in Int
  BY <1>1, ProductInt
<1>4. a <= c
  <2>1. (y - x) * rate >= 0
    BY <1>1
  <2>2. (y - x) * rate = c - a
    BY <1>1
  <2> QED BY <1>3, <2>1, <2>2
<1>5. side = "SELL" => c <= 100 * y
  <2> SUFFICES ASSUME side = "SELL" PROVE c <= 100 * y
    OBVIOUS
  <2>1. y * (100 - rate) >= 0
    BY <1>1
  <2>2. y * (100 - rate) = 100 * y - c
    BY <1>1
  <2> QED BY <1>3, <2>1, <2>2
<1>6. side # "SELL" => 100 * y <= c
  <2> SUFFICES ASSUME side # "SELL" PROVE 100 * y <= c
    OBVIOUS
  <2>1. y * (rate - 100) >= 0
    BY <1>1
  <2>2. y * (rate - 100) = c - 100 * y
    BY <1>1
  <2> QED BY <1>3, <2>1, <2>2
<1> HIDE DEF a, c
<1> QED BY <1>2, <1>3, <1>4, <1>5, <1>6

\* What the bar and its slippage allow.
Allows(b, side, price) ==
  IF side = "SELL" THEN Slipped("SELL", b.low) <= price /\ price <= b.high
  ELSE b.low <= price /\ price <= Slipped("BUY", b.high)

\* The price of a fill is one of the bar, slipped, and not before its trigger.
LEMMA FillPrices ==
  ASSUME NEW b \in Bar, NEW g, NEW d \in Directions, g.trigger \in Int,
         \/ g.side = ExitSide(d) /\ Adverse(d, ExitPrice(b, d), g.trigger)
         \/ g.side = EntrySide(d) /\ Favorable(d, UnitPrice(b, d), g.trigger)
  PROVE  /\ FillPrice(b, g) \in Int
         /\ Allows(b, g.side, FillPrice(b, g))
         /\ g.side = "SELL" => FillPrice(b, g) <= g.trigger
         /\ g.side # "SELL" => g.trigger <= FillPrice(b, g)
<1>1. b.open \in Int /\ b.low \in Int /\ b.high \in Int /\ b.low <= b.open /\ b.open <= b.high
      /\ 0 <= b.low
  BY BarPrices DEF Price
<1>2. \/ g.side = "SELL" /\ b.low <= g.trigger
      \/ g.side = "BUY" /\ g.trigger <= b.high
  BY <1>1 DEF Directions, ExitSide, EntrySide, Adverse, Favorable, ExitPrice, UnitPrice
<1> DEFINE price == IF g.side = "SELL" THEN (IF b.open <= g.trigger THEN b.open ELSE g.trigger)
                    ELSE (IF b.open <= g.trigger THEN g.trigger ELSE b.open)
<1>3. FillPrice(b, g) = Slipped(g.side, price)
  BY <1>1, GreaterOf DEF FillPrice
<1>4. /\ price \in Int /\ b.low <= price /\ price <= b.high /\ 0 <= price
      /\ g.side = "SELL" => price <= g.trigger
      /\ g.side # "SELL" => g.trigger <= price
  BY <1>1, <1>2
<1> HIDE DEF price
<1>5. /\ Slipped(g.side, b.low) \in Int /\ Slipped(g.side, price) \in Int
      /\ Slipped(g.side, b.high) \in Int
      /\ Slipped(g.side, b.low) <= Slipped(g.side, price)
      /\ Slipped(g.side, price) <= Slipped(g.side, b.high)
      /\ g.side = "SELL" => Slipped(g.side, price) <= price
      /\ g.side # "SELL" => price <= Slipped(g.side, price)
  BY <1>1, <1>4, SlippedOrder
<1>6. CASE g.side = "SELL"
  BY <1>1, <1>3, <1>4, <1>5, <1>6 DEF Allows
<1>7. CASE g.side = "BUY"
  BY <1>1, <1>3, <1>4, <1>5, <1>7 DEF Allows
<1> QED BY <1>2, <1>6, <1>7

-----------------------------------------------------------------------------
(* Cash *)

Tied == [s \in DOMAIN positions |-> TiedUp(s)]
Gains == [i \in DOMAIN trades |-> trades[i].pnl]

LEMMA CashIs == CashAccounted <=> cash = InitialEquity + SumFunction(Gains) - SumFunction(Tied)
  BY DEF CashAccounted, Gains, Tied

LEMMA TiedInt ==
  ASSUME HoldingsOK, NEW s \in DOMAIN positions
  PROVE  TiedUp(s) \in Int
  BY DEF HoldingsOK, TiedUp

LEMMA SumsInt ==
  ASSUME HoldingsOK, LedgerOK
  PROVE  /\ SumFunction(Tied) \in Int /\ SumFunction(Gains) \in Int
         /\ IsFiniteSet(DOMAIN trades)
<1>1. DOMAIN Tied = DOMAIN positions /\ \A s \in DOMAIN positions : Tied[s] \in Int
  BY TiedInt DEF Tied
<1>2. IsFiniteSet(DOMAIN Tied)
  BY <1>1 DEF HoldingsOK
<1>3. DOMAIN Gains = DOMAIN trades /\ \A i \in DOMAIN trades : Gains[i] \in Int
  BY DEF Gains, LedgerOK
<1>4. IsFiniteSet(DOMAIN trades)
  <2>1. Len(trades) \in Nat /\ DOMAIN trades = 1..Len(trades)
    BY Appended DEF LedgerOK
  <2> QED BY <2>1, FS_Interval
<1> QED BY <1>1, <1>2, <1>3, <1>4, SumInt

\* One more trade.
LEMMA GainsGrow ==
  ASSUME HoldingsOK, LedgerOK, NEW t, t.pnl \in Int, trades' = Append(trades, t)
  PROVE  /\ SumFunction(Gains') = SumFunction(Gains) + t.pnl
         /\ IsSequence(trades') /\ \A i \in DOMAIN trades' : trades'[i].pnl \in Int
<1> DEFINE n == Len(trades)
<1>1. /\ IsSequence(trades') /\ n \in Nat /\ DOMAIN trades = 1..n /\ DOMAIN trades' = 1..(n + 1)
      /\ \A i \in 1..n : trades'[i] = trades[i]
      /\ trades'[n + 1] = t
  BY Appended DEF LedgerOK
<1> HIDE DEF n
<1>2. n + 1 \notin DOMAIN trades /\ DOMAIN trades' = DOMAIN trades \cup {n + 1}
  BY <1>1
<1>3. \A i \in DOMAIN trades' : trades'[i].pnl \in Int
  BY <1>1, <1>2 DEF LedgerOK
<1>4. /\ DOMAIN Gains = DOMAIN trades /\ DOMAIN Gains' = DOMAIN trades'
      /\ \A i \in DOMAIN trades : Gains[i] = trades[i].pnl
      /\ \A i \in DOMAIN trades' : Gains'[i] = trades'[i].pnl
  BY DEF Gains
<1>5. \A i \in DOMAIN trades : Gains'[i] = Gains[i]
  BY <1>1, <1>2, <1>4
<1>6. IsFiniteSet(DOMAIN trades) /\ SumFunction(Gains) \in Int
  BY SumsInt
<1> DEFINE f == Gains
           g == Gains'
<1>7. /\ n + 1 \notin DOMAIN f /\ DOMAIN g = DOMAIN f \cup {n + 1} /\ IsFiniteSet(DOMAIN f)
      /\ (\A i \in DOMAIN f : g[i] = f[i]) /\ \A i \in DOMAIN g : g[i] \in Int
  BY <1>2, <1>3, <1>4, <1>5, <1>6
<1>8. g[n + 1] = t.pnl
  BY <1>1, <1>2, <1>4
<1> HIDE DEF f, g
<1>9. SumFunction(g) = g[n + 1] + SumFunction(f)
  BY <1>7, SumWith
<1> QED BY <1>1, <1>3, <1>6, <1>8, <1>9 DEF f, g

\* A position is closed: what it tied up and what it gained come back.
LEMMA CashSold ==
  ASSUME HoldingsOK, LedgerOK, command' = command,
         NEW s \in DOMAIN positions, NEW delta \in Int, cash' = cash + delta,
         NEW t, t.pnl = delta - TiedUp(s), trades' = Append(trades, t),
         DOMAIN positions' = DOMAIN positions \ {s},
         \A u \in DOMAIN positions' : TiedUp(u)' = TiedUp(u),
         skip' \subseteq Keys
  PROVE  LedgerOK'
<1>1. t.pnl \in Int /\ TiedUp(s) \in Int /\ InitialEquity \in Int
  BY TiedInt, BacktestConstantsOK
<1>2. /\ SumFunction(Gains') = SumFunction(Gains) + t.pnl
      /\ IsSequence(trades') /\ \A i \in DOMAIN trades' : trades'[i].pnl \in Int
  BY <1>1, GainsGrow
<1>3. SumFunction(Tied) \in Int /\ SumFunction(Gains) \in Int
  BY SumsInt
<1> DEFINE f == Tied'
           g == Tied
<1>4. /\ s \notin DOMAIN f /\ DOMAIN g = DOMAIN f \cup {s}
      /\ (\A u \in DOMAIN f : g[u] = f[u]) /\ g[s] = TiedUp(s)
  BY DEF Tied
<1>5. IsFiniteSet(DOMAIN f) /\ \A u \in DOMAIN g : g[u] \in Int
  <2>1. DOMAIN f \in SUBSET DOMAIN positions /\ DOMAIN g = DOMAIN positions
    BY DEF Tied
  <2>2. IsFiniteSet(DOMAIN f)
    BY <2>1, FS_Subset DEF HoldingsOK
  <2>3. \A u \in DOMAIN g : g[u] = TiedUp(u)
    BY DEF Tied
  <2> QED BY <2>1, <2>2, <2>3, TiedInt
<1>6. SumFunction(g) \in Int
  BY <1>3
<1> HIDE DEF f, g
<1>7. SumFunction(g) = g[s] + SumFunction(f)
  BY <1>4, <1>5, SumWith
<1>8. SumFunction(f) \in Int
  <2>1. \A u \in DOMAIN f : f[u] \in Int
    BY <1>4, <1>5
  <2> QED BY <1>5, <2>1, SumInt
<1>9. SumFunction(Tied) = TiedUp(s) + SumFunction(Tied')
  BY <1>4, <1>7 DEF f, g
<1>10. cash = InitialEquity + SumFunction(Gains) - SumFunction(Tied) /\ cash \in Int
  BY CashIs DEF LedgerOK
<1>11. SumFunction(Tied') \in Int
  BY <1>8 DEF f
<1>12. cash' = InitialEquity + SumFunction(Gains') - SumFunction(Tied') /\ cash' \in Int
  <2>1. \A c, i, g0, x, rest, d \in Int :
          c = i + g0 - (x + rest) => c + d = i + (g0 + (d - x)) - rest
    OBVIOUS
  <2>2. cash + delta = InitialEquity + (SumFunction(Gains) + (delta - TiedUp(s))) - SumFunction(Tied')
    <3> DEFINE c == cash
               i == InitialEquity
               g0 == SumFunction(Gains)
               x == TiedUp(s)
               rest == SumFunction(Tied')
    <3>1. c \in Int /\ i \in Int /\ g0 \in Int /\ x \in Int /\ rest \in Int /\ delta \in Int
      BY <1>1, <1>3, <1>10, <1>11
    <3>2. c = i + g0 - (x + rest)
      BY <1>9, <1>10
    <3> HIDE DEF c, i, g0, x, rest
    <3>3. c + delta = i + (g0 + (delta - x)) - rest
      BY <2>1, <3>1, <3>2
    <3> QED BY <3>3 DEF c, i, g0, x, rest
  <2> QED BY <1>2, <1>10, <2>2
<1>13. CashAccounted'
  BY <1>12 DEF CashAccounted, Gains, Tied
<1> QED BY <1>2, <1>12, <1>13 DEF LedgerOK

\* A position is opened or grows by what it costs.
LEMMA CashBought ==
  ASSUME HoldingsOK, LedgerOK, command' = command, trades' = trades,
         NEW s, NEW delta \in Int, cash' = cash + delta,
         DOMAIN positions' = DOMAIN positions \cup {s},
         \A u \in DOMAIN positions \ {s} : TiedUp(u)' = TiedUp(u),
         TiedUp(s)' = (IF s \in DOMAIN positions THEN TiedUp(s) ELSE 0) - delta,
         skip' \subseteq Keys
  PROVE  LedgerOK'
<1>1. SumFunction(Tied) \in Int /\ SumFunction(Gains) \in Int /\ InitialEquity \in Int
  BY SumsInt, BacktestConstantsOK
<1> DEFINE f == Tied
           g == Tied'
<1>2. /\ DOMAIN f = DOMAIN positions /\ DOMAIN g = DOMAIN positions'
      /\ \A u \in DOMAIN f : f[u] = TiedUp(u)
      /\ \A u \in DOMAIN g : g[u] = TiedUp(u)'
  BY DEF Tied
<1>3. IsFiniteSet(DOMAIN f) /\ \A u \in DOMAIN f : f[u] \in Int
  BY <1>2, TiedInt DEF HoldingsOK
<1>4. SumFunction(f) \in Int
  BY <1>1
<1> HIDE DEF f, g
<1>5. \A u \in DOMAIN g : g[u] \in Int /\ (u # s => g[u] = f[u])
  <2>1. g[s] \in Int
    BY <1>2, <1>3
  <2> QED BY <1>2, <1>3, <2>1
<1>6. SumFunction(g) = SumFunction(f) - delta
  <2>1. CASE s \in DOMAIN positions
    <3>1. s \in DOMAIN f /\ DOMAIN g = DOMAIN f
      BY <1>2, <2>1
    <3>2. SumFunction(g) = SumFunction(f) - f[s] + g[s]
      BY <1>3, <1>5, <3>1, SumBut
    <3>3. g[s] = f[s] - delta /\ f[s] \in Int
      BY <1>2, <1>3, <2>1
    <3> QED BY <1>4, <3>2, <3>3
  <2>2. CASE s \notin DOMAIN positions
    <3>1. s \notin DOMAIN f /\ DOMAIN g = DOMAIN f \cup {s}
      BY <1>2, <2>2
    <3>2. SumFunction(g) = g[s] + SumFunction(f)
      BY <1>3, <1>5, <3>1, SumWith
    <3>3. g[s] = 0 - delta
      BY <1>2, <2>2
    <3> QED BY <1>4, <3>2, <3>3
  <2> QED BY <2>1, <2>2
<1>7. Gains' = Gains
  BY DEF Gains
<1>8. cash = InitialEquity + SumFunction(Gains) - SumFunction(Tied) /\ cash \in Int
  BY CashIs DEF LedgerOK
<1>9. SumFunction(Tied') = SumFunction(Tied) - delta
  BY <1>6 DEF f, g
<1>10. cash' = InitialEquity + SumFunction(Gains') - SumFunction(Tied') /\ cash' \in Int
  BY <1>1, <1>7, <1>8, <1>9
<1>11. CashAccounted'
  BY <1>10 DEF CashAccounted, Gains, Tied
<1> QED BY <1>10, <1>11 DEF LedgerOK

LEMMA CashStays ==
  ASSUME LedgerOK, UNCHANGED <<cash, trades, positions, openCosts, command>>, skip' \subseteq Keys
  PROVE  LedgerOK'
<1>1. CashAccounted'
  BY DEF LedgerOK, CashAccounted, TiedUp
<1> QED BY <1>1 DEF LedgerOK

-----------------------------------------------------------------------------
(* The steps of the turtle engines *)

LEMMA TapeKept ==
  ASSUME TapeOK, UNCHANGED <<command, pit, tape, session>>,
         \/ phase' \in {phase, "failed"}
         \/ /\ phase \in {"between", "exits", "entries"}
            /\ phase' \in {"between", "exits", "entries", "done"}
  PROVE  TapeOK'
  BY DEF TapeOK

LEMMA Marked ==
  ASSUME MarksOK, NEW s \in Symbols, NEW price \in Price, closes' = With(closes, s, price),
         UNCHANGED histories
  PROVE  MarksOK' /\ DOMAIN closes' = DOMAIN closes \cup {s}
  BY DEF MarksOK, With

LEMMA HeldAsBefore ==
  ASSUME HoldingsOK, UNCHANGED <<positions, openCosts, command>>, DOMAIN closes \subseteq DOMAIN closes'
  PROVE  HoldingsOK'
  BY DEF HoldingsOK

\* Books of which the account and the skips alone are in question.
LEMMA BooksStay ==
  ASSUME Books, UNCHANGED <<cash, trades, positions, openCosts, command>>, skip' \subseteq skip,
         TapeOK', MarksOK', VisitsOK', DOMAIN closes \subseteq DOMAIN closes'
  PROVE  Books'
<1>1. HoldingsOK'
  BY HeldAsBefore DEF Books
<1>2. LedgerOK'
  BY CashStays DEF Books, LedgerOK
<1> QED BY <1>1, <1>2 DEF Books

LEMMA Sold ==
  ASSUME HoldingsOK, command # "momentum", command' = command, NEW s \in DOMAIN positions,
         positions' = Without(positions, s), openCosts' = Without(openCosts, s),
         DOMAIN closes \subseteq DOMAIN closes'
  PROVE  /\ HoldingsOK' /\ DOMAIN positions' = DOMAIN positions \ {s}
         /\ \A u \in DOMAIN positions' : TiedUp(u)' = TiedUp(u)
<1>1. /\ DOMAIN positions' = DOMAIN positions \ {s}
      /\ DOMAIN openCosts' = DOMAIN openCosts \ {s} /\ DOMAIN openCosts = DOMAIN positions
      /\ \A u \in DOMAIN positions' : positions'[u] = positions[u] /\ openCosts'[u] = openCosts[u]
  BY DEF Without, Restrict, HoldingsOK
<1>2. IsFiniteSet(DOMAIN positions')
  BY <1>1, FS_Subset DEF HoldingsOK
<1>3. HoldingsOK'
  BY <1>1, <1>2 DEF HoldingsOK
<1>4. \A u \in DOMAIN positions' : TiedUp(u)' = TiedUp(u)
  BY <1>1 DEF TiedUp
<1> QED BY <1>1, <1>3, <1>4

LEMMA ExitFills ==
  ASSUME HoldingsOK, MarksOK, command # "momentum", NEW s \in DOMAIN positions \cap DOMAIN Batch,
         s \in Symbols, Batch[s] \in Bar, NEW signal \in ExitsOf(s)
  PROVE  /\ FillPrice(Batch[s], signal) \in Int
         /\ Allows(Batch[s], signal.side, FillPrice(Batch[s], signal))
<1> DEFINE p == positions[s]
           b == Batch[s]
           bars == histories[s]
           price == ExitPrice(b, p.direction)
<1>1. /\ p.stop \in Int /\ p.last \in Int /\ p.entryN \in Nat /\ p.direction \in Directions
      /\ bars \in Seq(Bar) /\ b \in Bar
  BY DEF HoldingsOK, Position, MarksOK
<1>2. signal \in HeldSignals(p, bars, price) /\ signal.kind \in {"STOP", "EXIT"}
  BY DEF ExitsOf, ExitSignals
<1> HIDE DEF p, bars, price
<1>3. /\ signal.trigger \in Int /\ signal.side = ExitSide(p.direction)
      /\ Adverse(p.direction, price, signal.trigger)
  BY <1>1, <1>2, HeldTriggers
<1>4. Adverse(p.direction, ExitPrice(b, p.direction), signal.trigger)
  BY <1>3 DEF price
<1> HIDE DEF b
<1>5. /\ FillPrice(b, signal) \in Int
      /\ Allows(b, signal.side, FillPrice(b, signal))
  BY <1>1, <1>3, <1>4, FillPrices
<1> QED BY <1>5 DEF b

LEMMA BooksExit ==
  ASSUME Books, command # "momentum", UNCHANGED <<command, pit>>, NEW s \in Symbols, Exit(s)
  PROVE  Books'
<1>1. /\ phase = "exits" /\ s \in todo /\ todo' = todo \ {s} /\ s \in DOMAIN positions
      /\ closes' = With(closes, s, Batch[s].close) /\ UNCHANGED <<tape, session, phase, histories>>
  BY DEF Exit, Visit, input
<1>2. PICK signal \in ExitsOf(s) : CloseOut(s, signal)
  BY DEF Exit
<1>3. s \in DOMAIN Batch /\ Batch[s] \in Bar /\ Batch[s].close \in Price
  <2>1. s \in DOMAIN Batch
    BY <1>1 DEF Books, VisitsOK, Trading
  <2> QED BY <1>1, <2>1, CandleNow, BarPrices DEF Books
<1>4. TapeOK'
  BY <1>1, TapeKept DEF Books
<1>5. MarksOK' /\ DOMAIN closes' = DOMAIN closes \cup {s}
  BY <1>1, <1>3, Marked DEF Books
<1>6. exited' = exited \cup {s} /\ positions' = Without(positions, s)
      /\ openCosts' = Without(openCosts, s)
  BY <1>2 DEF CloseOut
<1>7. VisitsOK'
  <2>1. Batch' = Batch
    BY <1>1 DEF Batch
  <2> QED BY <1>1, <1>5, <1>6, <2>1 DEF Books, VisitsOK, Trading
<1>8. /\ HoldingsOK' /\ DOMAIN positions' = DOMAIN positions \ {s}
      /\ \A u \in DOMAIN positions' : TiedUp(u)' = TiedUp(u)
  BY <1>1, <1>5, <1>6, Sold DEF Books
<1> DEFINE p == positions[s]
           price == FillPrice(Batch[s], signal)
           delta == ExitDelta(p.direction, price, p.qty)
           pnl == Pnl(p.direction, openCosts[s], delta)
           t == [key |-> <<s, p.direction>>, system |-> p.system, pnl |-> pnl]
<1>9. p \in Position /\ openCosts[s] \in Int
  BY <1>1 DEF Books, HoldingsOK
<1>10. price \in Int
  BY <1>1, <1>2, <1>3, ExitFills DEF Books
<1>11. cash' = cash + delta /\ trades' = Append(trades, t)
       /\ skip' = SkipAfter(<<s, p.direction>>, p.system, pnl, skip)
  BY <1>2 DEF CloseOut
<1>12. p.direction \in Directions /\ p.qty \in Int /\ t.pnl = pnl
  BY <1>9 DEF Position
<1>13. skip' \subseteq Keys
  BY <1>11, <1>12 DEF SkipAfter, Keys, Books, LedgerOK
<1>14. TiedUp(s) = IF p.direction = "SHORT" THEN -openCosts[s] ELSE openCosts[s]
  BY DEF TiedUp
<1> HIDE DEF price, p, t
<1>15. delta \in Int
  BY <1>10, <1>12, DeltasInt
<1> HIDE DEF delta
<1>16. pnl = delta - TiedUp(s)
  BY <1>9, <1>14, <1>15 DEF Pnl
<1> HIDE DEF pnl
<1>17. LedgerOK'
  BY <1>1, <1>8, <1>11, <1>12, <1>13, <1>15, <1>16, CashSold DEF Books
<1> QED BY <1>4, <1>5, <1>7, <1>8, <1>17 DEF Books

LEMMA StopInt ==
  \A direction, fill, n : fill \in Int /\ n \in Nat => StopFor(direction, fill, n) \in Int
<1> SUFFICES ASSUME NEW direction, NEW fill \in Int, NEW n \in Nat
             PROVE  StopFor(direction, fill, n) \in Int
  OBVIOUS
<1>1. StopN * n \in Nat
  BY TurtleConstantsOK, ProductNat
<1> QED BY <1>1 DEF StopFor

LEMMA EquityInt ==
  ASSUME HoldingsOK, MarksOK, cash \in Int, command # "momentum"
  PROVE  Equity(cash, positions, closes) \in Int
<1> DEFINE f == [s \in DOMAIN positions |-> Signed(positions[s], closes[s])]
<1>1. ASSUME NEW s \in DOMAIN positions PROVE Signed(positions[s], closes[s]) \in Int
  <2>1. positions[s] \in Position /\ closes[s] \in Price
    BY DEF HoldingsOK, MarksOK
  <2>2. positions[s].qty * closes[s] \in Int
    BY <2>1, ProductInt DEF Position, Price
  <2> QED BY <2>2 DEF Signed
<1>2. DOMAIN f = DOMAIN positions /\ \A s \in DOMAIN f : f[s] \in Int
  BY <1>1
<1>3. IsFiniteSet(DOMAIN f)
  BY <1>2 DEF HoldingsOK
<1>4. PositionValue(positions, closes) = SumFunction(f)
  BY DEF PositionValue
<1> HIDE DEF f
<1>5. SumFunction(f) \in Int
  BY <1>2, <1>3, SumInt
<1> QED BY <1>4, <1>5 DEF Equity

LEMMA ProductPositive == \A x, y \in Nat \ {0} : x * y \in Nat \ {0}
<1> SUFFICES ASSUME NEW x \in Nat \ {0}, NEW y \in Nat \ {0} PROVE x * y # 0 /\ x * y \in Nat
  OBVIOUS
<1>1. x * y \in Nat
  BY ProductNat
<1>2. x >= 1 /\ y >= 1
  OBVIOUS
<1>3. x * y >= 1
  BY <1>2
<1> QED BY <1>1, <1>3

LEMMA QtyInt ==
  ASSUME NEW equity \in Int, NEW n \in Nat
  PROVE  QtyFor(equity, n) \in Int
<1>1. UnitQty \in Int /\ LotSize \in Nat \ {0} /\ RiskPct \in Int /\ StopN \in Nat
  BY CostConstantsOK, TurtleConstantsOK
<1>2. CASE ~(StopN * n <= 0)
  <2>1. StopN # 0 /\ n # 0
    BY <1>1, <1>2
  <2>2. StopN \in Nat \ {0} /\ n \in Nat \ {0} /\ 100 \in Nat \ {0}
    BY <1>1, <2>1
  <2>3. 100 * StopN \in Nat \ {0}
    BY <2>2, ProductPositive
  <2>4. 100 * StopN * n \in Nat \ {0}
    BY <2>2, <2>3, ProductPositive
  <2>5. 100 * StopN * n * LotSize \in Nat \ {0}
    BY <1>1, <2>4, ProductPositive
  <2>6. equity * RiskPct \in Int
    BY <1>1, ProductInt
  <2>7. (equity * RiskPct) \div (100 * StopN * n * LotSize) \in Int
    BY <2>5, <2>6, QuotientInt
  <2>8. ((equity * RiskPct) \div (100 * StopN * n * LotSize)) * LotSize \in Int
    BY <1>1, <2>7, ProductInt
  <2> QED BY <1>1, <2>8 DEF QtyFor
<1>3. CASE StopN * n <= 0
  BY <1>1, <1>3 DEF QtyFor
<1> QED BY <1>2, <1>3

LEMMA Bought ==
  ASSUME HoldingsOK, LedgerOK, command # "momentum", UNCHANGED <<command, closes>>,
         NEW s \in DOMAIN closes, NEW direction, NEW signal, NEW qty \in Int, NEW position \in Position,
         position.stop = StopFor(position.direction, position.last, position.entryN),
         position.direction = direction,
         s \in DOMAIN positions => positions[s].direction = direction,
         FillPrice(Batch[s], signal) \in Int,
         Buy(s, direction, signal, qty, position), skip' \subseteq skip
  PROVE  HoldingsOK' /\ LedgerOK'
<1> DEFINE delta == EntryDelta(direction, FillPrice(Batch[s], signal), qty)
           before == IF s \in DOMAIN openCosts THEN openCosts[s] ELSE 0
           now == before + CostOf(direction, delta)
<1>1. delta \in Int
  BY DeltasInt
<1>2. CASE UNCHANGED account
  <2>1. UNCHANGED <<cash, positions, openCosts, trades>>
    BY <1>2 DEF account
  <2>2. skip' \subseteq Keys
    BY DEF LedgerOK
  <2> QED BY <2>1, <2>2, HeldAsBefore, CashStays
<1>3. CASE /\ cash' = cash + delta
           /\ positions' = With(positions, s, position)
           /\ openCosts' = With(openCosts, s, now)
           /\ trades' = trades
  <2> HIDE DEF delta
  <2>0. before \in Int /\ now \in Int /\ DOMAIN openCosts = DOMAIN positions
    BY <1>1 DEF HoldingsOK, CostOf
  <2>1. /\ DOMAIN positions' = DOMAIN positions \cup {s} /\ DOMAIN openCosts' = DOMAIN openCosts \cup {s}
        /\ positions'[s] = position /\ openCosts'[s] = now
        /\ \A u \in DOMAIN positions \ {s} : positions'[u] = positions[u] /\ openCosts'[u] = openCosts[u]
    BY <1>3, <2>0 DEF With
  <2>2. HoldingsOK'
    <3>1. IsFiniteSet(DOMAIN positions \cup {s})
      BY FS_AddElement DEF HoldingsOK
    <3> HIDE DEF now
    <3> QED BY <2>0, <2>1, <3>1 DEF HoldingsOK
  <2>3. \A u \in DOMAIN positions \ {s} : TiedUp(u)' = TiedUp(u)
    BY <2>1 DEF TiedUp
  <2>4. TiedUp(s)' = (IF s \in DOMAIN positions THEN TiedUp(s) ELSE 0) - delta
    <3>1. TiedUp(s)' = IF direction = "SHORT" THEN -now ELSE now
      BY <2>1 DEF TiedUp
    <3>2. s \in DOMAIN positions =>
            TiedUp(s) = (IF direction = "SHORT" THEN -before ELSE before) /\ before \in Int
      BY <2>0 DEF TiedUp, HoldingsOK
    <3>3. s \notin DOMAIN positions => before = 0
      BY <2>0
    <3>4. now = IF direction = "SHORT" THEN before + delta ELSE before - delta
      <4> HIDE DEF before
      <4> QED BY <1>1, <2>0 DEF CostOf
    <3> HIDE DEF before, now
    <3> QED BY <1>1, <2>0, <3>1, <3>2, <3>3, <3>4
  <2>5. skip' \subseteq Keys
    BY DEF LedgerOK
  <2>6. LedgerOK'
    BY <1>1, <1>3, <2>1, <2>3, <2>4, <2>5, CashBought
  <2> QED BY <2>2, <2>6
<1> QED BY <1>2, <1>3 DEF Buy, Block

LEMMA UnitFills ==
  ASSUME HoldingsOK, MarksOK, command # "momentum", NEW s \in DOMAIN positions \cap DOMAIN Batch,
         s \in Symbols, Batch[s] \in Bar, NEW signal \in UnitsOf(s)
  PROVE  LET p == positions[s]
             fill == FillPrice(Batch[s], signal)
         IN /\ fill \in Int /\ Allows(Batch[s], signal.side, fill)
            /\ IF p.direction = "SHORT" THEN fill <= PyramidTrigger(p) ELSE fill >= PyramidTrigger(p)
<1> DEFINE p == positions[s]
           b == Batch[s]
           bars == histories[s]
           price == UnitPrice(b, p.direction)
<1>1. /\ p.stop \in Int /\ p.last \in Int /\ p.entryN \in Nat /\ p.direction \in Directions
      /\ bars \in Seq(Bar) /\ b \in Bar
  BY DEF HoldingsOK, Position, MarksOK
<1>2. signal \in HeldSignals(p, bars, price) /\ signal.kind = "PYRAMID"
  BY DEF UnitsOf, PyramidSignals
<1> HIDE DEF p, bars, price
<1>3. /\ signal.trigger \in Int /\ signal.side = EntrySide(p.direction)
      /\ signal.trigger = PyramidTrigger(p)
      /\ Favorable(p.direction, price, signal.trigger)
  BY <1>1, <1>2, HeldTriggers
<1>4. Favorable(p.direction, UnitPrice(b, p.direction), signal.trigger)
  BY <1>3 DEF price
<1> HIDE DEF b
<1>5. /\ FillPrice(b, signal) \in Int
      /\ Allows(b, signal.side, FillPrice(b, signal))
      /\ signal.side = "SELL" => FillPrice(b, signal) <= signal.trigger
      /\ signal.side # "SELL" => signal.trigger <= FillPrice(b, signal)
  BY <1>1, <1>3, <1>4, FillPrices
<1>6. signal.side = IF p.direction = "SHORT" THEN "SELL" ELSE "BUY"
  BY <1>3 DEF EntrySide
<1>7. IF p.direction = "SHORT" THEN FillPrice(b, signal) <= PyramidTrigger(p)
      ELSE FillPrice(b, signal) >= PyramidTrigger(p)
  BY <1>3, <1>5, <1>6
<1> QED BY <1>5, <1>7 DEF b, p

LEMMA EntryFills ==
  ASSUME MarksOK, NEW s \in Symbols, s \in DOMAIN Batch, Batch[s] \in Bar,
         NEW d \in Directions, NEW signal \in EntryIn(s, d)
  PROVE  /\ signal.system \in Systems
         /\ FillPrice(Batch[s], signal) \in Int
         /\ Allows(Batch[s], signal.side, FillPrice(Batch[s], signal))
<1> DEFINE b == Batch[s]
           bars == histories[s]
           price == UnitPrice(b, d)
           key == <<s, d>>
<1>1. bars \in Seq(Bar) /\ b \in Bar /\ price \in Int /\ key[2] = d
  BY BarPrices DEF MarksOK, UnitPrice, Price
<1>2. signal \in EntrySignals(key, bars, price, skip)
  BY DEF EntryIn
<1> HIDE DEF bars, price, key
<1>3. /\ signal.system \in Systems /\ signal.trigger \in Int /\ signal.side = EntrySide(key[2])
      /\ Favorable(key[2], price, signal.trigger)
  BY <1>1, <1>2, EntryTriggers
<1>4. signal.side = EntrySide(d) /\ Favorable(d, UnitPrice(b, d), signal.trigger)
  BY <1>1, <1>3 DEF price
<1> HIDE DEF b
<1>5. /\ FillPrice(b, signal) \in Int
      /\ Allows(b, signal.side, FillPrice(b, signal))
  BY <1>1, <1>3, <1>4, FillPrices
<1> QED BY <1>3, <1>5 DEF b

\* What the second pass leaves alone.
LEMMA SecondPass ==
  ASSUME Books, command # "momentum", UNCHANGED <<command, pit, tape, session, phase, exited, market>>,
         phase = "entries", NEW s \in todo, todo' = todo \ {s}
  PROVE  /\ TapeOK' /\ MarksOK' /\ VisitsOK' /\ closes' = closes /\ histories' = histories
         /\ s \in Symbols /\ s \in DOMAIN Batch /\ Batch[s] \in Bar /\ s \in DOMAIN closes
<1>1. closes' = closes /\ histories' = histories
  BY DEF market
<1>2. TapeOK'
  BY TapeKept DEF Books
<1>3. MarksOK'
  BY <1>1 DEF Books, MarksOK
<1>4. Batch' = Batch
  BY DEF Batch
<1>5. VisitsOK'
  BY <1>1, <1>4 DEF Books, VisitsOK, Trading
<1>6. s \in Symbols /\ s \in DOMAIN Batch /\ s \in DOMAIN closes
  BY DEF Books, VisitsOK, Trading
<1> QED BY <1>1, <1>2, <1>3, <1>5, <1>6, CandleNow DEF Books

LEMMA WithUnitOK ==
  ASSUME NEW p \in Position, NEW fill \in Int, NEW qty \in Int
  PROVE  LET q == WithUnit(p, fill, qty)
         IN /\ q \in Position /\ q.direction = p.direction /\ q.entryN = p.entryN /\ q.last = fill
            /\ q.stop = StopFor(p.direction, fill, p.entryN)
<1>1. StopFor(p.direction, fill, p.entryN) \in Int
  BY StopInt DEF Position
<1>2. /\ p.system \in Systems /\ p.direction \in Directions /\ p.entryN \in Nat
      /\ p.qty + qty \in Int /\ p.units + 1 \in Nat
  BY DEF Position
<1> DEFINE stop == StopFor(p.direction, fill, p.entryN)
           more == p.qty + qty
           one == p.units + 1
           q == [p EXCEPT !.qty = more, !.last = fill, !.units = one, !.stop = stop]
<1>3. WithUnit(p, fill, qty) = q
  BY DEF WithUnit
<1>4. stop \in Int /\ more \in Int /\ one \in Nat
  BY <1>1, <1>2
<1> HIDE DEF stop, more, one
<1>5. q \in Position
  BY <1>4, Zenon DEF Position
<1>6. q.direction = p.direction /\ q.entryN = p.entryN /\ q.last = fill /\ q.stop = stop
  BY DEF Position
<1> QED BY <1>3, <1>5, <1>6 DEF stop

LEMMA OpenedOK ==
  ASSUME NEW signal, signal.system \in Systems, NEW d \in Directions, NEW fill \in Int, NEW n \in Nat,
         NEW qty \in Int
  PROVE  LET q == Opened(signal, d, fill, n, qty)
         IN /\ q \in Position /\ q.direction = d
            /\ q.stop = StopFor(q.direction, q.last, q.entryN)
<1>1. StopFor(d, fill, n) \in Int
  BY StopInt
<1> QED BY <1>1 DEF Opened, Position

LEMMA BooksPyramid ==
  ASSUME Books, command # "momentum", UNCHANGED <<command, pit>>, NEW s \in Symbols, Pyramid(s)
  PROVE  Books'
<1>1. /\ phase = "entries" /\ s \in todo /\ todo' = todo \ {s} /\ s \in DOMAIN positions
      /\ UNCHANGED <<tape, session, phase, exited, market, skip>>
  BY DEF Pyramid, Visit, input
<1>2. /\ TapeOK' /\ MarksOK' /\ VisitsOK' /\ closes' = closes
      /\ s \in DOMAIN Batch /\ Batch[s] \in Bar /\ s \in DOMAIN closes
  BY <1>1, SecondPass
<1> DEFINE p == positions[s]
           qty == QtyFor(Equity(cash, positions, closes), p.entryN)
<1>3. PICK signal \in UnitsOf(s) :
        Buy(s, p.direction, signal, qty, WithUnit(p, FillPrice(Batch[s], signal), qty))
  BY DEF Pyramid
<1>4. p \in Position
  BY <1>1 DEF Books, HoldingsOK
<1>5. qty \in Int
  <2>1. Equity(cash, positions, closes) \in Int
    BY EquityInt DEF Books, LedgerOK
  <2>2. p.entryN \in Nat
    BY <1>4 DEF Position
  <2> HIDE DEF p
  <2> QED BY <2>1, <2>2, QtyInt
<1> DEFINE fill == FillPrice(Batch[s], signal)
           q == WithUnit(p, fill, qty)
<1>6. fill \in Int
  BY <1>1, <1>2, UnitFills DEF Books
<1>7. /\ q \in Position /\ q.direction = p.direction
      /\ q.stop = StopFor(q.direction, q.last, q.entryN)
  <2> HIDE DEF p, fill, qty
  <2> QED BY <1>4, <1>5, <1>6, WithUnitOK
<1>8. Buy(s, p.direction, signal, qty, q) /\ positions[s].direction = p.direction
  BY <1>3
<1> HIDE DEF p, qty, q
<1>9. HoldingsOK' /\ LedgerOK'
  BY <1>1, <1>2, <1>5, <1>6, <1>7, <1>8, Bought DEF Books
<1> QED BY <1>2, <1>9 DEF Books

LEMMA BooksEnter ==
  ASSUME Books, command # "momentum", UNCHANGED <<command, pit>>, NEW s \in Symbols, Enter(s)
  PROVE  Books'
<1>1. /\ phase = "entries" /\ s \in todo /\ todo' = todo \ {s} /\ s \notin DOMAIN positions
      /\ UNCHANGED <<tape, session, phase, exited, market>> /\ skip' \subseteq skip
  BY DEF Enter, Visit, input
<1>2. /\ TapeOK' /\ MarksOK' /\ VisitsOK' /\ closes' = closes
      /\ s \in DOMAIN Batch /\ Batch[s] \in Bar /\ s \in DOMAIN closes
  BY <1>1, SecondPass
<1> DEFINE size(n) == QtyFor(Equity(cash, positions, closes), n)
           fill(g) == FillPrice(Batch[s], g)
<1>3. PICK i \in Taken(s) : \E signal \in EntryIn(s, Allowed[i]) : \E n \in N(histories[s]) :
        Buy(s, Allowed[i], signal, size(n), Opened(signal, Allowed[i], fill(signal), n, size(n)))
  BY DEF Enter
<1> DEFINE d == Allowed[i]
<1>4. d \in Directions
  BY BacktestConstantsOK DEF Taken, Tried
<1>5. PICK signal \in EntryIn(s, d) : \E n \in N(histories[s]) :
        Buy(s, d, signal, size(n), Opened(signal, d, fill(signal), n, size(n)))
  BY <1>3
<1>6. PICK n \in N(histories[s]) :
        Buy(s, d, signal, size(n), Opened(signal, d, fill(signal), n, size(n)))
  BY <1>5
<1>7. n \in Nat
  BY NNat DEF Books, MarksOK
<1> HIDE DEF d
<1>8. size(n) \in Int
  <2>1. Equity(cash, positions, closes) \in Int
    BY EquityInt DEF Books, LedgerOK
  <2> QED BY <1>7, <2>1, QtyInt
<1>9. fill(signal) \in Int /\ signal.system \in Systems
  BY <1>2, <1>4, EntryFills DEF Books
<1> DEFINE price == fill(signal)
           qty == size(n)
           q == Opened(signal, d, price, n, qty)
<1>10. /\ q \in Position /\ q.direction = d
       /\ q.stop = StopFor(q.direction, q.last, q.entryN)
  <2>1. price \in Int /\ qty \in Int
    BY <1>8, <1>9
  <2> HIDE DEF price, qty
  <2> QED BY <1>4, <1>7, <1>9, <2>1, OpenedOK
<1>11. Buy(s, d, signal, qty, q) /\ qty \in Int /\ FillPrice(Batch[s], signal) \in Int
  BY <1>6, <1>8, <1>9
<1> HIDE DEF q, qty
<1>12. HoldingsOK' /\ LedgerOK'
  BY <1>1, <1>2, <1>10, <1>11, Bought DEF Books
<1> QED BY <1>2, <1>12 DEF Books

LEMMA BooksSession ==
  ASSUME Books, command # "momentum", UNCHANGED <<command, pit>>, SessionStep
  PROVE  Books'
<1>1. CASE OpenSession
  <2>1. /\ UNCHANGED <<tape, session, market, account, skip, exited>>
        /\ phase' = "exits" /\ todo' = DOMAIN Batch
        /\ (phase = "input" /\ Len(tape) = Sessions /\ Sessions > 0) \/ phase = "between"
    BY <1>1 DEF OpenSession, input
  <2>2. session \in 1..Sessions /\ Len(tape) = Sessions
    BY <2>1, BacktestConstantsOK DEF Books, TapeOK
  <2>3. TapeOK'
    BY <2>1, <2>2 DEF Books, TapeOK
  <2>4. DOMAIN Batch \subseteq Symbols
    BY <2>2, Candle DEF Books
  <2>5. MarksOK' /\ closes' = closes
    BY <2>1 DEF Books, MarksOK, market
  <2>6. Batch' = Batch
    BY <2>1 DEF Batch
  <2>7. VisitsOK'
    BY <2>1, <2>4, <2>6 DEF Books, VisitsOK, Trading
  <2> QED BY <2>1, <2>3, <2>5, <2>7, BooksStay DEF account
<1>2. CASE ExitsDone
  <2>1. /\ UNCHANGED <<tape, session, market, account, skip, exited>>
        /\ phase = "exits" /\ todo = {} /\ phase' = "entries" /\ todo' = DOMAIN Batch
    BY <1>2 DEF ExitsDone, input
  <2>2. TapeOK'
    BY <2>1, TapeKept DEF Books
  <2>3. DOMAIN Batch \subseteq Symbols
    BY <2>1, CandleNow DEF Books
  <2>4. MarksOK' /\ closes' = closes
    BY <2>1 DEF Books, MarksOK, market
  <2>5. Batch' = Batch
    BY <2>1 DEF Batch
  <2>6. VisitsOK'
    BY <2>1, <2>3, <2>4, <2>5 DEF Books, VisitsOK, Trading
  <2> QED BY <2>1, <2>2, <2>4, <2>6, BooksStay DEF account
<1>3. CASE EndSession
  <2>1. /\ UNCHANGED <<tape, todo, closes, account, skip>> /\ exited' = {} /\ phase = "entries"
        /\ \/ session < Sessions /\ session' = session + 1 /\ phase' = "between"
           \/ session' = session /\ phase' = "done"
        /\ histories' = [s \in Symbols |->
             IF s \in DOMAIN Batch THEN Append(histories[s], Batch[s]) ELSE histories[s]]
    BY <1>3 DEF EndSession, input
  <2>2. TapeOK'
    <3>1. session \in 1..Sessions /\ Sessions \in Nat
      BY <2>1, BacktestConstantsOK DEF Books, TapeOK
    <3>2. session' \in 1..Sessions
      BY <2>1, <3>1
    <3>3. session' \in 1..Max({Sessions, 1})
      BY <3>2, MaxSession
    <3> QED BY <2>1, <3>2, <3>3 DEF Books, TapeOK
  <2>3. \A s \in DOMAIN Batch : Batch[s] \in Bar
    BY <2>1, CandleNow DEF Books
  <2>4. MarksOK'
    BY <2>1, <2>3 DEF Books, MarksOK
  <2>5. VisitsOK'
    BY <2>1 DEF Books, VisitsOK, Trading
  <2> QED BY <2>1, <2>2, <2>4, <2>5, BooksStay DEF account
<1>4. ASSUME NEW s \in Symbols, Keep(s) PROVE Books'
  <2>1. /\ phase = "exits" /\ s \in todo /\ todo' = todo \ {s}
        /\ closes' = With(closes, s, Batch[s].close)
        /\ UNCHANGED <<tape, session, phase, exited, histories, account, skip>>
    BY <1>4 DEF Keep, Visit, input
  <2>2. s \in DOMAIN Batch /\ Batch[s].close \in Price
    <3>1. s \in DOMAIN Batch
      BY <2>1 DEF Books, VisitsOK, Trading
    <3> QED BY <2>1, <3>1, CandleNow, BarPrices DEF Books
  <2>3. TapeOK'
    BY <2>1, TapeKept DEF Books
  <2>4. MarksOK' /\ DOMAIN closes' = DOMAIN closes \cup {s}
    BY <2>1, <2>2, Marked DEF Books
  <2>5. Batch' = Batch
    BY <2>1 DEF Batch
  <2>6. VisitsOK'
    BY <2>1, <2>4, <2>5 DEF Books, VisitsOK, Trading
  <2> QED BY <2>1, <2>3, <2>4, <2>6, BooksStay DEF account
<1>5. ASSUME NEW s \in Symbols, Pass(s) PROVE Books'
  <2>1. /\ phase = "entries" /\ s \in todo /\ todo' = todo \ {s}
        /\ UNCHANGED <<tape, session, phase, exited, market, account>>
        /\ skip' \subseteq skip
    BY <1>5 DEF Pass, Visit, input
  <2>2. TapeOK' /\ MarksOK' /\ VisitsOK' /\ closes' = closes
    BY <2>1, SecondPass
  <2> QED BY <2>1, <2>2, BooksStay DEF account
<1> QED BY <1>1, <1>2, <1>3, <1>4, <1>5, BooksExit, BooksPyramid, BooksEnter DEF SessionStep

-----------------------------------------------------------------------------
(* The steps of the momentum engine *)

LEMMA MomentumOperators ==
  /\ \A S : Momentum!Min(S) = Min(S) /\ Momentum!Max(S) = Max(S)
  /\ \A f : Momentum!SumFunction(f) = SumFunction(f)
  BY DEF Momentum!Min, Min, Momentum!Max, Max, Momentum!SumFunction, SumFunction,
         Momentum!SumFunctionOnSet, SumFunctionOnSet,
         Momentum!FoldFunctionOnSet, FoldFunctionOnSet, Momentum!MapThenFoldSet, MapThenFoldSet

\* What a percentage of an amount is.
LEMMA ShareInt == \A amount, percent \in Int : (amount * percent) \div 100 \in Int
<1> SUFFICES ASSUME NEW amount \in Int, NEW percent \in Int PROVE (amount * percent) \div 100 \in Int
  OBVIOUS
<1>1. amount * percent \in Int
  BY ProductInt
<1> QED BY <1>1, QuotientInt

LEMMA MomentumCash ==
  ASSUME NEW price \in Int, NEW qty \in Int
  PROVE  Momentum!BuyCash(price, qty) \in Int /\ Momentum!SellCash(price, qty) \in Int
<1>1. price * qty \in Int
  BY ProductInt
<1>2. BuyPct \in Int /\ SellPct \in Int /\ SecPct \in Int /\ MinSecFee \in Int
  BY MomentumConstantsOK
<1> DEFINE gross == price * qty
           bought == (gross * BuyPct) \div 100
           sold == (gross * SellPct) \div 100
           sec == (gross * SecPct) \div 100
<1>3. bought \in Int /\ sold \in Int /\ sec \in Int
  <2> HIDE DEF gross
  <2>1. gross \in Int
    BY <1>1 DEF gross
  <2> QED BY <1>2, <2>1, ShareInt
<1>4. Momentum!BuyCash(price, qty) = -(gross + bought)
  BY DEF Momentum!BuyCash
<1>5. Momentum!SellCash(price, qty) = gross - sold - Max({sec, MinSecFee})
  BY MomentumOperators DEF Momentum!SellCash
<1> HIDE DEF gross, bought, sold, sec
<1>6. Max({sec, MinSecFee}) \in Int
  BY <1>2, <1>3, GreaterOf
<1>7. gross \in Int
  BY <1>1 DEF gross
<1> QED BY <1>3, <1>4, <1>5, <1>6, <1>7

LEMMA MomentumEquityInt ==
  ASSUME HoldingsOK, MarksOK, cash \in Int, command = "momentum"
  PROVE  Momentum!MomentumEquity \in Int /\ Momentum!Exposure \in Int
<1> DEFINE f == [s \in DOMAIN positions |-> Momentum!SellCash(closes[s], positions[s].qty)]
           g == [s \in DOMAIN positions |-> closes[s] * positions[s].qty]
<1>1. ASSUME NEW s \in DOMAIN positions
      PROVE  /\ Momentum!SellCash(closes[s], positions[s].qty) \in Int
             /\ closes[s] * positions[s].qty \in Int
  <2>1. closes[s] \in Int /\ positions[s].qty \in Int
    BY DEF HoldingsOK, MarksOK, Price
  <2> QED BY <2>1, MomentumCash, ProductInt
<1>2. /\ DOMAIN f = DOMAIN positions /\ DOMAIN g = DOMAIN positions
      /\ \A s \in DOMAIN f : f[s] \in Int
      /\ \A s \in DOMAIN g : g[s] \in Int
  BY <1>1
<1>3. IsFiniteSet(DOMAIN f) /\ IsFiniteSet(DOMAIN g)
  BY <1>2 DEF HoldingsOK
<1>4. Momentum!Worth = SumFunction(f) /\ Momentum!Exposure = SumFunction(g)
  BY MomentumOperators DEF Momentum!Worth, Momentum!Exposure
<1> HIDE DEF f, g
<1>5. SumFunction(f) \in Int /\ SumFunction(g) \in Int
  BY <1>2, <1>3, SumInt
<1> QED BY <1>4, <1>5 DEF Momentum!MomentumEquity

LEMMA MomentumQtyInt ==
  ASSUME HoldingsOK, MarksOK, cash \in Int, command = "momentum", NEW s, tape[session][s].close \in Price
  PROVE  Momentum!QtyOf(s) \in Int
<1>1. Momentum!MomentumEquity \in Int /\ Momentum!Exposure \in Int
  BY MomentumEquityInt
<1> DEFINE target == Momentum!MomentumEquity * TargetPct
           room == Momentum!MomentumEquity * MaxExposurePct - 100 * Momentum!Exposure
<1>2. TargetPct \in Int /\ MaxExposurePct \in Int
  BY MomentumConstantsOK
<1>3. target \in Int /\ room \in Int
  <2>1. Momentum!MomentumEquity * TargetPct \in Int /\ Momentum!MomentumEquity * MaxExposurePct \in Int
    BY <1>1, <1>2, ProductInt
  <2>2. 100 * Momentum!Exposure \in Int
    BY <1>1
  <2> QED BY <2>1, <2>2
<1>4. Momentum!Allocation = Min({target, room})
  BY MomentumOperators DEF Momentum!Allocation
<1> HIDE DEF target, room
<1>5. Min({target, room}) \in Int
  BY <1>3, GreaterOf
<1>6. 100 * tape[session][s].close \in Nat \ {0}
  BY ProductPositive DEF Price
<1> QED BY <1>4, <1>5, <1>6, QuotientInt DEF Momentum!QtyOf

LEMMA MomentumFills ==
  ASSUME Books, command = "momentum", phase \in {"exits", "entries"}, NEW s \in DOMAIN Batch
  PROVE  s \in Symbols /\ s \in DOMAIN closes /\ tape[session][s] \in Bar /\ tape[session][s].close \in Price
<1>1. DOMAIN Batch \subseteq Symbols /\ Batch[s] \in Bar
  BY CandleNow DEF Books
<1>2. s \in DOMAIN closes
  BY DEF Books, VisitsOK, Trading
<1> QED BY <1>1, <1>2, BarPrices DEF Batch

LEMMA BooksSold ==
  ASSUME Books, command = "momentum", UNCHANGED <<command, skip>>, NEW s \in Symbols, Momentum!MomentumExit(s)
  PROVE  Books'
<1>1. /\ phase = "exits" /\ s \in todo /\ todo' = todo \ {s} /\ s \in DOMAIN tape[session]
      /\ exited' = exited \cup {s} /\ UNCHANGED <<tape, pit, session, phase, histories, closes>>
  BY DEF Momentum!MomentumExit
<1>2. /\ DOMAIN positions' = DOMAIN positions \ {s}
      /\ \A u \in DOMAIN positions' : positions'[u] = positions[u]
  BY DEF Momentum!MomentumExit, Momentum!Restrict
<1>3. s \in DOMAIN positions /\ Batch' = Batch
  BY <1>1 DEF Books, VisitsOK, Batch
<1>4. TapeOK'
  BY <1>1, TapeKept DEF Books
<1>5. MarksOK'
  BY <1>1 DEF Books, MarksOK
<1>6. VisitsOK'
  BY <1>1, <1>2, <1>3 DEF Books, VisitsOK, Trading
<1>7. HoldingsOK'
  <2>1. IsFiniteSet(DOMAIN positions')
    BY <1>2, FS_Subset DEF Books, HoldingsOK
  <2> QED BY <1>1, <1>2, <2>1 DEF Books, HoldingsOK
<1> DEFINE price == tape[session][s].close
           delta == Momentum!SellCash(price, positions[s].qty)
           t == [key |-> <<s, "LONG">>, system |-> "MOMENTUM", pnl |-> delta - positions[s].cost]
<1>8. cash' = cash + delta /\ trades' = Append(trades, t)
  BY DEF Momentum!MomentumExit
<1>9. t.pnl = delta - TiedUp(s) /\ \A u \in DOMAIN positions' : TiedUp(u)' = TiedUp(u)
  BY <1>2 DEF TiedUp
<1>10. price \in Int /\ positions[s].qty \in Int
  BY <1>1, <1>3, MomentumFills DEF Books, HoldingsOK, Price, Batch
<1> HIDE DEF price, t
<1>11. delta \in Int
  BY <1>10, MomentumCash
<1> HIDE DEF delta
<1>12. skip' \subseteq Keys
  BY DEF Books, LedgerOK
<1>13. LedgerOK'
  BY <1>2, <1>3, <1>8, <1>9, <1>11, <1>12, CashSold DEF Books
<1> QED BY <1>4, <1>5, <1>6, <1>7, <1>13 DEF Books

LEMMA BooksBought ==
  ASSUME Books, command = "momentum", UNCHANGED <<command, skip>>, NEW s \in Symbols, Momentum!MomentumEnter(s)
  PROVE  Books'
<1>1. /\ phase = "entries" /\ s \in todo /\ todo' = todo \ {s} /\ s \in DOMAIN Batch
      /\ UNCHANGED <<tape, pit, session, phase, exited, histories, closes, trades>>
      /\ s \notin DOMAIN positions
  BY DEF Momentum!MomentumEnter, Momentum!Buyable, Batch
<1>2. /\ s \in DOMAIN closes /\ tape[session][s].close \in Price /\ Batch' = Batch
  BY <1>1, MomentumFills DEF Batch
<1> DEFINE price == tape[session][s].close
           qty == Momentum!QtyOf(s)
           delta == Momentum!BuyCash(price, qty)
           bought == [entered |-> session, qty |-> qty, price |-> price, cost |-> -delta]
<1>3. /\ cash' = cash + delta
      /\ positions' = [t \in DOMAIN positions \cup {s} |-> IF t = s THEN bought ELSE positions[t]]
  BY DEF Momentum!MomentumEnter
<1>4. qty \in Int
  BY <1>2, MomentumQtyInt DEF Books, LedgerOK
<1>5. price \in Int
  BY <1>2 DEF Price
<1>6. bought.qty = qty /\ bought.cost = -delta
  OBVIOUS
<1> HIDE DEF price, qty, bought
<1>7. delta \in Int
  BY <1>4, <1>5, MomentumCash
<1> HIDE DEF delta
<1>8. /\ DOMAIN positions' = DOMAIN positions \cup {s} /\ positions'[s] = bought
      /\ \A u \in DOMAIN positions \ {s} : positions'[u] = positions[u]
  BY <1>3
<1>9. TapeOK'
  BY <1>1, TapeKept DEF Books
<1>10. MarksOK'
  BY <1>1 DEF Books, MarksOK
<1>11. VisitsOK'
  BY <1>1, <1>2 DEF Books, VisitsOK, Trading
<1>12. HoldingsOK'
  <2>1. IsFiniteSet(DOMAIN positions \cup {s})
    BY FS_AddElement DEF Books, HoldingsOK
  <2> QED BY <1>1, <1>2, <1>4, <1>6, <1>7, <1>8, <2>1 DEF Books, HoldingsOK
<1>13. /\ \A u \in DOMAIN positions \ {s} : TiedUp(u)' = TiedUp(u)
       /\ TiedUp(s)' = 0 - delta
  BY <1>6, <1>7, <1>8 DEF TiedUp
<1>14. skip' \subseteq Keys
  BY DEF Books, LedgerOK
<1>15. LedgerOK'
  BY <1>1, <1>3, <1>7, <1>8, <1>13, <1>14, CashBought DEF Books
<1> QED BY <1>9, <1>10, <1>11, <1>12, <1>15 DEF Books

LEMMA BooksMomentum ==
  ASSUME Books, command = "momentum", UNCHANGED <<command, skip, openCosts>>, Momentum!MomentumNext
  PROVE  Books'
<1>1. CASE Momentum!MomentumOpen
  <2>1. /\ UNCHANGED <<tape, pit, session, exited, histories, cash, positions, trades>>
        /\ (phase = "input" /\ Len(tape) = Sessions /\ Sessions > 0) \/ phase = "between"
    BY <1>1 DEF Momentum!MomentumOpen
  <2>2. session \in 1..Sessions /\ Len(tape) = Sessions
    BY <2>1, BacktestConstantsOK DEF Books, TapeOK
  <2>3. DOMAIN Batch \subseteq Symbols /\ (\A s \in DOMAIN Batch : Batch[s] \in Bar) /\ Batch' = Batch
    BY <2>1, <2>2, Candle DEF Books, Batch
  <2>4. CASE /\ phase' = "exits" /\ todo' = DOMAIN positions
             /\ closes' = [s \in DOMAIN closes \cup DOMAIN Batch |->
                             IF s \in DOMAIN Batch THEN Batch[s].close ELSE closes[s]]
    <3>1. TapeOK'
      BY <2>1, <2>2, <2>4 DEF Books, TapeOK
    <3>2. MarksOK' /\ DOMAIN closes' = DOMAIN closes \cup DOMAIN Batch
      <4>1. \A s \in DOMAIN Batch : Batch[s].close \in Price
        BY <2>3, BarPrices
      <4> QED BY <2>1, <2>3, <2>4, <4>1 DEF Books, MarksOK
    <3>3. VisitsOK'
      <4>1. DOMAIN positions \subseteq Symbols
        BY DEF Books, HoldingsOK, MarksOK
      <4> QED BY <2>1, <2>3, <2>4, <3>2, <4>1 DEF Books, VisitsOK, Trading
    <3> QED BY <2>1, <3>1, <3>2, <3>3, BooksStay
  <2>5. CASE phase' = "failed" /\ UNCHANGED <<todo, closes>>
    <3>1. TapeOK' /\ MarksOK'
      BY <2>1, <2>5, TapeKept DEF Books, MarksOK
    <3>2. VisitsOK'
      BY <2>1, <2>5 DEF Books, VisitsOK, Trading
    <3> QED BY <2>1, <2>5, <3>1, <3>2, BooksStay
  <2> QED BY <1>1, <2>4, <2>5 DEF Momentum!MomentumOpen, Batch
<1>2. CASE Momentum!MomentumRank
  <2>1. /\ UNCHANGED <<tape, pit, session, exited, histories, closes, cash, positions, trades>>
        /\ phase = "exits" /\ phase' = "entries" /\ todo' \subseteq Symbols
    BY <1>2 DEF Momentum!MomentumRank, Momentum!Ranked
  <2>2. TapeOK' /\ MarksOK' /\ Batch' = Batch
    BY <2>1, TapeKept DEF Books, MarksOK, Batch
  <2>3. VisitsOK'
    BY <2>1, <2>2 DEF Books, VisitsOK, Trading
  <2> QED BY <2>1, <2>2, <2>3, BooksStay
<1>3. ASSUME UNCHANGED <<tape, pit, session, phase, exited, histories, closes, cash, positions, trades>>,
             todo' \subseteq todo
      PROVE  Books'
  <2>1. TapeOK' /\ MarksOK' /\ Batch' = Batch
    BY <1>3, TapeKept DEF Books, MarksOK, Batch
  <2>2. VisitsOK'
    BY <1>3, <2>1 DEF Books, VisitsOK, Trading
  <2> QED BY <1>3, <2>1, <2>2, BooksStay
<1>4. CASE Momentum!MomentumEnd
  <2>1. /\ UNCHANGED <<tape, pit, todo, closes, cash, positions, trades>> /\ exited' = {}
        /\ phase = "entries"
        /\ \/ session < Sessions /\ session' = session + 1 /\ phase' = "between"
           \/ session' = session /\ phase' = "done"
        /\ histories' = [s \in Symbols |->
             IF s \in DOMAIN Batch THEN Append(histories[s], Batch[s]) ELSE histories[s]]
    BY <1>4 DEF Momentum!MomentumEnd, Batch
  <2>2. TapeOK'
    <3>1. session \in 1..Sessions /\ Sessions \in Nat
      BY <2>1, BacktestConstantsOK DEF Books, TapeOK
    <3>2. session' \in 1..Sessions
      BY <2>1, <3>1
    <3>3. session' \in 1..Max({Sessions, 1})
      BY <3>2, MaxSession
    <3> QED BY <2>1, <3>2, <3>3 DEF Books, TapeOK
  <2>3. \A s \in DOMAIN Batch : Batch[s] \in Bar
    BY <2>1, CandleNow DEF Books
  <2>4. MarksOK'
    BY <2>1, <2>3 DEF Books, MarksOK
  <2>5. VisitsOK'
    BY <2>1 DEF Books, VisitsOK, Trading
  <2> QED BY <2>1, <2>2, <2>4, <2>5, BooksStay
<1>5. Momentum!MomentumStop => Books'
  BY <1>3 DEF Momentum!MomentumStop
<1>6. ASSUME NEW s \in Symbols, Momentum!MomentumKeep(s) \/ Momentum!MomentumSkip(s) PROVE Books'
  BY <1>3, <1>6 DEF Momentum!MomentumKeep, Momentum!MomentumSkip
<1> QED BY <1>1, <1>2, <1>4, <1>5, <1>6, BooksSold, BooksBought DEF Momentum!MomentumNext

LEMMA BooksLoad ==
  ASSUME Books, UNCHANGED <<command, pit>>, NEW batch \in Candles, NEW keys, Load(batch, keys)
  PROVE  Books'
<1>1. /\ phase = "input" /\ Len(tape) < Sessions /\ tape' = Append(tape, batch)
      /\ UNCHANGED <<session, phase, todo, exited, market, account, skip>>
  BY DEF Load
<1>2. batch \in Batches[command][Len(tape) + 1]
  BY DEF Candles
<1>3. TapeOK'
  <2> DEFINE n == Len(tape)
  <2>1. /\ IsSequence(tape') /\ n \in Nat /\ Len(tape') = n + 1
        /\ \A i \in 1..n : tape'[i] = tape[i]
        /\ tape'[n + 1] = batch
    BY <1>1, Appended DEF Books, TapeOK
  <2>2. n < Sessions /\ Sessions \in Nat /\ batch \in Batches[command][n + 1]
    BY <1>1, <1>2, BacktestConstantsOK
  <2>3. \A i \in 1..n : tape[i] \in Batches[command][i]
    BY DEF Books, TapeOK
  <2> HIDE DEF n
  <2>4. \A i \in 1..(n + 1) : tape'[i] \in Batches[command][i]
    BY <2>1, <2>2, <2>3
  <2> QED BY <1>1, <2>1, <2>2, <2>4 DEF Books, TapeOK
<1>4. MarksOK' /\ closes' = closes
  BY <1>1 DEF Books, MarksOK, market
<1>5. VisitsOK'
  BY <1>1 DEF Books, VisitsOK, Trading
<1> QED BY <1>1, <1>3, <1>4, <1>5, BooksStay DEF account

LEMMA BooksPreserved == Books /\ [BacktestsNext]_vars => Books'
<1> SUFFICES ASSUME Books, [BacktestsNext]_vars PROVE Books'
  OBVIOUS
<1>1. CASE Single
  BY <1>1, BooksLoad, BooksSession DEF Single
<1>2. CASE Portfolio
  BY <1>2, BooksLoad, BooksSession DEF Portfolio
<1>3. CASE Scan
  <2>1. ASSUME NEW batch \in Candles, ScanDay(batch) PROVE Books'
    BY <1>3, <2>1, BooksLoad DEF Scan, ScanDay
  <2>2. CASE PitMissing
    <3>1. /\ UNCHANGED <<command, pit, tape, session, todo, exited, market, account, skip>>
          /\ phase' = "failed"
      BY <1>3, <2>2 DEF PitMissing, Scan, input
    <3>2. TapeOK' /\ MarksOK' /\ closes' = closes
      BY <3>1, TapeKept DEF Books, MarksOK, market
    <3>3. VisitsOK'
      BY <3>1 DEF Books, VisitsOK, Trading
    <3> QED BY <3>1, <3>2, <3>3, BooksStay DEF account
  <2> QED BY <1>3, <2>1, <2>2, BooksSession DEF Scan
<1>4. CASE MomentumRun
  BY <1>4, BooksLoad, BooksMomentum DEF MomentumRun
<1>5. CASE UNCHANGED vars
  <2>1. UNCHANGED <<command, pit, tape, session, phase, todo, exited, histories, closes, cash, trades,
                    positions, openCosts, skip>>
    BY <1>5 DEF vars, scanVars, backtestVars, input, market, account
  <2>2. TapeOK' /\ MarksOK' /\ Batch' = Batch
    BY <2>1, TapeKept DEF Books, MarksOK, Batch
  <2>3. VisitsOK'
    BY <2>1, <2>2 DEF Books, VisitsOK, Trading
  <2> QED BY <2>1, <2>2, <2>3, BooksStay
<1> QED BY <1>1, <1>2, <1>3, <1>4, <1>5 DEF BacktestsNext

LEMMA BooksAlways == BacktestsSpec => []Books
  BY BooksStart, BooksPreserved, PTL DEF BacktestsSpec

\* What the engines keep has its type whatever the candles, the costs and the
\* limits are: the cash stays a whole number, every position has a mark, and
\* every open position of the turtle engines has its cost.
THEOREM BacktestsTypesCorrect == BacktestsSpec => []BacktestsTypeOK
<1>1. Books => BacktestsTypeOK
  BY BatchesOK DEF Books, TapeOK, MarksOK, VisitsOK, HoldingsOK, LedgerOK, BacktestsTypeOK
<1> QED BY BooksAlways, <1>1, PTL

\* The cash of a backtest is what it began with, and the results of its closed
\* trades, less what its open positions took, after any sequence of fills.
THEOREM CashIsAccounted == BacktestsSpec => []CashAccounted
<1>1. Books => CashAccounted
  BY DEF Books, LedgerOK
<1> QED BY BooksAlways, <1>1, PTL

-----------------------------------------------------------------------------
(* Prices of fills *)

InBar(e) == e.side # "none" =>
  LET bar == tape[session][e.symbol]
      price == e.price
  IN IF e.side = "SELL" THEN Worst("SELL", bar.low) <= price /\ price <= bar.high
     ELSE bar.low <= price /\ price <= Worst("BUY", bar.high)

NewInBar == \A i \in DOMAIN audit' \ DOMAIN audit : InBar(audit'[i])

LEMMA EventInBar ==
  ASSUME IsSequence(audit), NEW e, audit' = Append(audit, e), InBar(e)
  PROVE  NewInBar
<1> DEFINE n == Len(audit)
<1>1. n \in Nat /\ DOMAIN audit = 1..n /\ DOMAIN audit' = 1..(n + 1) /\ audit'[n + 1] = e
  BY Appended
<1> HIDE DEF n
<1>2. \A i \in DOMAIN audit' \ DOMAIN audit : i = n + 1
  BY <1>1
<1> QED BY <1>1, <1>2 DEF NewInBar

LEMMA BuyInBar ==
  ASSUME IsSequence(audit), NEW s, NEW direction, NEW signal, NEW qty, NEW position,
         Allows(Batch[s], signal.side, FillPrice(Batch[s], signal)), command # "momentum",
         Buy(s, direction, signal, qty, position)
  PROVE  NewInBar
<1>1. ASSUME NEW reason, Block(s, reason) PROVE NewInBar
  <2> DEFINE e == Event(reason, "none", s, 0)
  <2>1. audit' = Append(audit, e) /\ e.side = "none"
    BY <1>1 DEF Block, Event
  <2> HIDE DEF e
  <2> QED BY <2>1, EventInBar DEF InBar
<1>2. CASE audit' = Append(audit, Event(signal.kind, signal.side, s, FillPrice(Batch[s], signal)))
  <2> DEFINE e == Event(signal.kind, signal.side, s, FillPrice(Batch[s], signal))
  <2>1. e.price = FillPrice(Batch[s], signal) /\ e.symbol = s /\ e.side = signal.side
    BY DEF Event
  <2>2. audit' = Append(audit, e)
    BY <1>2
  <2> HIDE DEF e
  <2>3. InBar(e)
    BY <2>1 DEF InBar, Batch, Allows, Worst
  <2> QED BY <2>2, <2>3, EventInBar
<1> QED BY <1>1, <1>2 DEF Buy

LEMMA SessionInBar ==
  ASSUME Books, IsSequence(audit), command # "momentum", SessionStep
  PROVE  NewInBar
<1>1. CASE audit' = audit
  BY <1>1 DEF NewInBar
<1>2. ASSUME NEW s \in Symbols, s \in todo, phase \in {"exits", "entries"}
      PROVE  s \in DOMAIN Batch /\ Batch[s] \in Bar
  <2>1. s \in DOMAIN Batch
    BY <1>2 DEF Books, VisitsOK, Trading
  <2> QED BY <1>2, <2>1, CandleNow DEF Books
<1>3. ASSUME NEW s \in Symbols, Exit(s) PROVE NewInBar
  <2>1. s \in DOMAIN positions \cap DOMAIN Batch /\ Batch[s] \in Bar
    BY <1>2, <1>3 DEF Exit, Visit
  <2>2. PICK signal \in ExitsOf(s) : CloseOut(s, signal)
    BY <1>3 DEF Exit
  <2> DEFINE price == FillPrice(Batch[s], signal)
             e == Event(signal.kind, signal.side, s, price)
  <2>3. audit' = Append(audit, e) /\ e.price = price /\ e.symbol = s /\ e.side = signal.side
    BY <2>2 DEF CloseOut, Event
  <2>4. Allows(Batch[s], signal.side, price)
    BY <2>1, <2>2, ExitFills DEF Books
  <2> HIDE DEF e, price
  <2>5. InBar(e)
    BY <2>3, <2>4 DEF InBar, Batch, Allows, Worst
  <2> QED BY <2>3, <2>5, EventInBar
<1>4. ASSUME NEW s \in Symbols, Pyramid(s) PROVE NewInBar
  <2>1. s \in DOMAIN positions \cap DOMAIN Batch /\ Batch[s] \in Bar
    BY <1>2, <1>4 DEF Pyramid, Visit
  <2>2. PICK signal \in UnitsOf(s) : \E qty, position : Buy(s, positions[s].direction, signal, qty, position)
    BY <1>4 DEF Pyramid
  <2>3. Allows(Batch[s], signal.side, FillPrice(Batch[s], signal))
    BY <2>1, <2>2, UnitFills DEF Books
  <2> QED BY <2>2, <2>3, BuyInBar
<1>5. ASSUME NEW s \in Symbols, Enter(s) PROVE NewInBar
  <2>1. s \in DOMAIN Batch /\ Batch[s] \in Bar
    BY <1>2, <1>5 DEF Enter, Visit
  <2>2. PICK i \in Taken(s) : \E signal \in EntryIn(s, Allowed[i]) :
               \E qty, position : Buy(s, Allowed[i], signal, qty, position)
    BY <1>5 DEF Enter
  <2> DEFINE d == Allowed[i]
  <2>3. d \in Directions
    BY BacktestConstantsOK DEF Taken, Tried
  <2>4. PICK signal \in EntryIn(s, d) : \E qty, position : Buy(s, d, signal, qty, position)
    BY <2>2
  <2> HIDE DEF d
  <2>5. Allows(Batch[s], signal.side, FillPrice(Batch[s], signal))
    BY <2>1, <2>3, EntryFills DEF Books
  <2> QED BY <2>4, <2>5, BuyInBar
<1> QED BY <1>1, <1>3, <1>4, <1>5 DEF SessionStep, OpenSession, ExitsDone, EndSession, Keep, Pass

LEMMA MomentumInBar ==
  ASSUME Books, IsSequence(audit), command = "momentum", Momentum!MomentumNext
  PROVE  NewInBar
<1>1. CASE audit' = audit
  BY <1>1 DEF NewInBar
<1>2. ASSUME NEW s \in Symbols, NEW kind, NEW side, phase \in {"exits", "entries"},
             s \in DOMAIN tape[session],
             audit' = Append(audit, Momentum!Event(kind, side, s, tape[session][s].close))
      PROVE  NewInBar
  <2> DEFINE b == tape[session][s]
             e == Momentum!Event(kind, side, s, b.close)
  <2>1. b \in Bar
    BY <1>2, MomentumFills DEF Batch
  <2>2. e.price = b.close /\ e.symbol = s /\ audit' = Append(audit, e)
    BY <1>2 DEF Momentum!Event
  <2>3. b.low <= b.close /\ b.close <= b.high
    BY <2>1, BarPrices
  <2> HIDE DEF e
  <2>4. InBar(e)
    BY <2>2, <2>3 DEF InBar, Worst
  <2> QED BY <2>2, <2>4, EventInBar
<1>3. ASSUME NEW s \in Symbols, Momentum!MomentumExit(s) PROVE NewInBar
  BY <1>2, <1>3 DEF Momentum!MomentumExit
<1>4. ASSUME NEW s \in Symbols, Momentum!MomentumEnter(s) PROVE NewInBar
  BY <1>2, <1>4 DEF Momentum!MomentumEnter, Momentum!Buyable
<1> QED BY <1>1, <1>3, <1>4
        DEF Momentum!MomentumNext, Momentum!MomentumOpen, Momentum!MomentumRank, Momentum!MomentumStop,
            Momentum!MomentumEnd, Momentum!MomentumKeep, Momentum!MomentumSkip

\* Every fill is booked at a price that the bar of its session and the slippage
\* allow: an exit, a unit or an entry in either direction, gapped open or not.
THEOREM FillsAreInTheirBar == BacktestsSpec => FillsInsideBar
<1>1. ASSUME AuditInv, Books, [BacktestsNext]_vars PROVE NewInBar
  <2>1. IsSequence(audit)
    BY <1>1 DEF AuditInv
  <2>2. audit' = audit => NewInBar
    BY DEF NewInBar
  <2>3. UNCHANGED vars => audit' = audit
    BY DEF vars, scanVars, backtestVars
  <2>4. \A batch, keys : Load(batch, keys) => audit' = audit
    BY DEF Load
  <2>5. PitMissing => audit' = audit
    BY DEF PitMissing
  <2> QED BY <1>1, <2>1, <2>2, <2>3, <2>4, <2>5, SessionInBar, MomentumInBar
          DEF BacktestsNext, Single, Portfolio, Scan, MomentumRun, ScanDay
<1>2. AuditInv /\ Books /\ [BacktestsNext]_vars =>
        [\A i \in DOMAIN audit' \ DOMAIN audit : audit'[i].side # "none" =>
           LET bar == tape[session][audit'[i].symbol]
               price == audit'[i].price
           IN IF audit'[i].side = "SELL"
              THEN Worst("SELL", bar.low) <= price /\ price <= bar.high
              ELSE bar.low <= price /\ price <= Worst("BUY", bar.high)]_vars
  BY <1>1 DEF NewInBar, InBar
<1> QED BY AuditStart, AuditPreserved, BooksAlways, <1>2, PTL DEF BacktestsSpec, FillsInsideBar

-----------------------------------------------------------------------------
(* Stops *)

Tightens == \A s \in DOMAIN positions \cap DOMAIN positions' :
  IF positions[s].direction = "SHORT" THEN positions'[s].stop <= positions[s].stop
  ELSE positions'[s].stop >= positions[s].stop

LEMMA HeldStops ==
  ASSUME HoldingsOK, command # "momentum",
         \A s \in DOMAIN positions \cap DOMAIN positions' : positions'[s] = positions[s]
  PROVE  Tightens
<1>1. \A s \in DOMAIN positions : positions[s].stop \in Int
  BY DEF HoldingsOK, Position
<1> QED BY <1>1 DEF Tightens

LEMMA UnitTightens ==
  ASSUME Books, command # "momentum", NEW s \in Symbols, Pyramid(s)
  PROVE  Tightens
<1>1. s \in DOMAIN positions \cap DOMAIN Batch /\ Batch[s] \in Bar
  <2>1. phase = "entries" /\ s \in todo /\ s \in DOMAIN positions
    BY DEF Pyramid, Visit
  <2>2. s \in DOMAIN Batch
    BY <2>1 DEF Books, VisitsOK, Trading
  <2> QED BY <2>1, <2>2, CandleNow DEF Books
<1> DEFINE p == positions[s]
           qty == QtyFor(Equity(cash, positions, closes), p.entryN)
<1>2. PICK signal \in UnitsOf(s) :
        Buy(s, p.direction, signal, qty, WithUnit(p, FillPrice(Batch[s], signal), qty))
  BY DEF Pyramid
<1> DEFINE fill == FillPrice(Batch[s], signal)
           q == WithUnit(p, fill, qty)
<1>3. positions' = positions \/ positions' = With(positions, s, q)
  BY <1>2 DEF Buy, Block, account
<1>4. /\ p \in Position /\ p.stop = StopFor(p.direction, p.last, p.entryN)
  BY <1>1 DEF Books, HoldingsOK
<1>5. /\ fill \in Int
      /\ IF p.direction = "SHORT" THEN fill <= PyramidTrigger(p) ELSE fill >= PyramidTrigger(p)
  BY <1>1, UnitFills DEF Books
<1>6. qty \in Int
  <2>1. Equity(cash, positions, closes) \in Int
    BY EquityInt DEF Books, LedgerOK
  <2>2. p.entryN \in Nat
    BY <1>4 DEF Position
  <2> HIDE DEF p
  <2> QED BY <2>1, <2>2, QtyInt
<1> HIDE DEF p, fill, qty
<1>7. q.stop = StopFor(p.direction, fill, p.entryN)
  BY <1>4, <1>5, <1>6, WithUnitOK
<1>8. IF p.direction = "SHORT" THEN q.stop <= p.stop ELSE q.stop >= p.stop
  <2>1. p.last \in Int /\ p.entryN \in Nat /\ StepN * p.entryN \in Nat /\ StopN * p.entryN \in Nat
    BY <1>4, TurtleConstantsOK, ProductNat DEF Position
  <2> DEFINE step == StepN * p.entryN
             away == StopN * p.entryN
  <2>2. /\ p.stop = IF p.direction = "SHORT" THEN p.last + away ELSE p.last - away
        /\ q.stop = IF p.direction = "SHORT" THEN fill + away ELSE fill - away
        /\ IF p.direction = "SHORT" THEN fill <= p.last - step ELSE fill >= p.last + step
    BY <1>4, <1>5, <1>7 DEF StopFor, PyramidTrigger
  <2>3. step \in Nat /\ away \in Nat
    BY <2>1
  <2> HIDE DEF step, away, q
  <2> QED BY <1>5, <2>1, <2>2, <2>3
<1>9. CASE positions' = positions
  BY <1>9, HeldStops DEF Books
<1>10. CASE positions' = With(positions, s, q)
  <2> HIDE DEF q
  <2>1. positions'[s] = q /\ \A t \in DOMAIN positions \ {s} : positions'[t] = positions[t]
    BY <1>10 DEF With
  <2>2. \A t \in DOMAIN positions : positions[t].stop \in Int
    BY DEF Books, HoldingsOK, Position
  <2> QED BY <1>8, <2>1, <2>2 DEF Tightens, p
<1> QED BY <1>3, <1>9, <1>10

\* While a position of the turtle engines is held its stop never moves against the
\* trade: a unit is added at or beyond its trigger, and takes the stop with it.
THEOREM StopsOnlyTighten == BacktestsSpec => StopOnlyTightens
<1>1. ASSUME Books, [BacktestsNext]_vars, command # "momentum" PROVE Tightens
  <2>1. positions' = positions => Tightens
    BY <1>1, HeldStops DEF Books
  <2>2. ASSUME NEW s \in Symbols, Exit(s) PROVE Tightens
    <3>1. positions' = Without(positions, s)
      BY <2>2 DEF Exit, CloseOut
    <3>2. \A t \in DOMAIN positions \cap DOMAIN positions' : positions'[t] = positions[t]
      BY <3>1 DEF Without, Restrict
    <3> QED BY <1>1, <3>2, HeldStops DEF Books
  <2>3. ASSUME NEW s \in Symbols, Enter(s) PROVE Tightens
    <3>1. s \notin DOMAIN positions /\ (positions' = positions \/ \E q : positions' = With(positions, s, q))
      BY <2>3 DEF Enter, Buy, Block, account
    <3>2. \A t \in DOMAIN positions \cap DOMAIN positions' : positions'[t] = positions[t]
      BY <3>1 DEF With
    <3> QED BY <1>1, <3>2, HeldStops DEF Books
  <2>4. SessionStep => Tightens
    BY <1>1, <2>1, <2>2, <2>3, UnitTightens
       DEF SessionStep, OpenSession, ExitsDone, EndSession, Keep, Pass, account
  <2>5. /\ UNCHANGED vars => positions' = positions
        /\ PitMissing => positions' = positions
        /\ \A batch, keys : Load(batch, keys) => positions' = positions
    BY DEF vars, scanVars, backtestVars, account, PitMissing, Load
  <2> QED BY <1>1, <2>1, <2>4, <2>5 DEF BacktestsNext, Single, Portfolio, Scan, MomentumRun, ScanDay
<1>2. Books /\ [BacktestsNext]_vars =>
        [command # "momentum" => \A s \in DOMAIN positions \cap DOMAIN positions' :
           IF positions[s].direction = "SHORT" THEN positions'[s].stop <= positions[s].stop
           ELSE positions'[s].stop >= positions[s].stop]_vars
  BY <1>1 DEF Tightens
<1> QED BY BooksAlways, <1>2, PTL DEF BacktestsSpec, StopOnlyTightens

-----------------------------------------------------------------------------
(* Drawdown *)

Step(values, f, i) ==
  IF i = 0 THEN [peak |-> InitialEquity, worst |-> 0]
  ELSE LET peak == Max({f[i - 1].peak, values[i]})
       IN [peak |-> peak, worst |-> Max({f[i - 1].worst, peak - values[i]})]

Falls(values, n, f) == f = [i \in 0..n |-> Step(values, f, i)]

\* One pass over the curve exists, whatever its length.
LEMMA FallsExist == \A values : \A n \in Nat : \E f : Falls(values, n, f)
<1> TAKE values
<1> DEFINE P == {n \in Nat : \E f : Falls(values, n, f)}
<1>1. 0 \in P
  <2> DEFINE f == [i \in 0..0 |-> [peak |-> InitialEquity, worst |-> 0]]
  <2>1. f = [i \in 0..0 |-> Step(values, f, i)]
    BY DEF Step
  <2> HIDE DEF f
  <2> QED BY <2>1 DEF Falls
<1>2. ASSUME NEW n \in Nat, n \in P PROVE n + 1 \in P
  <2>1. PICK f : Falls(values, n, f)
    BY <1>2
  <2> DEFINE D == 0..n
             E == 0..(n + 1)
             h == [i \in E |-> Step(values, f, i)]
  <2>2. D \subseteq E /\ \A i \in E : i # 0 => i - 1 \in D
    OBVIOUS
  <2>3. \A i \in D : f[i] = Step(values, f, i)
    BY <2>1 DEF Falls
  <2> HIDE DEF D, E
  <2>4. \A i \in D : h[i] = f[i]
    BY <2>2, <2>3
  <2>5. \A i \in E : h[i] = Step(values, h, i)
    <3> SUFFICES ASSUME NEW i \in E PROVE Step(values, f, i) = Step(values, h, i)
      OBVIOUS
    <3>1. i # 0 => h[i - 1] = f[i - 1]
      BY <2>2, <2>4
    <3> HIDE DEF h
    <3> QED BY <3>1 DEF Step
  <2>6. h = [i \in E |-> Step(values, h, i)]
    <3>1. h = [i \in E |-> h[i]]
      OBVIOUS
    <3> HIDE DEF h
    <3> QED BY <2>5, <3>1
  <2> HIDE DEF h
  <2>7. Falls(values, n + 1, h)
    BY <2>6 DEF Falls, E
  <2> QED BY <2>7
<1>3. Nat \subseteq P
  <2> HIDE DEF P
  <2> QED BY <1>1, <1>2, NumberInduction
<1> QED BY <1>3

Point(values, i) == IF i = 0 THEN InitialEquity ELSE values[i]

\* What the pass remembers after k points: the highest of them, and the worst
\* fall between any two.
Covers(values, r, k) ==
  /\ r.peak \in Int /\ \A i \in 0..k : Point(values, i) <= r.peak
  /\ \E i \in 0..k : Point(values, i) = r.peak
  /\ r.worst \in Nat
  /\ \A i, j \in 0..k : i <= j => Point(values, i) - Point(values, j) <= r.worst
  /\ r.worst # 0 =>
       \E i, j \in 0..k : i <= j /\ r.worst = Point(values, i) - Point(values, j)

LEMMA CoversStep ==
  ASSUME NEW values, NEW k \in Nat, \A i \in 0..(k + 1) : Point(values, i) \in Int,
         NEW r, Covers(values, r, k), NEW q,
         q.peak = Max({r.peak, values[k + 1]}), q.worst = Max({r.worst, q.peak - values[k + 1]})
  PROVE  Covers(values, q, k + 1)
<1> DEFINE P(i) == Point(values, i)
           v == values[k + 1]
<1>1. P(k + 1) = v /\ v \in Int /\ r.peak \in Int /\ r.worst \in Int /\ r.worst >= 0
  BY DEF Covers, Point
<1>2. /\ \A i \in 0..(k + 1) : P(i) \in Int /\ (i = k + 1 \/ i \in 0..k)
      /\ k + 1 \in 0..(k + 1) /\ \A i \in 0..k : i \in 0..(k + 1) /\ i <= k + 1 /\ ~(k + 1 <= i)
  OBVIOUS
<1>3. /\ \A i \in 0..k : P(i) <= r.peak
      /\ \E i \in 0..k : P(i) = r.peak
      /\ \A i, j \in 0..k : i <= j => P(i) - P(j) <= r.worst
      /\ r.worst # 0 => \E i, j \in 0..k : i <= j /\ r.worst = P(i) - P(j)
  BY DEF Covers
<1> HIDE DEF P, v
<1>4. q.peak = (IF r.peak <= v THEN v ELSE r.peak) /\ q.peak \in Int
  BY <1>1, GreaterOf DEF v
<1>5. q.worst = (IF r.worst <= q.peak - v THEN q.peak - v ELSE r.worst) /\ q.worst \in Int
  <2>1. q.peak - v \in Int
    BY <1>1, <1>4
  <2>2. q.worst = Max({r.worst, q.peak - v})
    BY DEF v
  <2> QED BY <1>1, <2>1, <2>2, GreaterOf
<1> DEFINE a == q.peak
           w == q.worst
           b == r.peak
           x == r.worst
<1>6. /\ a = (IF b <= v THEN v ELSE b) /\ a \in Int /\ b \in Int /\ x \in Int /\ x >= 0
      /\ w = (IF x <= a - v THEN a - v ELSE x) /\ w \in Int
  BY <1>1, <1>4, <1>5
<1>7. /\ \A i \in 0..k : P(i) <= b
      /\ \E i \in 0..k : P(i) = b
      /\ \A i, j \in 0..k : i <= j => P(i) - P(j) <= x
      /\ x # 0 => \E i, j \in 0..k : i <= j /\ x = P(i) - P(j)
  BY <1>3
<1> HIDE DEF a, w, b, x
<1>8. \A i \in 0..(k + 1) : P(i) <= a
  BY <1>1, <1>2, <1>6, <1>7
<1>9. \E i \in 0..(k + 1) : P(i) = a
  <2>1. PICK i \in 0..k : P(i) = b
    BY <1>7
  <2>2. i \in 0..(k + 1) /\ k + 1 \in 0..(k + 1)
    BY <1>2
  <2>3. a = b \/ a = P(k + 1)
    BY <1>1, <1>6
  <2> QED BY <2>1, <2>2, <2>3
<1>10. w \in Nat /\ a >= v /\ x <= w /\ a - v <= w
  BY <1>1, <1>6
<1>11. ASSUME NEW i \in 0..(k + 1), NEW j \in 0..(k + 1), i <= j PROVE P(i) - P(j) <= w
  <2>1. CASE j = k + 1
    <3>1. P(i) <= a /\ P(j) = v /\ P(i) \in Int
      BY <1>1, <1>2, <1>8, <2>1
    <3> QED BY <1>1, <1>6, <1>10, <3>1
  <2>2. CASE j \in 0..k
    <3>1. i \in 0..k
      BY <1>2, <1>11, <2>2
    <3>2. P(i) - P(j) <= x /\ P(i) \in Int /\ P(j) \in Int
      BY <1>2, <1>7, <1>11, <2>2, <3>1
    <3> QED BY <1>6, <1>10, <3>2
  <2> QED BY <1>2, <2>1, <2>2
<1>12. ASSUME w # 0 PROVE \E i, j \in 0..(k + 1) : i <= j /\ w = P(i) - P(j)
  <2>1. CASE x <= a - v
    <3>1. PICK i \in 0..(k + 1) : P(i) = a
      BY <1>9
    <3>2. i <= k + 1 /\ k + 1 \in 0..(k + 1) /\ w = P(i) - P(k + 1)
      BY <1>1, <1>6, <2>1, <3>1
    <3> QED BY <3>2
  <2>2. CASE ~(x <= a - v)
    <3>1. w = x /\ x # 0
      BY <1>6, <1>12, <2>2
    <3>2. PICK i, j \in 0..k : i <= j /\ x = P(i) - P(j)
      BY <1>7, <3>1
    <3>3. i \in 0..(k + 1) /\ j \in 0..(k + 1)
      BY <1>2
    <3> QED BY <3>1, <3>2, <3>3
  <2> QED BY <2>1, <2>2
<1> QED BY <1>6, <1>8, <1>9, <1>10, <1>11, <1>12 DEF Covers, a, w, P

LEMMA DrawdownCovers ==
  ASSUME NEW values \in Seq(Int)
  PROVE  \E r : Covers(values, r, Len(values)) /\ MaxDrawdown(values) = r.worst
<1> DEFINE n == Len(values)
           f == CHOOSE g : Falls(values, n, g)
<1>1. n \in Nat /\ \A i \in 0..n : Point(values, i) \in Int
  BY BacktestConstantsOK DEF Point
<1>2. MaxDrawdown(values) = f[n].worst
  BY DEF MaxDrawdown, Falls, Step
<1>3. Falls(values, n, f)
  BY <1>1, FallsExist
<1> HIDE DEF f
<1>4. \A i \in 0..n : f[i] = Step(values, f, i)
  BY <1>3 DEF Falls
<1> HIDE DEF n
<1> DEFINE P == {k \in Nat : k <= n => Covers(values, f[k], k)}
<1>5. 0 \in P
  <2> DEFINE r == f[0]
  <2>1. r = [peak |-> InitialEquity, worst |-> 0]
    <3>1. 0 \in 0..n
      BY <1>1
    <3>2. r = Step(values, f, 0)
      BY <1>4, <3>1
    <3> HIDE DEF r
    <3> QED BY <3>2 DEF Step
  <2>2. r.peak = InitialEquity /\ r.worst = 0 /\ InitialEquity \in Int
    BY <2>1, BacktestConstantsOK
  <2>3. \A i \in 0..0 : i = 0
    OBVIOUS
  <2>4. Point(values, 0) = InitialEquity /\ 0 \in 0..0
    BY DEF Point
  <2> HIDE DEF r
  <2>5. Covers(values, r, 0)
    BY <2>2, <2>3, <2>4 DEF Covers
  <2> QED BY <2>5 DEF r
<1>6. ASSUME NEW k \in Nat, k \in P PROVE k + 1 \in P
  <2> SUFFICES ASSUME k + 1 <= n PROVE Covers(values, f[k + 1], k + 1)
    OBVIOUS
  <2>1. Covers(values, f[k], k)
    BY <1>1, <1>6
  <2> DEFINE i == k + 1
             top == Max({f[i - 1].peak, values[i]})
  <2>2. i \in 0..n /\ i # 0 /\ i - 1 = k
    BY <1>1
  <2>3. f[i] = [peak |-> top, worst |-> Max({f[i - 1].worst, top - values[i]})]
    BY <1>4, <2>2 DEF Step
  <2> HIDE DEF top
  <2>4. f[i].peak = top /\ f[i].worst = Max({f[k].worst, top - values[i]})
    <3> HIDE DEF i
    <3> DEFINE worst == Max({f[i - 1].worst, top - values[i]})
    <3>1. f[i] = [peak |-> top, worst |-> worst]
      BY <2>3
    <3>2. worst = Max({f[k].worst, top - values[i]})
      BY <2>2
    <3> HIDE DEF worst
    <3>3. f[i].peak = top /\ f[i].worst = worst
      BY <3>1
    <3> QED BY <3>2, <3>3
  <2>6. top = Max({f[k].peak, values[i]})
    <3> HIDE DEF i
    <3> QED BY <2>2 DEF top
  <2>5. \A j \in 0..(k + 1) : Point(values, j) \in Int
    BY <1>1
  <2> QED BY <2>1, <2>4, <2>5, <2>6, CoversStep
<1>7. Nat \subseteq P
  <2> HIDE DEF P
  <2> QED BY <1>5, <1>6, NumberInduction
<1>8. Covers(values, f[n], n)
  BY <1>1, <1>7
<1> QED BY <1>2, <1>8 DEF n

LEMMA DrawdownExact ==
  ASSUME NEW values \in Seq(Int)
  PROVE  LET equity == <<InitialEquity>> \o values
         IN MaxDrawdown(values) =
              Max({0} \cup UNION {{equity[i] - equity[j] : j \in i..Len(equity)} : i \in DOMAIN equity})
<1> DEFINE equity == <<InitialEquity>> \o values
           n == Len(values)
           All == {0} \cup UNION {{equity[i] - equity[j] : j \in i..Len(equity)} : i \in DOMAIN equity}
<1>1. n \in Nat /\ Len(equity) = n + 1 /\ DOMAIN equity = 1..(n + 1)
  BY BacktestConstantsOK
<1>2. \A i \in 1..(n + 1) : equity[i] = Point(values, i - 1)
  BY BacktestConstantsOK DEF Point
<1>3. PICK r : Covers(values, r, n) /\ MaxDrawdown(values) = r.worst
  BY DrawdownCovers
<1> HIDE DEF equity
<1>4. ASSUME NEW d \in All PROVE d \in Int /\ d <= r.worst
  <2>1. CASE d = 0
    BY <1>3, <2>1 DEF Covers
  <2>2. CASE d # 0
    <3>1. PICK i \in DOMAIN equity : d \in {equity[i] - equity[j] : j \in i..Len(equity)}
      BY <1>4, <2>2
    <3>2. PICK j \in i..Len(equity) : d = equity[i] - equity[j]
      BY <3>1
    <3>3. /\ i - 1 \in 0..n /\ j - 1 \in 0..n /\ i - 1 <= j - 1
          /\ d = Point(values, i - 1) - Point(values, j - 1)
      BY <1>1, <1>2, <3>1, <3>2
    <3>4. Point(values, i - 1) \in Int /\ Point(values, j - 1) \in Int
      BY <1>1, <3>3, BacktestConstantsOK DEF Point
    <3> QED BY <1>3, <3>3, <3>4 DEF Covers
  <2> QED BY <2>1, <2>2
<1>5. r.worst \in All
  <2>1. CASE r.worst = 0
    BY <2>1
  <2>2. CASE r.worst # 0
    <3>1. PICK i, j \in 0..n : i <= j /\ r.worst = Point(values, i) - Point(values, j)
      BY <1>3, <2>2 DEF Covers
    <3>2. /\ i + 1 \in DOMAIN equity /\ j + 1 \in (i + 1)..Len(equity)
          /\ r.worst = equity[i + 1] - equity[j + 1]
      BY <1>1, <1>2, <3>1
    <3> QED BY <3>2
  <2> QED BY <2>1, <2>2
<1>6. r.worst \in Int
  BY <1>3 DEF Covers
<1> HIDE DEF All
<1>7. Max(All) = r.worst
  <2>1. \A d \in All : r.worst >= d
    BY <1>4, <1>6
  <2>2. Max(All) \in All /\ \A d \in All : Max(All) >= d
    BY <1>5, <2>1 DEF Max
  <2> QED BY <1>4, <1>5, <1>6, <2>1, <2>2
<1> QED BY <1>3, <1>7 DEF All, equity

CurveOK == curve \in Seq(Int)

LEMMA CurvePreserved == Books /\ CurveOK /\ [BacktestsNext]_vars => CurveOK'
<1> SUFFICES ASSUME Books, CurveOK, [BacktestsNext]_vars PROVE CurveOK'
  OBVIOUS
<1>1. CASE curve' = curve
  BY <1>1 DEF CurveOK
<1>2. ASSUME EndSession, command # "momentum" PROVE CurveOK'
  <2>1. Equity(cash, positions, closes) \in Int
    BY <1>2, EquityInt DEF Books, LedgerOK
  <2> QED BY <1>2, <2>1 DEF EndSession, CurveOK
<1>3. ASSUME Momentum!MomentumEnd, command = "momentum" PROVE CurveOK'
  <2>1. Momentum!MomentumEquity \in Int
    BY <1>3, MomentumEquityInt DEF Books, LedgerOK
  <2> QED BY <1>3, <2>1 DEF Momentum!MomentumEnd, CurveOK
<1>4. SessionStep /\ command # "momentum" => CurveOK'
  BY <1>1, <1>2 DEF SessionStep, OpenSession, ExitsDone, Exit, Keep, Pyramid, Enter, Pass
<1>5. Momentum!MomentumNext /\ command = "momentum" => CurveOK'
  BY <1>1, <1>3
     DEF Momentum!MomentumNext, Momentum!MomentumOpen, Momentum!MomentumRank, Momentum!MomentumStop,
         Momentum!MomentumExit, Momentum!MomentumKeep, Momentum!MomentumSkip, Momentum!MomentumEnter
<1>6. /\ UNCHANGED vars => curve' = curve
      /\ PitMissing => curve' = curve
      /\ \A batch, keys : Load(batch, keys) => curve' = curve
  BY DEF vars, scanVars, backtestVars, PitMissing, Load
<1> QED BY <1>1, <1>4, <1>5, <1>6 DEF BacktestsNext, Single, Portfolio, Scan, MomentumRun, ScanDay

\* The drawdown of a result, computed in one pass over its curve, is the worst
\* fall between any two points of it, however long the curve is.
THEOREM DrawdownIsTheWorstFall == BacktestsSpec => []DrawdownIsWorstFall
<1>1. BacktestsInit => CurveOK
  BY DEF BacktestsInit, ScanInit, BacktestInit, CurveOK
<1>2. CurveOK => DrawdownIsWorstFall
  BY DrawdownExact DEF CurveOK, DrawdownIsWorstFall
<1> QED BY BooksAlways, CurvePreserved, <1>1, <1>2, PTL DEF BacktestsSpec

-----------------------------------------------------------------------------
(* run_portfolio on one symbol implements run                                *)

\* SingleBacktest's copies of the operators of Turtle and BacktestFills.
LEMMA OneNumbers ==
  /\ One!Bar = Bar
  /\ \A S : One!Min(S) = Min(S) /\ One!Max(S) = Max(S)
  /\ \A f : One!SumFunction(f) = SumFunction(f)
  BY DEF One!Bar, Bar, One!Price, Price, One!Min, Min, One!Max, Max, One!SumFunction, SumFunction,
         One!SumFunctionOnSet, SumFunctionOnSet, One!FoldFunctionOnSet, FoldFunctionOnSet,
         One!MapThenFoldSet, MapThenFoldSet

LEMMA OneChannels == \A bars, period : /\ One!ChannelHigh(bars, period) = ChannelHigh(bars, period)
                                       /\ One!ChannelLow(bars, period) = ChannelLow(bars, period)
  BY OneNumbers DEF One!ChannelHigh, ChannelHigh, One!ChannelLow, ChannelLow, One!Window, Window

LEMMA OneRanges ==
  /\ \A bar, previous : One!TrueRange(bar, previous) = TrueRange(bar, previous)
  /\ \A bars, first, last : One!RangeSum(bars, first, last) = RangeSum(bars, first, last)
<1>1. \A bar, previous : One!TrueRange(bar, previous) = TrueRange(bar, previous)
  BY OneNumbers DEF One!TrueRange, TrueRange, One!Distance, Distance
<1> QED BY <1>1, OneNumbers DEF One!RangeSum, RangeSum

LEMMA OneN == \A bars : One!N(bars) = N(bars)
<1> TAKE bars
<1>1. One!TurtleN(bars) = TurtleN(bars)
  BY OneRanges DEF One!TurtleN, TurtleN
<1> QED BY <1>1, OneRanges DEF One!N, N, One!AverageN, AverageN

LEMMA OneHeld == \A p, bars, price : One!HeldSignals(p, bars, price) = HeldSignals(p, bars, price)
  BY OneChannels
     DEF One!HeldSignals, HeldSignals, One!Signal, Signal, One!ExitSide, ExitSide, One!EntrySide, EntrySide,
         One!StopHit, StopHit, One!ChannelExitHit, ChannelExitHit, One!ExitLevel, ExitLevel,
         One!ShouldPyramid, ShouldPyramid, One!PyramidTrigger, PyramidTrigger,
         One!Favorable, Favorable, One!Adverse, Adverse

LEMMA OneEntries ==
  /\ \A key, bars, price, skips : One!EntrySignals(key, bars, price, skips) = EntrySignals(key, bars, price, skips)
  /\ \A key, bars, price, skips : One!SkipUsed(key, bars, price, skips) <=> SkipUsed(key, bars, price, skips)
<1>1. \A bars, price, d, period : One!Breakout(bars, price, d, period) = Breakout(bars, price, d, period)
  BY OneChannels DEF One!Breakout, Breakout
<1> QED BY <1>1, OneN DEF One!EntrySignals, EntrySignals, One!SkipUsed, SkipUsed, One!Signal, Signal,
                          One!EntrySide, EntrySide

LEMMA OneOffers ==
  /\ \A p, bars, b : One!ExitSignals(p, bars, b) = ExitSignals(p, bars, b)
  /\ \A p, bars, b : One!PyramidSignals(p, bars, b) = PyramidSignals(p, bars, b)
  /\ \A b, d : One!UnitPrice(b, d) = UnitPrice(b, d)
  /\ \A b, g : One!FillPrice(b, g) = FillPrice(b, g)
  BY OneHeld, OneNumbers DEF One!ExitSignals, ExitSignals, One!PyramidSignals, PyramidSignals,
         One!ExitPrice, ExitPrice, One!UnitPrice, UnitPrice, One!FillPrice, FillPrice,
         One!Slipped, Slipped

LEMMA OneMoney ==
  /\ \A d, price, qty : One!EntryDelta(d, price, qty) = EntryDelta(d, price, qty)
  /\ \A d, price, qty : One!ExitDelta(d, price, qty) = ExitDelta(d, price, qty)
  /\ \A d, delta : One!CostOf(d, delta) = CostOf(d, delta)
  /\ \A d, paid, delta : One!Pnl(d, paid, delta) = Pnl(d, paid, delta)
  /\ \A equity, n : One!QtyFor(equity, n) = QtyFor(equity, n)
  /\ \A p, price : One!Signed(p, price) = Signed(p, price)
  BY DEF One!EntryDelta, EntryDelta, One!ExitDelta, ExitDelta, One!BuyDelta, BuyDelta,
         One!SellDelta, SellDelta, One!Fee, Fee, One!CostOf, CostOf, One!Pnl, Pnl, One!QtyFor, QtyFor,
         One!Signed, Signed

LEMMA OnePositions ==
  /\ \A key, system, pnl, skips : One!SkipAfter(key, system, pnl, skips) = SkipAfter(key, system, pnl, skips)
  /\ \A g, d, fill, n, qty : One!Opened(g, d, fill, n, qty) = Opened(g, d, fill, n, qty)
  /\ \A p, fill, qty : One!WithUnit(p, fill, qty) = WithUnit(p, fill, qty)
  BY DEF One!SkipAfter, SkipAfter, One!Opened, Opened, One!WithUnit, WithUnit, One!StopFor, StopFor

\* What SingleBacktest reads of the state.
oStage == In(Stage, "idle")
oBar == In(IF Stage = "idle" THEN {} ELSE {tape[session][OneSymbol]}, {})
oHistory == In(histories[OneSymbol], <<>>)
oLeft == In(OneSymbol \in exited, FALSE)
oCash == In(cash, InitialEquity)
oPosition == In({positions[s] : s \in DOMAIN positions}, {})
oCost == In(At(openCosts, 0), 0)
oSkip == In(skip, {})
oTrades == In(trades, <<>>)
oCurve == In(curve, <<>>)

oVars == <<oStage, oBar, oHistory, oLeft, oCash, oPosition, oCost, oSkip, oTrades, oCurve>>

LEMMA MappedNow ==
  ASSUME command = "single"
  PROVE  /\ oStage = Stage
         /\ oBar = IF Stage = "idle" THEN {} ELSE {Batch[OneSymbol]}
         /\ oHistory = histories[OneSymbol] /\ oLeft = (OneSymbol \in exited) /\ oCash = cash
         /\ oPosition = {positions[s] : s \in DOMAIN positions}
         /\ oCost = (IF OneSymbol \in DOMAIN openCosts THEN openCosts[OneSymbol] ELSE 0)
         /\ oSkip = skip /\ oTrades = trades /\ oCurve = curve
  BY DEF oStage, oBar, oHistory, oLeft, oCash, oPosition, oCost, oSkip, oTrades, oCurve, In, At, Batch

LEMMA MappedNext ==
  ASSUME command' = "single"
  PROVE  /\ oStage' = Stage'
         /\ oBar' = IF Stage' = "idle" THEN {} ELSE {Batch'[OneSymbol]}
         /\ oHistory' = histories'[OneSymbol] /\ oLeft' = (OneSymbol \in exited') /\ oCash' = cash'
         /\ oPosition' = {positions'[s] : s \in DOMAIN positions'}
         /\ oCost' = (IF OneSymbol \in DOMAIN openCosts' THEN openCosts'[OneSymbol] ELSE 0)
         /\ oSkip' = skip' /\ oTrades' = trades' /\ oCurve' = curve'
  BY DEF oStage, oBar, oHistory, oLeft, oCash, oPosition, oCost, oSkip, oTrades, oCurve, In, At, Batch

\* The candles of the single-symbol command are those of one symbol, and the limit
\* of a direction, which run does not have, is not below that of a symbol.
SingleCandles ==
  /\ "single" \in DOMAIN Batches =>
       \A i \in 1..Sessions : \A b \in Batches["single"][i] : DOMAIN b = {OneSymbol}
  /\ \A d \in Directions : MaxTotal[d] >= MaxUnits

LEMMA OneBatch ==
  ASSUME SingleCandles, TapeOK, command = "single", session \in 1..Sessions, Len(tape) = Sessions
  PROVE  DOMAIN Batch = {OneSymbol} /\ Batch[OneSymbol] \in Bar
<1>1. tape[session] \in Batches["single"][session] /\ "single" \in DOMAIN Batches
  BY DEF TapeOK
<1> QED BY <1>1, BatchesOK DEF SingleCandles, Batch

Alone ==
  /\ IsSequence(admitted) /\ Len(admitted) = Len(tape) /\ \A i \in 1..Len(admitted) : admitted[i] = Keys
  /\ DOMAIN positions \subseteq {OneSymbol}
  /\ phase = "entries" \/ (phase = "exits" /\ todo = {}) =>
       closes[OneSymbol] = Batch[OneSymbol].close

OneInv == command = "single" => Alone

LEMMA OneStart == BacktestsInit => OneInv
<1> SUFFICES ASSUME BacktestsInit PROVE Alone
  BY DEF OneInv
<1>1. admitted = <<>> /\ tape = <<>> /\ positions = <<>> /\ phase = "input"
  BY DEF BacktestsInit, ScanInit, BacktestInit
<1>2. IsSequence(admitted) /\ DOMAIN positions = {} /\ Len(admitted) = 0 /\ Len(tape) = 0
  BY <1>1, Emptied
<1> QED BY <1>1, <1>2 DEF Alone

\* Which symbol a step is about, in a session of one symbol.
LEMMA OneVisited ==
  ASSUME SingleCandles, Books, command = "single", NEW s \in Symbols, Visit(s), phase \in {"exits", "entries"}
  PROVE  s = OneSymbol /\ todo = {OneSymbol} /\ todo' = {} /\ DOMAIN Batch = {OneSymbol} /\ Batch[OneSymbol] \in Bar
<1>1. DOMAIN Batch = {OneSymbol} /\ Batch[OneSymbol] \in Bar
  BY OneBatch DEF Books, TapeOK
<1>2. s \in todo /\ todo' = todo \ {s}
  BY DEF Visit
<1>3. todo \subseteq DOMAIN Batch
  BY DEF Books, VisitsOK, Trading
<1> QED BY <1>1, <1>2, <1>3

LEMMA AloneSession ==
  ASSUME SingleCandles, Books, command = "single", Alone, SessionStep
  PROVE  Alone'
<1>0. UNCHANGED <<tape, admitted>>
  BY DEF SessionStep, OpenSession, ExitsDone, EndSession, Exit, Keep, Pyramid, Enter, Pass, input
<1>1. CASE OpenSession
  <2>1. /\ session' = session /\ phase' = "exits" /\ todo' = DOMAIN Batch /\ positions' = positions
        /\ (phase = "input" /\ Len(tape) = Sessions /\ Sessions > 0) \/ phase = "between"
    BY <1>1 DEF OpenSession, account
  <2>2. session \in 1..Sessions /\ Len(tape) = Sessions
    BY <2>1, BacktestConstantsOK DEF Books, TapeOK
  <2>3. DOMAIN Batch = {OneSymbol}
    BY <2>2, OneBatch DEF Books
  <2> QED BY <1>0, <2>1, <2>3 DEF Alone
<1>2. CASE ExitsDone
  BY <1>0, <1>2 DEF ExitsDone, Alone, account, market, Batch
<1>3. CASE EndSession
  BY <1>0, <1>3 DEF EndSession, Alone, account
<1>4. ASSUME NEW s \in Symbols, Exit(s) \/ Keep(s) PROVE Alone'
  <2>1. /\ Visit(s) /\ UNCHANGED <<session, phase>> /\ phase = "exits"
        /\ closes' = With(closes, s, Batch[s].close)
    BY <1>4 DEF Exit, Keep
  <2>2. s = OneSymbol
    BY <2>1, OneVisited
  <2>3. closes'[OneSymbol] = Batch[OneSymbol].close /\ Batch' = Batch
    BY <1>0, <2>1, <2>2 DEF With, Batch
  <2>4. DOMAIN positions' \subseteq DOMAIN positions
    BY <1>4 DEF Exit, Keep, CloseOut, Without, Restrict, account
  <2> QED BY <1>0, <2>1, <2>3, <2>4 DEF Alone
<1>5. ASSUME NEW s \in Symbols, Pyramid(s) \/ Enter(s) \/ Pass(s) PROVE Alone'
  <2>1. Visit(s) /\ UNCHANGED <<session, phase, closes>> /\ phase = "entries"
    BY <1>5 DEF Pyramid, Enter, Pass, market
  <2>2. s = OneSymbol
    BY <2>1, OneVisited
  <2>3. Batch' = Batch
    BY <1>0, <2>1 DEF Batch
  <2>4. DOMAIN positions' \subseteq DOMAIN positions \cup {s}
    BY <1>5 DEF Pyramid, Enter, Pass, Buy, Block, With, account
  <2> QED BY <1>0, <2>1, <2>2, <2>3, <2>4 DEF Alone
<1> QED BY <1>1, <1>2, <1>3, <1>4, <1>5 DEF SessionStep

LEMMA OnePreserved == SingleCandles /\ Books /\ OneInv /\ [BacktestsNext]_vars => OneInv'
<1> SUFFICES ASSUME SingleCandles, Books, OneInv, [BacktestsNext]_vars, command' = "single" PROVE Alone'
  BY DEF OneInv
<1>1. command = "single" /\ Alone
  BY DEF BacktestsNext, Single, Portfolio, Scan, MomentumRun, vars, OneInv
<1>2. ASSUME NEW batch, Load(batch, Keys) PROVE Alone'
  <2>1. /\ phase = "input" /\ tape' = Append(tape, batch) /\ admitted' = Append(admitted, Keys)
        /\ UNCHANGED <<phase, positions>>
    BY <1>2 DEF Load, account
  <2> DEFINE n == Len(admitted)
  <2>2. /\ IsSequence(admitted') /\ n \in Nat /\ Len(admitted') = n + 1
        /\ \A i \in 1..n : admitted'[i] = admitted[i]
        /\ admitted'[n + 1] = Keys
    BY <1>1, <2>1, Appended DEF Alone
  <2>3. Len(tape') = Len(tape) + 1
    BY <2>1, Appended DEF Books, TapeOK
  <2>4. n = Len(tape) /\ \A i \in 1..n : admitted[i] = Keys
    BY <1>1 DEF Alone
  <2> HIDE DEF n
  <2>5. \A i \in 1..(n + 1) : admitted'[i] = Keys
    BY <2>2, <2>4
  <2> QED BY <1>1, <2>1, <2>2, <2>3, <2>4, <2>5 DEF Alone
<1>3. CASE UNCHANGED vars
  BY <1>1, <1>3 DEF Alone, vars, scanVars, backtestVars, input, account, market, Batch
<1>4. Single \/ UNCHANGED vars
  BY <1>1 DEF BacktestsNext, Portfolio, Scan, MomentumRun
<1> QED BY <1>1, <1>2, <1>3, <1>4, AloneSession DEF Single

LEMMA SumOne ==
  ASSUME NEW f, NEW x, DOMAIN f = {x}, f[x] \in Int
  PROVE  SumFunction(f) = f[x]
<1> DEFINE e == [y \in {} |-> 0]
<1>1. SumFunction(e) = 0 /\ DOMAIN e = {}
  BY SumNone
<1> HIDE DEF e
<1>2. /\ x \notin DOMAIN e /\ DOMAIN f = DOMAIN e \cup {x} /\ IsFiniteSet(DOMAIN e)
      /\ (\A y \in DOMAIN e : f[y] = e[y]) /\ \A y \in DOMAIN f : f[y] \in Int
  BY <1>1, FS_EmptySet
<1>3. SumFunction(f) = f[x] + SumFunction(e)
  BY <1>2, SumWith
<1> QED BY <1>1, <1>3

LEMMA OneEquity ==
  ASSUME Books, command = "single", Alone, phase = "entries"
  PROVE  One!EquityAt(Batch[OneSymbol].close) = Equity(cash, positions, closes)
<1> DEFINE mark == Batch[OneSymbol].close
           f == [s \in DOMAIN positions |-> Signed(positions[s], closes[s])]
           g == [p \in oPosition |-> Signed(p, mark)]
<1>1. Equity(cash, positions, closes) = cash + SumFunction(f)
  BY DEF Equity, PositionValue
<1>2. One!EquityAt(mark) = oCash + SumFunction(g)
  BY OneNumbers, OneMoney DEF One!EquityAt, oCash, oPosition
<1>3. oCash = cash /\ oPosition = {positions[s] : s \in DOMAIN positions}
  BY MappedNow
<1>4. closes[OneSymbol] = mark
  BY DEF Alone
<1>5. CASE DOMAIN positions = {}
  <2>1. DOMAIN f = {} /\ DOMAIN g = {}
    BY <1>3, <1>5
  <2> HIDE DEF f, g
  <2>2. SumFunction(f) = 0 /\ SumFunction(g) = 0
    BY <2>1, SumNone
  <2> QED BY <1>1, <1>2, <1>3, <2>2
<1>6. CASE DOMAIN positions = {OneSymbol}
  <2> DEFINE p == positions[OneSymbol]
             worth == Signed(p, mark)
  <2>1. p \in Position /\ closes[OneSymbol] \in Price
    BY <1>6 DEF Books, HoldingsOK, MarksOK
  <2>2. worth \in Int
    <3>1. p.qty * mark \in Int
      BY <1>4, <2>1, ProductInt DEF Position, Price
    <3> QED BY <3>1 DEF Signed
  <2>3. DOMAIN f = {OneSymbol} /\ f[OneSymbol] = worth
    BY <1>4, <1>6
  <2>4. DOMAIN g = {p} /\ g[p] = worth
    BY <1>3, <1>6
  <2> HIDE DEF f, g, worth, p
  <2>5. SumFunction(f) = worth /\ SumFunction(g) = worth
    BY <2>2, <2>3, <2>4, SumOne
  <2> QED BY <1>1, <1>2, <1>3, <2>5
<1> QED BY <1>5, <1>6 DEF Alone

\* The limit of a direction is never reached by the units of one symbol.
LEMMA Uncapped ==
  ASSUME SingleCandles, Books, command = "single", Alone, NEW d \in Directions,
         \A s \in DOMAIN positions : positions[s].units < MaxUnits
  PROVE  ~CapReached(d)
<1> DEFINE f == [s \in {t \in DOMAIN positions : positions[t].direction = d} |-> positions[s].units]
<1>1. TotalUnits(positions, d) = SumFunction(f)
  BY DEF TotalUnits
<1>2. DOMAIN f = {t \in DOMAIN positions : positions[t].direction = d}
  OBVIOUS
<1>3. \A s \in DOMAIN f : f[s] \in Nat /\ f[s] < MaxUnits
  BY DEF Books, HoldingsOK, Position
<1> HIDE DEF f
<1>4. SumFunction(f) < MaxUnits
  <2>1. CASE DOMAIN f = {}
    BY <2>1, SumNone, TurtleConstantsOK
  <2>2. CASE DOMAIN f = {OneSymbol}
    <3>1. f[OneSymbol] \in Int /\ f[OneSymbol] < MaxUnits
      BY <1>3, <2>2
    <3> QED BY <2>2, <3>1, SumOne
  <2> QED BY <1>2, <2>1, <2>2 DEF Alone
<1>5. MaxTotal[d] >= MaxUnits /\ MaxTotal[d] \in Nat /\ MaxUnits \in Nat
  BY BacktestConstantsOK, TurtleConstantsOK DEF SingleCandles
<1>6. SumFunction(f) \in Int
  <2>1. IsFiniteSet(DOMAIN f) /\ \A s \in DOMAIN f : f[s] \in Int
    BY <1>2, <1>3, FS_Subset DEF Books, HoldingsOK
  <2> QED BY <2>1, SumInt
<1> QED BY <1>1, <1>4, <1>5, <1>6 DEF CapReached

OneCommand == command = "single" /\ command' = "single"

LEMMA OneSame ==
  ASSUME OneCommand
  PROVE  /\ histories' = histories => oHistory' = oHistory
         /\ exited' = exited => oLeft' = oLeft
         /\ cash' = cash => oCash' = oCash
         /\ positions' = positions => oPosition' = oPosition
         /\ openCosts' = openCosts => oCost' = oCost
         /\ skip' = skip => oSkip' = oSkip
         /\ trades' = trades => oTrades' = oTrades
         /\ curve' = curve => oCurve' = oCurve
<1>1. histories' = histories => oHistory' = oHistory
  BY DEF oHistory, In, OneCommand
<1>2. exited' = exited => oLeft' = oLeft
  BY DEF oLeft, In, OneCommand
<1>3. cash' = cash => oCash' = oCash
  BY DEF oCash, In, OneCommand
<1>4. positions' = positions => oPosition' = oPosition
  BY DEF oPosition, In, OneCommand
<1>5. openCosts' = openCosts => oCost' = oCost
  BY DEF oCost, In, At, OneCommand
<1>6. skip' = skip => oSkip' = oSkip
  BY DEF oSkip, In, OneCommand
<1>7. trades' = trades => oTrades' = oTrades
  BY DEF oTrades, In, OneCommand
<1>8. curve' = curve => oCurve' = oCurve
  BY DEF oCurve, In, OneCommand
<1> QED BY <1>1, <1>2, <1>3, <1>4, <1>5, <1>6, <1>7, <1>8

LEMMA OneCount == \A x : One!Cardinality({x}) = 1
<1>1. \A S : One!Cardinality(S) = Cardinality(S)
  BY DEF One!Cardinality, Cardinality
<1> QED BY <1>1, FS_Singleton

LEMMA OneOpens ==
  ASSUME SingleCandles, Books, OneCommand, OpenSession
  PROVE  One!NextBar
<1>1. /\ UNCHANGED <<tape, session, exited, market, account, skip, curve>>
      /\ phase' = "exits" /\ todo' = DOMAIN Batch
      /\ (phase = "input" /\ Len(tape) = Sessions /\ Sessions > 0) \/ phase = "between"
  BY DEF OpenSession, input
<1>2. DOMAIN Batch = {OneSymbol} /\ Batch[OneSymbol] \in Bar
  <2>1. session \in 1..Sessions /\ Len(tape) = Sessions
    BY <1>1, BacktestConstantsOK DEF Books, TapeOK
  <2> QED BY <2>1, OneBatch DEF Books, OneCommand
<1>3. Stage = "idle" /\ Stage' = "exit"
  BY <1>1, <1>2 DEF Stage
<1>4. oStage = "idle" /\ oStage' = "exit" /\ oBar' = {Batch[OneSymbol]}
  BY <1>1, <1>3, MappedNow, MappedNext DEF OneCommand, Batch
<1>5. UNCHANGED <<oHistory, oLeft, oCash, oPosition, oCost, oSkip, oTrades, oCurve>>
  BY <1>1, OneSame DEF market, account
<1>6. oBar' \in SUBSET One!Bar /\ One!Cardinality(oBar') = 1
  BY <1>2, <1>4, OneNumbers, OneCount
<1> QED BY <1>4, <1>5, <1>6
        DEF One!NextBar, oStage, oBar, oHistory, oLeft, oCash, oPosition, oCost, oSkip, oTrades, oCurve

\* The bar of a session while its only symbol is visited.
LEMMA OneBar ==
  ASSUME SingleCandles, Books, OneCommand, Visit(OneSymbol), phase \in {"exits", "entries"},
         UNCHANGED <<tape, session, phase>>
  PROVE  /\ oStage = (IF phase = "exits" THEN "exit" ELSE "trade")
         /\ oStage' = (IF phase = "exits" THEN "trade" ELSE "mark")
         /\ oBar = {Batch[OneSymbol]} /\ oBar' = oBar /\ oHistory = histories[OneSymbol]
<1>1. todo = {OneSymbol} /\ todo' = {}
  BY OneVisited, BatchesOK DEF OneCommand
<1>2. /\ Stage = (IF phase = "exits" THEN "exit" ELSE "trade")
      /\ Stage' = (IF phase = "exits" THEN "trade" ELSE "mark")
  BY <1>1 DEF Stage
<1> QED BY <1>2, MappedNow, MappedNext DEF OneCommand, Batch

LEMMA OneHolding ==
  ASSUME OneCommand, Alone, Books, OneSymbol \in DOMAIN positions
  PROVE  oPosition = {positions[OneSymbol]} /\ oCost = openCosts[OneSymbol]
<1>1. DOMAIN positions = {OneSymbol} /\ DOMAIN openCosts = DOMAIN positions
  BY DEF Alone, Books, HoldingsOK, OneCommand
<1> QED BY <1>1, MappedNow DEF OneCommand

LEMMA OneFree ==
  ASSUME OneCommand, Alone, Books, OneSymbol \notin DOMAIN positions
  PROVE  oPosition = {} /\ oCost = 0
<1>1. DOMAIN positions = {} /\ DOMAIN openCosts = DOMAIN positions
  BY DEF Alone, Books, HoldingsOK, OneCommand
<1> QED BY <1>1, MappedNow DEF OneCommand

LEMMA OneCloses ==
  ASSUME SingleCandles, Books, OneCommand, Alone, Exit(OneSymbol)
  PROVE  One!SingleExit
<1> DEFINE b == Batch[OneSymbol]
           p == positions[OneSymbol]
<1>1. /\ Visit(OneSymbol) /\ phase = "exits" /\ OneSymbol \in DOMAIN positions
      /\ UNCHANGED <<tape, session, phase, histories, curve>>
  BY DEF Exit, input
<1>2. /\ oStage = "exit" /\ oStage' = "trade" /\ oBar = {b} /\ oBar' = oBar
      /\ oHistory = histories[OneSymbol]
  BY <1>1, OneBar
<1>3. oPosition = {p} /\ oCost = openCosts[OneSymbol]
  BY <1>1, OneHolding
<1>4. PICK signal \in ExitSignals(p, histories[OneSymbol], b) : CloseOut(OneSymbol, signal)
  BY DEF Exit, ExitsOf
<1> DEFINE delta == ExitDelta(p.direction, FillPrice(b, signal), p.qty)
           pnl == Pnl(p.direction, openCosts[OneSymbol], delta)
           trade == [key |-> <<OneSymbol, p.direction>>, system |-> p.system, pnl |-> pnl]
<1>5. /\ cash' = cash + delta /\ trades' = Append(trades, trade)
      /\ skip' = SkipAfter(<<OneSymbol, p.direction>>, p.system, pnl, skip)
      /\ positions' = Without(positions, OneSymbol) /\ openCosts' = Without(openCosts, OneSymbol)
      /\ exited' = exited \cup {OneSymbol}
  BY <1>4 DEF CloseOut
<1>6. /\ oCash' = oCash + delta /\ oTrades' = Append(oTrades, trade)
      /\ oSkip' = SkipAfter(<<OneSymbol, p.direction>>, p.system, pnl, oSkip)
  BY <1>5, MappedNow, MappedNext DEF OneCommand
<1>7. oPosition' = {} /\ oCost' = 0 /\ oLeft' = TRUE
  <2>1. DOMAIN positions' = {} /\ OneSymbol \notin DOMAIN openCosts'
    BY <1>5 DEF Without, Restrict, Alone
  <2> QED BY <1>5, <2>1, MappedNext DEF OneCommand
<1>8. UNCHANGED <<oHistory, oCurve>>
  BY <1>1, OneSame
<1>9. /\ signal \in One!ExitSignals(p, oHistory, b)
      /\ delta = One!ExitDelta(p.direction, One!FillPrice(b, signal), p.qty)
      /\ pnl = One!Pnl(p.direction, oCost, delta)
      /\ oSkip' = One!SkipAfter(<<OneSymbol, p.direction>>, p.system, pnl, oSkip)
  BY <1>2, <1>3, <1>4, <1>6, OneOffers, OneMoney, OnePositions
<1> HIDE DEF b, p, delta, pnl
<1> QED BY <1>2, <1>3, <1>6, <1>7, <1>8, <1>9
        DEF One!SingleExit, oStage, oBar, oHistory, oLeft, oCash, oPosition, oCost, oSkip, oTrades, oCurve

LEMMA OneKeeps ==
  ASSUME SingleCandles, Books, OneCommand, Alone, Keep(OneSymbol)
  PROVE  One!SingleHold
<1>1. /\ Visit(OneSymbol) /\ phase = "exits"
      /\ UNCHANGED <<tape, session, phase, histories, exited, account, skip, curve>>
  BY DEF Keep, input
<1>2. /\ oStage = "exit" /\ oStage' = "trade" /\ oBar = {Batch[OneSymbol]} /\ oBar' = oBar
      /\ oHistory = histories[OneSymbol]
  BY <1>1, OneBar
<1>3. UNCHANGED <<oHistory, oLeft, oCash, oPosition, oCost, oSkip, oTrades, oCurve>>
  BY <1>1, OneSame DEF account
<1>4. \A b \in oBar, p \in oPosition : One!ExitSignals(p, oHistory, b) = {}
  <2>1. CASE OneSymbol \in DOMAIN positions
    BY <1>2, <2>1, OneHolding, OneOffers DEF Keep, ExitsOf
  <2>2. CASE OneSymbol \notin DOMAIN positions
    BY <2>2, OneFree
  <2> QED BY <2>1, <2>2
<1> QED BY <1>2, <1>3, <1>4
        DEF One!SingleHold, oStage, oBar, oHistory, oLeft, oCash, oPosition, oCost, oSkip, oTrades, oCurve

\* At most one signal is given at a time, of a held position as of an entry.
LEMMA OneUnitSignal ==
  \A p, bars, b : \A g, h \in PyramidSignals(p, bars, b) : g = h
  BY DEF PyramidSignals, HeldSignals, Signal

LEMMA OneEntrySignal ==
  \A key, bars, price, skips : \A g, h \in EntrySignals(key, bars, price, skips) : g = h
<1>1. \A bars, period : /\ \A x, y \in ChannelHigh(bars, period) : x = y
                        /\ \A x, y \in ChannelLow(bars, period) : x = y
  BY DEF ChannelHigh, ChannelLow
<1>2. \A bars, price, d, period : \A x, y \in Breakout(bars, price, d, period) : x = y
  BY <1>1 DEF Breakout
<1> QED BY <1>2 DEF EntrySignals, Signal

LEMMA SingleN == \A bars : \A n, m \in N(bars) : n = m
  BY DEF N

\* The second pass over the only symbol of a session, as run sees it.
SecondVisit == /\ phase = "entries" /\ Visit(OneSymbol)
               /\ UNCHANGED <<tape, session, phase, histories, exited, curve>>

LEMMA OneSecond ==
  ASSUME SingleCandles, Books, OneCommand, SecondVisit
  PROVE  /\ oStage = "trade" /\ oStage' = "mark"
         /\ oBar = {Batch[OneSymbol]} /\ oBar' = oBar /\ oHistory = histories[OneSymbol]
         /\ oLeft = (OneSymbol \in exited) /\ oSkip = skip
         /\ UNCHANGED <<oHistory, oLeft, oCurve>>
<1>1. /\ oStage = "trade" /\ oStage' = "mark"
      /\ oBar = {Batch[OneSymbol]} /\ oBar' = oBar /\ oHistory = histories[OneSymbol]
  BY OneBar DEF SecondVisit
<1>2. UNCHANGED <<oHistory, oLeft, oCurve>>
  BY OneSame DEF SecondVisit
<1> QED BY <1>1, <1>2, MappedNow DEF OneCommand

LEMMA OneTrials ==
  ASSUME SingleCandles, Books, OneCommand, Alone, SecondVisit
  PROVE  /\ One!First = Taken(OneSymbol) /\ One!Spent = Used(OneSymbol)
         /\ Taken(OneSymbol) \subseteq 1..Len(Allowed)
         /\ \A d : One!Signals(d) = EntryIn(OneSymbol, d)
<1> DEFINE b == Batch[OneSymbol]
           bars == histories[OneSymbol]
<1>1. oBar = {b} /\ oHistory = bars /\ oSkip = skip
  BY OneSecond
<1>2. \A d : One!Signals(d) = EntryIn(OneSymbol, d)
  <2> TAKE d
  <2>1. One!Signals(d) = UNION {EntrySignals(<<OneSymbol, d>>, oHistory, UnitPrice(c, d), oSkip) : c \in oBar}
    BY OneEntries, OneOffers DEF One!Signals, oBar, oHistory, oSkip
  <2> QED BY <1>1, <2>1 DEF EntryIn
<1>3. Tried(OneSymbol) = 1..Len(Allowed)
  <2>1. admitted[session] = Keys
    BY DEF Alone, Books, TapeOK, SecondVisit
  <2> QED BY <2>1, BatchesOK, BacktestConstantsOK DEF Tried, Keys
<1>4. One!First = Taken(OneSymbol)
  <2> HIDE DEF b, bars
  <2>1. One!First = {i \in 1..Len(Allowed) : /\ EntryIn(OneSymbol, Allowed[i]) # {}
                                             /\ \A j \in 1..(i - 1) : EntryIn(OneSymbol, Allowed[j]) = {}}
    BY <1>2 DEF One!First
  <2>2. \A i \in 1..Len(Allowed) :
          (\A j \in 1..(i - 1) : EntryIn(OneSymbol, Allowed[j]) = {})
            <=> (\A j \in 1..Len(Allowed) : j < i => EntryIn(OneSymbol, Allowed[j]) = {})
    <3>1. Len(Allowed) \in Nat
      BY BacktestConstantsOK
    <3>2. \A i \in 1..Len(Allowed) : 1..(i - 1) = {j \in 1..Len(Allowed) : j < i}
      BY <3>1
    <3> QED BY <3>2
  <2> QED BY <1>3, <2>1, <2>2 DEF Taken
<1>5. One!Spent = Used(OneSymbol)
  <2> DEFINE Spends(j) == /\ \A t \in Taken(OneSymbol) : j < t
                          /\ SkipUsed(<<OneSymbol, Allowed[j]>>, bars, UnitPrice(b, Allowed[j]), skip)
  <2>1. One!Spent = {<<OneSymbol, Allowed[i]>> : i \in {j \in 1..Len(Allowed) : Spends(j)}}
    <3>1. \A j : (\E c \in oBar : One!SkipUsed(<<OneSymbol, Allowed[j]>>, oHistory,
                                               One!UnitPrice(c, Allowed[j]), oSkip))
                  <=> SkipUsed(<<OneSymbol, Allowed[j]>>, bars, UnitPrice(b, Allowed[j]), skip)
      BY <1>1, OneEntries, OneOffers
    <3> HIDE DEF b, bars
    <3> QED BY <1>4, <3>1 DEF One!Spent, oBar, oHistory, oSkip
  <2>2. Used(OneSymbol) = {<<OneSymbol, Allowed[i]>> : i \in {j \in Tried(OneSymbol) : Spends(j)}}
    BY DEF Used
  <2> HIDE DEF Spends
  <2> QED BY <1>3, <2>1, <2>2
<1> QED BY <1>2, <1>3, <1>4, <1>5 DEF Taken

\* A unit that is not refused for the limit of its direction is filled or blocked
\* by both loops.
LEMMA OneBuys ==
  ASSUME SingleCandles, Books, OneCommand, Alone, SecondVisit,
         NEW d \in Directions, NEW signal, NEW qty \in Int, NEW q, ~CapReached(d),
         FillPrice(Batch[OneSymbol], signal) \in Int, Buy(OneSymbol, d, signal, qty, q)
  PROVE  LET delta == EntryDelta(d, FillPrice(Batch[OneSymbol], signal), qty)
         IN \/ /\ qty > 0 /\ oCash + delta >= 0 /\ oCash' = oCash + delta
               /\ oPosition' = {q} /\ oCost' = oCost + CostOf(d, delta) /\ oTrades' = oTrades
            \/ /\ qty <= 0 \/ ~(oCash + delta >= 0)
               /\ UNCHANGED <<oCash, oPosition, oCost, oTrades>>
<1> DEFINE delta == EntryDelta(d, FillPrice(Batch[OneSymbol], signal), qty)
           before == IF OneSymbol \in DOMAIN openCosts THEN openCosts[OneSymbol] ELSE 0
<1>1. delta \in Int /\ cash \in Int
  BY DeltasInt DEF Books, LedgerOK
<1>2. oCash = cash /\ oCost = before
  BY MappedNow DEF OneCommand
<1>3. \/ (qty <= 0 \/ cash + delta < 0) /\ UNCHANGED <<cash, positions, openCosts, trades>>
      \/ /\ qty > 0 /\ cash + delta >= 0 /\ cash' = cash + delta
         /\ positions' = With(positions, OneSymbol, q)
         /\ openCosts' = With(openCosts, OneSymbol, before + CostOf(d, delta)) /\ UNCHANGED trades
  <2> HIDE DEF delta, before
  <2>1. \/ UNCHANGED account /\ (qty <= 0 \/ cash + delta < 0)
        \/ /\ ~(qty > 0 /\ cash + delta < 0) /\ ~(qty <= 0)
           /\ cash' = cash + delta
           /\ positions' = With(positions, OneSymbol, q)
           /\ openCosts' = With(openCosts, OneSymbol, before + CostOf(d, delta)) /\ UNCHANGED trades
    BY DEF Buy, Block, delta, before
  <2> QED BY <1>1, <2>1 DEF account
<1>4. CASE (qty <= 0 \/ cash + delta < 0) /\ UNCHANGED <<cash, positions, openCosts, trades>>
  <2>1. UNCHANGED <<oCash, oPosition, oCost, oTrades>>
    BY <1>4, OneSame
  <2> HIDE DEF delta
  <2>2. qty <= 0 \/ ~(oCash + delta >= 0)
    BY <1>1, <1>2, <1>4
  <2> QED BY <2>1, <2>2 DEF delta
<1>5. CASE /\ qty > 0 /\ cash + delta >= 0 /\ cash' = cash + delta
           /\ positions' = With(positions, OneSymbol, q)
           /\ openCosts' = With(openCosts, OneSymbol, before + CostOf(d, delta)) /\ UNCHANGED trades
  <2> HIDE DEF delta, before
  <2>1. oCash' = oCash + delta /\ oTrades' = oTrades
    BY <1>2, <1>5, MappedNext, OneSame DEF OneCommand
  <2>2. DOMAIN positions' = {OneSymbol} /\ positions'[OneSymbol] = q
    BY <1>5 DEF With, Alone
  <2>3. OneSymbol \in DOMAIN openCosts' /\ openCosts'[OneSymbol] = before + CostOf(d, delta)
    BY <1>5 DEF With
  <2>4. oPosition' = {q} /\ oCost' = oCost + CostOf(d, delta)
    BY <1>2, <2>2, <2>3, MappedNext DEF OneCommand
  <2> QED BY <1>2, <1>5, <2>1, <2>4 DEF delta
<1> QED BY <1>3, <1>4, <1>5

LEMMA OnePyramids ==
  ASSUME SingleCandles, Books, AuditInv, OneCommand, Alone, Pyramid(OneSymbol), UNCHANGED pit
  PROVE  One!SingleAdd \/ One!SingleIdle
<1> DEFINE b == Batch[OneSymbol]
           p == positions[OneSymbol]
           bars == histories[OneSymbol]
           equity == Equity(cash, positions, closes)
           qty == QtyFor(equity, p.entryN)
<1>1. /\ phase = "entries" /\ Visit(OneSymbol) /\ OneSymbol \in DOMAIN positions
      /\ SecondVisit /\ UNCHANGED skip /\ command # "momentum" /\ OneSymbol \in Symbols
  BY BatchesOK DEF Pyramid, input, market, SecondVisit, OneCommand
<1>2. /\ oStage = "trade" /\ oStage' = "mark" /\ oBar = {b} /\ oBar' = oBar /\ oHistory = bars
      /\ UNCHANGED <<oHistory, oLeft, oCurve, oSkip>>
  BY <1>1, OneSecond, OneSame
<1>3. oPosition = {p} /\ ~oLeft
  <2>1. OneSymbol \notin exited
    BY <1>1 DEF AuditInv, Trading
  <2>2. oLeft = (OneSymbol \in exited)
    BY <1>1, OneSecond
  <2>3. oPosition = {p}
    BY <1>1, OneHolding
  <2> QED BY <2>1, <2>2, <2>3
<1>4. PICK signal \in PyramidSignals(p, bars, b) :
        Buy(OneSymbol, p.direction, signal, qty, WithUnit(p, FillPrice(b, signal), qty))
  BY DEF Pyramid, UnitsOf
<1>5. DOMAIN Batch = {OneSymbol} /\ b \in Bar
  BY <1>1, OneVisited DEF OneCommand
<1>6. p \in Position /\ p.direction \in Directions /\ p.entryN \in Nat
  BY <1>1 DEF Books, HoldingsOK, Position
<1> DEFINE price == FillPrice(b, signal)
           delta == EntryDelta(p.direction, price, qty)
           q == WithUnit(p, price, qty)
<1>7. price \in Int
  BY <1>1, <1>4, <1>5, UnitFills DEF Books, UnitsOf
<1>8. qty \in Int
  <2>1. equity \in Int
    BY <1>1, EquityInt DEF Books, LedgerOK
  <2> HIDE DEF p, equity
  <2> QED BY <1>6, <2>1, QtyInt
<1>9. ~CapReached(p.direction)
  <2>1. p.units < MaxUnits
    <3>1. ShouldPyramid(p, UnitPrice(b, p.direction))
      <4> HIDE DEF p, b, bars
      <4> QED BY <1>4 DEF PyramidSignals, HeldSignals, Signal
    <3>2. p.units \in 1..(MaxUnits - 1) /\ MaxUnits \in Nat
      BY <3>1, TurtleConstantsOK DEF ShouldPyramid
    <3> QED BY <3>2
  <2>2. \A s \in DOMAIN positions : positions[s].units < MaxUnits
    BY <2>1 DEF Alone
  <2> QED BY <1>6, <2>2, Uncapped DEF OneCommand
<1>10. One!EquityAt(b.close) = equity
  BY <1>1, OneEquity DEF OneCommand
<1>11. /\ One!PyramidSignals(p, oHistory, b) = PyramidSignals(p, bars, b)
       /\ One!QtyFor(One!EquityAt(b.close), p.entryN) = qty
       /\ \A g : One!FillPrice(b, g) = FillPrice(b, g)
       /\ \A x : One!EntryDelta(p.direction, x, qty) = EntryDelta(p.direction, x, qty)
       /\ One!WithUnit(p, price, qty) = q /\ One!CostOf(p.direction, delta) = CostOf(p.direction, delta)
  BY <1>2, <1>10, OneOffers, OneMoney, OnePositions
<1>12. \/ /\ qty > 0 /\ oCash + delta >= 0 /\ oCash' = oCash + delta
          /\ oPosition' = {q} /\ oCost' = oCost + CostOf(p.direction, delta) /\ oTrades' = oTrades
       \/ /\ qty <= 0 \/ ~(oCash + delta >= 0)
          /\ UNCHANGED <<oCash, oPosition, oCost, oTrades>>
  <2> HIDE DEF p, qty, q
  <2> QED BY <1>1, <1>4, <1>6, <1>7, <1>8, <1>9, OneBuys DEF q
<1>13. \A g \in PyramidSignals(p, bars, b) : g = signal
  BY <1>4, OneUnitSignal
<1>14. CASE /\ qty > 0 /\ oCash + delta >= 0 /\ oCash' = oCash + delta
            /\ oPosition' = {q} /\ oCost' = oCost + CostOf(p.direction, delta) /\ oTrades' = oTrades
  <2>1. One!Fill(q, p.direction, delta)
    <3> HIDE DEF p, delta, q
    <3> QED BY <1>11, <1>14 DEF One!Fill, oCash, oPosition, oCost
  <2>2. \E c \in oBar, r \in oPosition : \E g \in One!PyramidSignals(r, oHistory, c) :
          LET size == One!QtyFor(One!EquityAt(c.close), r.entryN)
              x == One!FillPrice(c, g)
          IN size > 0 /\ One!Fill(One!WithUnit(r, x, size), r.direction, One!EntryDelta(r.direction, x, size))
    <3>1. /\ signal \in One!PyramidSignals(p, oHistory, b)
          /\ One!QtyFor(One!EquityAt(b.close), p.entryN) = qty /\ qty > 0
          /\ One!FillPrice(b, signal) = price /\ One!WithUnit(p, price, qty) = q
          /\ One!EntryDelta(p.direction, price, qty) = delta
      BY <1>4, <1>11, <1>14
    <3>2. b \in oBar /\ p \in oPosition
      BY <1>2, <1>3
    <3> HIDE DEF b, p, qty, price, delta, q
    <3> QED BY <2>1, <3>1, <3>2
  <2> QED BY <1>2, <1>3, <1>14, <2>2
          DEF One!SingleAdd, oStage, oBar, oHistory, oLeft, oPosition, oSkip, oTrades, oCurve
<1>15. CASE /\ qty <= 0 \/ ~(oCash + delta >= 0)
            /\ UNCHANGED <<oCash, oPosition, oCost, oTrades>>
  <2>1. ~One!Affordable(p.direction, p.entryN, signal)
    <3>1. One!Affordable(p.direction, p.entryN, signal) <=> qty > 0 /\ oCash + delta >= 0
      <4> HIDE DEF p, qty, b, bars, equity
      <4> QED BY <1>2, <1>11 DEF One!Affordable, oBar, oCash
    <3> HIDE DEF qty, delta
    <3> QED BY <1>8, <1>15, <3>1
  <2>2. \A c \in oBar, r \in oPosition : \A g \in One!PyramidSignals(r, oHistory, c) :
          ~One!Affordable(r.direction, r.entryN, g)
    <3> HIDE DEF p, b, bars
    <3> QED BY <1>2, <1>3, <1>11, <1>13, <2>1
  <2> HIDE DEF p, qty, b, bars, equity
  <2> QED BY <1>2, <1>3, <1>15, <2>2
          DEF One!SingleIdle, oStage, oBar, oHistory, oLeft, oCash, oPosition, oCost, oSkip, oTrades, oCurve
<1> QED BY <1>12, <1>14, <1>15

LEMMA OneTaken ==
  \A i, j \in Taken(OneSymbol) : i = j
<1> SUFFICES ASSUME NEW i \in Taken(OneSymbol), NEW j \in Taken(OneSymbol) PROVE i = j
  OBVIOUS
<1>1. /\ i \in Tried(OneSymbol) /\ j \in Tried(OneSymbol) /\ ~(i < j) /\ ~(j < i)
  BY DEF Taken
<1>2. i \in Int /\ j \in Int
  BY <1>1 DEF Tried
<1> QED BY <1>1, <1>2

LEMMA OneEnters ==
  ASSUME SingleCandles, Books, OneCommand, Alone, Enter(OneSymbol), UNCHANGED pit
  PROVE  One!SingleEnter \/ One!SingleIdle
<1> DEFINE b == Batch[OneSymbol]
           bars == histories[OneSymbol]
           equity == Equity(cash, positions, closes)
           size(n) == QtyFor(equity, n)
           fill(g) == FillPrice(b, g)
<1>1. /\ phase = "entries" /\ Visit(OneSymbol) /\ OneSymbol \notin DOMAIN positions
      /\ OneSymbol \notin exited /\ SecondVisit /\ skip' = skip \ Used(OneSymbol)
      /\ command # "momentum" /\ OneSymbol \in Symbols
  BY BatchesOK DEF Enter, input, market, SecondVisit, OneCommand
<1>2. /\ oStage = "trade" /\ oStage' = "mark" /\ oBar = {b} /\ oBar' = oBar /\ oHistory = bars
      /\ UNCHANGED <<oHistory, oLeft, oCurve>>
  BY <1>1, OneSecond
<1>3. ~oLeft
  <2>1. oLeft = (OneSymbol \in exited)
    BY <1>1, OneSecond
  <2> QED BY <1>1, <2>1
<1>4. oPosition = {} /\ oCost = 0
  BY <1>1, OneFree
<1>5. oSkip' = oSkip \ One!Spent
  <2>1. One!Spent = Used(OneSymbol)
    BY <1>1, OneTrials
  <2> QED BY <1>1, <2>1, MappedNow, MappedNext DEF OneCommand
<1>6. PICK i \in Taken(OneSymbol) : \E signal \in EntryIn(OneSymbol, Allowed[i]) : \E n \in N(bars) :
        Buy(OneSymbol, Allowed[i], signal, size(n), Opened(signal, Allowed[i], fill(signal), n, size(n)))
  BY DEF Enter
<1> DEFINE d == Allowed[i]
<1>7. d \in Directions
  BY BacktestConstantsOK DEF Taken, Tried
<1>8. PICK signal \in EntryIn(OneSymbol, d) : \E n \in N(bars) :
        Buy(OneSymbol, d, signal, size(n), Opened(signal, d, fill(signal), n, size(n)))
  BY <1>6
<1>9. PICK n \in N(bars) :
        Buy(OneSymbol, d, signal, size(n), Opened(signal, d, fill(signal), n, size(n)))
  BY <1>8
<1> DEFINE qty == size(n)
           price == fill(signal)
           delta == EntryDelta(d, price, qty)
           q == Opened(signal, d, price, n, qty)
<1>10. n \in Nat
  BY <1>1, NNat DEF Books, MarksOK
<1>11. DOMAIN Batch = {OneSymbol} /\ b \in Bar
  BY <1>1, OneVisited DEF OneCommand
<1>12. price \in Int
  <2> HIDE DEF d
  <2> QED BY <1>1, <1>7, <1>11, EntryFills DEF Books
<1>13. qty \in Int
  <2>1. equity \in Int
    BY <1>1, EquityInt DEF Books, LedgerOK
  <2> HIDE DEF equity
  <2> QED BY <1>10, <2>1, QtyInt
<1>14. ~CapReached(d)
  <2>1. DOMAIN positions = {}
    BY <1>1 DEF Alone
  <2> HIDE DEF d
  <2> QED BY <1>7, <2>1, Uncapped DEF OneCommand
<1>15. One!EquityAt(b.close) = equity
  BY <1>1, OneEquity DEF OneCommand
<1>16. /\ One!QtyFor(One!EquityAt(b.close), n) = qty /\ One!FillPrice(b, signal) = price
       /\ One!EntryDelta(d, price, qty) = delta
       /\ One!Opened(signal, d, price, n, qty) = q /\ One!CostOf(d, delta) = CostOf(d, delta)
       /\ One!N(oHistory) = N(bars)
  BY <1>2, <1>15, OneOffers, OneMoney, OnePositions, OneN
<1>17. One!First = Taken(OneSymbol) /\ One!Signals(d) = EntryIn(OneSymbol, d)
  BY <1>1, OneTrials
<1>18. \/ /\ qty > 0 /\ oCash + delta >= 0 /\ oCash' = oCash + delta
          /\ oPosition' = {q} /\ oCost' = oCost + CostOf(d, delta) /\ oTrades' = oTrades
       \/ /\ qty <= 0 \/ ~(oCash + delta >= 0)
          /\ UNCHANGED <<oCash, oPosition, oCost, oTrades>>
  <2>1. Buy(OneSymbol, d, signal, qty, q)
    BY <1>9
  <2> HIDE DEF d, qty, q
  <2> QED BY <1>1, <1>7, <1>12, <1>13, <1>14, <2>1, OneBuys
<1>19. CASE /\ qty > 0 /\ oCash + delta >= 0 /\ oCash' = oCash + delta
            /\ oPosition' = {q} /\ oCost' = oCost + CostOf(d, delta) /\ oTrades' = oTrades
  <2>1. One!Fill(q, d, delta)
    <3> HIDE DEF d, delta, q
    <3> QED BY <1>16, <1>19 DEF One!Fill, oCash, oPosition, oCost
  <2>2. \E k \in One!First : \E c \in oBar, g \in One!Signals(Allowed[k]), m \in One!N(oHistory) :
          LET s == One!QtyFor(One!EquityAt(c.close), m)
              x == One!FillPrice(c, g)
          IN s > 0 /\ One!Fill(One!Opened(g, Allowed[k], x, m, s), Allowed[k],
                               One!EntryDelta(Allowed[k], x, s))
    <3>1. i \in One!First /\ b \in oBar /\ signal \in One!Signals(Allowed[i]) /\ n \in One!N(oHistory)
      BY <1>2, <1>16, <1>17
    <3>2. qty > 0
      BY <1>19
    <3> HIDE DEF b, qty, price, delta, q
    <3> QED BY <1>16, <2>1, <3>1, <3>2
  <2> QED BY <1>2, <1>3, <1>4, <1>5, <1>19, <2>2
          DEF One!SingleEnter, oStage, oBar, oHistory, oLeft, oPosition, oSkip, oTrades, oCurve
<1>20. CASE /\ qty <= 0 \/ ~(oCash + delta >= 0)
            /\ UNCHANGED <<oCash, oPosition, oCost, oTrades>>
  <2>1. ~One!Affordable(d, n, signal)
    <3>1. One!Affordable(d, n, signal) <=> qty > 0 /\ oCash + delta >= 0
      <4> HIDE DEF d, qty, b, price, delta, bars, equity
      <4> QED BY <1>2, <1>16 DEF One!Affordable, oBar, oCash
    <3> HIDE DEF qty, delta
    <3> QED BY <1>13, <1>20, <3>1
  <2>2. \A k \in One!First : \A g \in One!Signals(Allowed[k]), m \in One!N(oHistory) :
          ~One!Affordable(Allowed[k], m, g)
    <3>1. \A k \in One!First : k = i
      BY <1>17, OneTaken
    <3>2. \A g \in One!Signals(d) : g = signal
      BY <1>8, <1>17, OneEntrySignal DEF EntryIn
    <3>3. \A m \in One!N(oHistory) : m = n
      BY <1>9, <1>16, SingleN
    <3> QED BY <2>1, <3>1, <3>2, <3>3
  <2> HIDE DEF d, qty, b, bars, equity
  <2> QED BY <1>2, <1>3, <1>4, <1>5, <1>20, <2>2
          DEF One!SingleIdle, oStage, oBar, oHistory, oLeft, oCash, oPosition, oCost, oSkip, oTrades, oCurve
<1> QED BY <1>18, <1>19, <1>20

LEMMA OnePasses ==
  ASSUME SingleCandles, Books, AuditInv, OneCommand, Alone, Pass(OneSymbol)
  PROVE  One!SingleIdle
<1>1. /\ phase = "entries" /\ Visit(OneSymbol) /\ SecondVisit /\ UNCHANGED account
  BY DEF Pass, input, market, SecondVisit
<1>2. /\ oStage = "trade" /\ oStage' = "mark" /\ oBar = {Batch[OneSymbol]} /\ oBar' = oBar
      /\ oHistory = histories[OneSymbol] /\ UNCHANGED <<oHistory, oLeft, oCurve>>
      /\ oLeft = (OneSymbol \in exited)
  BY <1>1, OneSecond
<1>3. UNCHANGED <<oCash, oPosition, oCost, oTrades>>
  BY <1>1, OneSame DEF account
<1>4. CASE OneSymbol \in exited
  <2>1. oLeft /\ oSkip' = oSkip
    BY <1>2, <1>4, OneSame DEF Pass
  <2> QED BY <1>2, <1>3, <2>1
          DEF One!SingleIdle, oStage, oBar, oHistory, oLeft, oCash, oPosition, oCost, oSkip, oTrades, oCurve
<1>5. CASE OneSymbol \notin exited /\ OneSymbol \in DOMAIN positions
  <2>1. ~oLeft /\ oSkip' = oSkip /\ UnitsOf(OneSymbol) = {}
    BY <1>2, <1>5, OneSame DEF Pass
  <2>2. oPosition = {positions[OneSymbol]}
    BY <1>5, OneHolding
  <2>3. \A c \in oBar, r \in oPosition : One!PyramidSignals(r, oHistory, c) = {}
    BY <1>2, <2>1, <2>2, OneOffers DEF UnitsOf
  <2>4. oPosition # {}
    BY <2>2
  <2> QED BY <1>2, <1>3, <2>1, <2>3, <2>4
          DEF One!SingleIdle, oStage, oBar, oHistory, oLeft, oCash, oPosition, oCost, oSkip, oTrades, oCurve
<1>6. CASE OneSymbol \notin exited /\ OneSymbol \notin DOMAIN positions
  <2>1. ~oLeft /\ Taken(OneSymbol) = {} /\ skip' = skip \ Used(OneSymbol)
    BY <1>2, <1>6 DEF Pass
  <2>2. One!First = {} /\ oSkip' = oSkip \ One!Spent
    BY <1>1, <2>1, OneTrials, MappedNow, MappedNext DEF OneCommand
  <2>3. oPosition = {}
    BY <1>6, OneFree
  <2> QED BY <1>2, <1>3, <2>1, <2>2, <2>3
          DEF One!SingleIdle, oStage, oBar, oHistory, oLeft, oCash, oPosition, oCost, oSkip, oTrades, oCurve
<1> QED BY <1>4, <1>5, <1>6

LEMMA OneFinishes ==
  ASSUME SingleCandles, Books, OneCommand, Alone, EndSession
  PROVE  One!Finish
<1> DEFINE b == Batch[OneSymbol]
<1>1. /\ phase = "entries" /\ todo = {} /\ todo' = {} /\ phase' \in {"between", "done"} /\ exited' = {}
      /\ curve' = Append(curve, Equity(cash, positions, closes))
      /\ UNCHANGED <<account, skip>>
  BY DEF EndSession
<1>2. DOMAIN Batch = {OneSymbol} /\ b \in Bar
  BY <1>1, OneBatch DEF Books, TapeOK, OneCommand
<1>3. histories'[OneSymbol] = Append(histories[OneSymbol], b)
  BY <1>2, BatchesOK DEF EndSession
<1>4. Stage = "mark" /\ Stage' = "idle"
  BY <1>1 DEF Stage
<1>5. /\ oStage = "mark" /\ oStage' = "idle" /\ oBar = {b} /\ oBar' = {}
      /\ oHistory' = Append(oHistory, b)
  BY <1>3, <1>4, MappedNow, MappedNext DEF OneCommand
<1>6. oLeft' = FALSE
  BY <1>1 DEF oLeft, In, OneCommand
<1>7. oCurve' = Append(oCurve, One!EquityAt(b.close))
  <2>1. One!EquityAt(b.close) = Equity(cash, positions, closes)
    BY <1>1, OneEquity DEF OneCommand
  <2> QED BY <1>1, <2>1, MappedNow, MappedNext DEF OneCommand
<1>8. UNCHANGED <<oCash, oPosition, oCost, oSkip, oTrades>>
  BY <1>1, OneSame DEF account
<1> HIDE DEF b
<1> QED BY <1>5, <1>6, <1>7, <1>8
        DEF One!Finish, oStage, oBar, oHistory, oLeft, oCash, oPosition, oCost, oSkip, oTrades, oCurve

\* The steps of run_portfolio that run does not have change nothing it reads.
LEMMA OneStutters ==
  ASSUME SingleCandles, Books, OneCommand,
         ExitsDone \/ (\E batch : Load(batch, Keys)) \/ UNCHANGED vars
  PROVE  UNCHANGED oVars
<1>1. UNCHANGED <<histories, exited, cash, positions, openCosts, skip, trades, curve>>
  BY DEF ExitsDone, Load, vars, scanVars, backtestVars, market, account
<1>2. UNCHANGED <<oHistory, oLeft, oCash, oPosition, oCost, oSkip, oTrades, oCurve>>
  BY <1>1, OneSame
<1>3. CASE ExitsDone
  <2>1. /\ phase = "exits" /\ todo = {} /\ phase' = "entries" /\ todo' = DOMAIN Batch
        /\ UNCHANGED <<tape, session>>
    BY <1>3 DEF ExitsDone, input
  <2>2. DOMAIN Batch = {OneSymbol}
    BY <2>1, OneBatch DEF Books, TapeOK, OneCommand
  <2>3. Stage = "trade" /\ Stage' = "trade"
    BY <2>1, <2>2 DEF Stage
  <2>4. oStage' = oStage /\ oBar' = oBar
    BY <2>1, <2>3, MappedNow, MappedNext DEF OneCommand, Batch
  <2> QED BY <1>2, <2>4 DEF oVars
<1>4. CASE \E batch : Load(batch, Keys)
  <2>1. phase = "input" /\ phase' = "input"
    BY <1>4 DEF Load
  <2>2. Stage = "idle" /\ Stage' = "idle"
    BY <2>1 DEF Stage
  <2>3. oStage' = oStage /\ oBar' = oBar
    BY <2>2, MappedNow, MappedNext DEF OneCommand
  <2> QED BY <1>2, <2>3 DEF oVars
<1>5. CASE UNCHANGED vars
  <2>1. UNCHANGED <<phase, todo, tape, session>>
    BY <1>5 DEF vars, scanVars, backtestVars, input
  <2>2. Stage' = Stage
    BY <2>1 DEF Stage
  <2>3. oStage' = oStage /\ oBar' = oBar
    BY <2>1, <2>2, MappedNow, MappedNext DEF OneCommand, Batch
  <2> QED BY <1>2, <2>3 DEF oVars
<1> QED BY <1>3, <1>4, <1>5

LEMMA OneOthers ==
  ASSUME command # "single", UNCHANGED command
  PROVE  UNCHANGED oVars
<1>1. oStage' = oStage /\ oBar' = oBar /\ oHistory' = oHistory
  BY DEF oStage, oBar, oHistory, In
<1>2. oLeft' = oLeft /\ oCash' = oCash /\ oPosition' = oPosition /\ oCost' = oCost
  BY DEF oLeft, oCash, oPosition, oCost, In
<1>3. oSkip' = oSkip /\ oTrades' = oTrades /\ oCurve' = oCurve
  BY DEF oSkip, oTrades, oCurve, In
<1> QED BY <1>1, <1>2, <1>3 DEF oVars

LEMMA OneSteps ==
  ASSUME SingleCandles, Books, AuditInv, OneInv, [BacktestsNext]_vars
  PROVE  One!SingleNext \/ UNCHANGED oVars
<1>1. UNCHANGED command
  BY DEF BacktestsNext, Single, Portfolio, Scan, MomentumRun, vars
<1>2. CASE command # "single"
  BY <1>1, <1>2, OneOthers
<1>3. CASE command = "single"
  <2>1. OneCommand /\ Alone
    BY <1>1, <1>3 DEF OneCommand, OneInv
  <2>2. \/ (\E batch : Load(batch, Keys)) \/ UNCHANGED vars
        \/ SessionStep /\ UNCHANGED pit
    BY <1>3 DEF BacktestsNext, Single, Portfolio, Scan, MomentumRun
  <2>3. CASE (\E batch : Load(batch, Keys)) \/ UNCHANGED vars \/ ExitsDone
    BY <2>1, <2>3, OneStutters
  <2>4. CASE OpenSession
    BY <2>1, <2>4, OneOpens DEF One!SingleNext
  <2>5. CASE EndSession
    BY <2>1, <2>5, OneFinishes DEF One!SingleNext
  <2>6. ASSUME NEW s \in Symbols, UNCHANGED pit, Exit(s) \/ Keep(s) \/ Pyramid(s) \/ Enter(s) \/ Pass(s)
        PROVE One!SingleNext
    <3>1. Visit(s) /\ phase \in {"exits", "entries"}
      BY <2>6 DEF Exit, Keep, Pyramid, Enter, Pass
    <3>2. s = OneSymbol
      BY <1>3, <3>1, OneVisited
    <3>3. CASE Exit(s) \/ Keep(s)
      BY <2>1, <3>2, <3>3, OneCloses, OneKeeps DEF One!SingleNext
    <3>4. CASE Pyramid(s) \/ Enter(s) \/ Pass(s)
      BY <2>1, <2>6, <3>2, <3>4, OnePyramids, OneEnters, OnePasses DEF One!SingleNext
    <3> QED BY <2>6, <3>3, <3>4
  <2> QED BY <2>2, <2>3, <2>4, <2>5, <2>6 DEF SessionStep
<1> QED BY <1>2, <1>3

LEMMA OneInit == BacktestsInit => One!SingleInit
<1> SUFFICES ASSUME BacktestsInit PROVE One!SingleInit
  OBVIOUS
<1>1. /\ phase = "input" /\ histories = [s \in Symbols |-> <<>>] /\ exited = {} /\ cash = InitialEquity
      /\ positions = <<>> /\ openCosts = <<>> /\ skip = {} /\ trades = <<>> /\ curve = <<>>
  BY DEF BacktestsInit, ScanInit, BacktestInit
<1>2. DOMAIN positions = {} /\ DOMAIN openCosts = {}
  BY <1>1, Emptied
<1>3. Stage = "idle"
  BY <1>1 DEF Stage
<1>4. oStage = "idle" /\ oBar = {}
  BY <1>3 DEF oStage, oBar, In
<1>5. oHistory = <<>> /\ oLeft = FALSE /\ oCash = InitialEquity
  BY <1>1, BatchesOK DEF oHistory, oLeft, oCash, In
<1>6. oPosition = {} /\ oCost = 0
  BY <1>2 DEF oPosition, oCost, In, At
<1>7. oSkip = {} /\ oTrades = <<>> /\ oCurve = <<>>
  BY <1>1 DEF oSkip, oTrades, oCurve, In
<1> QED BY <1>4, <1>5, <1>6, <1>7
        DEF One!SingleInit, oStage, oBar, oHistory, oLeft, oCash, oPosition, oCost, oSkip, oTrades, oCurve

\* run_portfolio over the candles of one symbol, with no entry filter and with limits
\* that one symbol cannot reach, does what run does step by step: the loop of the
\* single-symbol command and the loop of the portfolio are the same backtest,
\* whatever the candles, the costs and the parameters of the strategy are.
THEOREM PortfolioRunsOne ==
  ASSUME SingleCandles
  PROVE  BacktestsSpec => RunAgreesWithPortfolio
<1>1. Books /\ AuditInv /\ OneInv /\ [BacktestsNext]_vars => [One!SingleNext]_One!singleVars
  <2>1. UNCHANGED oVars => UNCHANGED One!singleVars
    BY DEF One!singleVars, oVars, oStage, oBar, oHistory, oLeft, oCash, oPosition, oCost, oSkip, oTrades, oCurve
  <2> QED BY <2>1, OneSteps
<1>2. Books /\ OneInv /\ [BacktestsNext]_vars => OneInv'
  BY OnePreserved
<1> QED BY BooksAlways, AuditStart, AuditPreserved, OneStart, OneInit, <1>1, <1>2, PTL
        DEF BacktestsSpec, RunAgreesWithPortfolio, One!SingleSpec
=============================================================================
