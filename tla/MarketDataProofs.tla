--------------------------- MODULE MarketDataProofs ---------------------------
(***************************************************************************)
(* Proofs about MarketData and the requests of TossRead, for any symbols,  *)
(* headers, ages, page sizes and stages: types, the pauses that the server *)
(* asked for, and the bars that fetches put together.                      *)
(***************************************************************************)
EXTENDS MarketData, TLAPS, FiniteSetTheorems, WellFoundedInduction

-----------------------------------------------------------------------------
(* Types *)

Limit == [remaining: OrNone(Nat), reset: OrNone(Nat), until: OrNone(Nat)]
Wire == [step: {"none", "token", "send", "done"}, group: Groups \cup {"none"}, tries: 1..2,
         status: Nat]

ReadOK ==
  /\ clock \in StartClock..MaxClock /\ clock \in Nat
  /\ limits \in [Groups -> Limit]
  /\ token \in OrNone(Nat)
  /\ wire \in Wire
  /\ notBefore \in [Groups -> Nat] /\ earlier \in Nat

LEMMA GreaterOf ==
  ASSUME NEW a \in Int, NEW b \in Int
  PROVE  Max({a, b}) \in {a, b} /\ Max({a, b}) >= a /\ Max({a, b}) >= b
<1>1. \E x \in {a, b} : \A y \in {a, b} : x >= y
  <2>1. CASE a >= b
    BY <2>1
  <2>2. CASE ~(a >= b)
    BY <2>2
  <2> QED BY <2>1, <2>2
<1> QED BY <1>1 DEF Max

LEMMA GreatestOf ==
  ASSUME NEW a \in Int, NEW b \in Int, NEW c \in Int
  PROVE  /\ Max({a, b, c}) \in {a, b, c}
         /\ Max({a, b, c}) >= a /\ Max({a, b, c}) >= b /\ Max({a, b, c}) >= c
<1>1. \E x \in {a, b, c} : \A y \in {a, b, c} : x >= y
  <2>1. CASE a >= b /\ a >= c
    BY <2>1
  <2>2. CASE b >= a /\ b >= c
    BY <2>2
  <2>3. CASE c >= a /\ c >= b
    BY <2>3
  <2> QED BY <2>1, <2>2, <2>3
<1> QED BY <1>1 DEF Max

\* What an answer's headers ask for comes from its two times.
LEMMA AskedFor ==
  ASSUME NEW h \in Headers, clock \in Nat
  PROVE  /\ Asked(h) \in Nat
         /\ Asked(h) = 0
            \/ (h.retry > 0 /\ Asked(h) = clock + h.retry)
            \/ (h.remaining = 0 /\ h.reset # None /\ Asked(h) = clock + h.reset)
<1> DEFINE x == IF h.retry > 0 THEN clock + h.retry ELSE 0
           y == IF h.remaining = 0 /\ h.reset # None THEN clock + h.reset ELSE 0
           S == {0} \cup {clock + r : r \in {h.retry} \cap (Nat \ {0})}
                  \cup {clock + r : r \in IF h.remaining = 0 THEN {h.reset} \ {None} ELSE {}}
<1>1. h.retry \in Nat \cup {-1} /\ h.reset \in Nat \cup {-1}
  BY ReadConstantsOK DEF OrNone, None
<1>2. {clock + r : r \in {h.retry} \cap (Nat \ {0})} = IF h.retry > 0 THEN {x} ELSE {}
  <2>1. CASE h.retry > 0
    <3>1. {h.retry} \cap (Nat \ {0}) = {h.retry}
      BY <1>1, <2>1
    <3> QED BY <2>1, <3>1
  <2>2. CASE ~(h.retry > 0)
    <3>1. {h.retry} \cap (Nat \ {0}) = {}
      BY <1>1, <2>2
    <3> QED BY <2>2, <3>1
  <2> QED BY <2>1, <2>2
<1>3. {clock + r : r \in IF h.remaining = 0 THEN {h.reset} \ {None} ELSE {}} =
        IF h.remaining = 0 /\ h.reset # None THEN {y} ELSE {}
  <2>1. CASE h.remaining = 0 /\ h.reset # None
    <3>1. (IF h.remaining = 0 THEN {h.reset} \ {None} ELSE {}) = {h.reset}
      BY <2>1
    <3> QED BY <2>1, <3>1
  <2>2. CASE ~(h.remaining = 0 /\ h.reset # None)
    <3>1. (IF h.remaining = 0 THEN {h.reset} \ {None} ELSE {}) = {}
      BY <2>2
    <3> QED BY <2>2, <3>1
  <2> QED BY <2>1, <2>2
<1>4. S = {0, x, y}
  BY <1>2, <1>3
<1>5. x \in Nat /\ y \in Nat
  BY <1>1 DEF None
<1>6. Asked(h) = Max(S)
  BY DEF Asked
<1>7. /\ x = 0 \/ (h.retry > 0 /\ x = clock + h.retry)
      /\ y = 0 \/ (h.remaining = 0 /\ h.reset # None /\ y = clock + h.reset)
  OBVIOUS
<1> HIDE DEF x, y, S
<1>8. Max({0, x, y}) \in {0, x, y}
  <2>1. 0 \in Int /\ x \in Int /\ y \in Int
    BY <1>5
  <2> QED BY <2>1, GreatestOf
<1> QED BY <1>4, <1>5, <1>6, <1>7, <1>8

\* The limit that headers leave waits as long as the old one and as they ask.
LEMMA CapturedWaits ==
  ASSUME NEW h \in Headers, NEW limit \in Limit, clock \in Nat
  PROVE  /\ Captured(limit, h) \in Limit
         /\ Captured(limit, h).until >= limit.until
         /\ h.retry > 0 => Captured(limit, h).until >= clock + h.retry
         /\ h.remaining = 0 /\ h.reset # None => Captured(limit, h).until >= clock + h.reset
<1> DEFINE stated == IF h.reset # None THEN clock + h.reset ELSE limit.reset
           asked == IF h.retry > 0 THEN Later(limit.until, clock + h.retry) ELSE limit.until
           reset == IF h.remaining = 0 /\ stated = None THEN clock + DefaultReset ELSE stated
           until == IF h.remaining = 0 THEN Later(asked, reset) ELSE asked
<1>1. /\ h.retry \in Nat \cup {-1} /\ h.reset \in Nat \cup {-1} /\ h.remaining \in Nat \cup {-1}
      /\ limit.until \in Nat \cup {-1} /\ limit.reset \in Nat \cup {-1} /\ DefaultReset \in Nat
  BY ReadConstantsOK DEF OrNone, None, Limit
<1>2. \A a, b \in Nat \cup {-1} : Later(a, b) \in Nat \cup {-1} /\ Later(a, b) >= a /\ Later(a, b) >= b
  BY GreaterOf DEF Later
<1>3. /\ asked \in Nat \cup {-1} /\ asked >= limit.until
      /\ h.retry > 0 => asked >= clock + h.retry
  <2>1. CASE h.retry > 0
    <3>1. clock + h.retry \in Nat \cup {-1}
      BY <1>1
    <3> QED BY <1>1, <1>2, <2>1, <3>1
  <2>2. CASE ~(h.retry > 0)
    BY <1>1, <2>2
  <2> QED BY <2>1, <2>2
<1>4. reset \in Nat \cup {-1} /\ (h.reset # None => reset = clock + h.reset)
  BY <1>1 DEF None
<1> HIDE DEF asked, reset
<1>5. /\ until \in Nat \cup {-1} /\ until >= asked
      /\ h.remaining = 0 => until >= reset
  BY <1>2, <1>3, <1>4
<1>6. Captured(limit, h) = [remaining |-> h.remaining, reset |-> reset, until |-> until]
  BY DEF Captured, asked, reset
<1> HIDE DEF until
<1>7. /\ Captured(limit, h) \in Limit /\ Captured(limit, h).until = until
  BY <1>1, <1>4, <1>5, <1>6 DEF Limit, OrNone, None
<1>8. until >= limit.until
  BY <1>1, <1>3, <1>5
<1>9. h.retry > 0 => until >= clock + h.retry
  BY <1>1, <1>3, <1>5
<1>10. h.remaining = 0 /\ h.reset # None => until >= clock + h.reset
  BY <1>4, <1>5
<1> QED BY <1>7, <1>8, <1>9, <1>10

LEMMA PausedWaits ==
  ASSUME NEW limit \in Limit, NEW seconds \in Nat, clock \in Nat
  PROVE  PausedFor(limit, seconds) \in Limit /\ PausedFor(limit, seconds).until >= limit.until
<1>1. limit.until \in Nat \cup {-1} /\ limit.until \in Int /\ clock + seconds \in Int
  BY DEF Limit, OrNone, None
<1>2. Later(limit.until, clock + seconds) \in {limit.until, clock + seconds}
      /\ Later(limit.until, clock + seconds) >= limit.until
  BY <1>1, GreaterOf DEF Later
<1> QED BY <1>1, <1>2 DEF PausedFor, Limit, OrNone, None

\* Every pause is heard: what a group's answers asked for is over when its limit
\* lets a request through, and the first attempt of a request went past that
\* limit.  What was asked before a 401 was over when that attempt went out.
PauseInv ==
  /\ ReadOK
  /\ \A g \in Groups : notBefore[g] = 0 \/ notBefore[g] <= limits[g].until
  /\ wire.step # "none" => wire.group \in Groups
  /\ wire.step \in {"token", "send"} /\ wire.tries = 1 => limits[wire.group].until <= clock
  /\ wire.step \in {"token", "send"} /\ wire.tries = 2 => earlier <= clock

LEMMA ReadInitOK == ReadInit => PauseInv
  BY ReadConstantsOK DEF ReadInit, PauseInv, ReadOK, Fresh, Quiet, Limit, Wire, OrNone, None

LEMMA AskKept ==
  ASSUME PauseInv, NEW g \in Groups, Ask(g), UNCHANGED <<clock, limits, token, notBefore, earlier>>
  PROVE  PauseInv'
<1>1. wire' \in Wire
  BY DEF Ask, Wire
<1>2. wire'.group = g /\ wire'.tries = 1 /\ (wire'.step \in {"token", "send"} => ~Paused(g))
  BY DEF Ask
<1>3. limits[g].until \in Nat \cup {-1} /\ clock \in Nat
  BY DEF PauseInv, ReadOK, Limit, OrNone, None
<1>4. ~Paused(g) => limits[g].until <= clock
  BY <1>3 DEF Paused
<1> QED BY <1>1, <1>2, <1>4 DEF PauseInv, ReadOK

LEMMA Resent ==
  ASSUME NEW w \in Wire, NEW v, v = [w EXCEPT !.step = "token", !.tries = 2]
  PROVE  v \in Wire /\ v.group = w.group /\ v.tries = 2
<1>1. v = [step |-> "token", group |-> w.group, tries |-> 2, status |-> w.status]
  BY DEF Wire
<1>2. 2 \in 1..2 /\ w.group \in Groups \cup {"none"} /\ w.status \in Nat
  BY DEF Wire
<1> QED BY <1>1, <1>2 DEF Wire

LEMMA TransportKept ==
  ASSUME PauseInv, Transport
  PROVE  PauseInv'
<1>1. CASE IssueToken
  <2>1. clock + TokenLife \in Nat /\ \A status \in Errors : status \in Nat
    BY ReadConstantsOK DEF PauseInv, ReadOK, Errors
  <2>2. token' \in OrNone(Nat)
    BY <1>1, <2>1 DEF IssueToken, PauseInv, ReadOK, OrNone
  <2>3. wire' \in Wire /\ wire'.group = wire.group /\ wire'.tries = wire.tries
    BY <1>1, <2>1 DEF IssueToken, PauseInv, ReadOK, Wire
  <2> QED BY <1>1, <2>2, <2>3 DEF IssueToken, PauseInv, ReadOK, heard
<1>2. ASSUME NEW h \in Headers, Send(h) PROVE PauseInv'
  <2> DEFINE g == wire.group
             captured == Captured(limits[g], h)
  <2>1. /\ g \in Groups /\ limits[g] \in Limit /\ clock \in Nat /\ DefaultRetry \in Nat
        /\ h.retry \in Nat \cup {-1} /\ notBefore[g] \in Nat
    BY <1>2, ReadConstantsOK DEF Send, PauseInv, ReadOK, OrNone, None
  <2>2. PICK status \in {200, 401} \cup Errors :
          /\ limits' = [limits EXCEPT ![g] =
                          IF status # 429 THEN captured
                          ELSE PausedFor(captured, IF h.retry > 0 THEN h.retry ELSE DefaultRetry)]
          /\ wire' = IF status = 401 /\ wire.tries = 1
                     THEN [wire EXCEPT !.step = "token", !.tries = 2]
                     ELSE [wire EXCEPT !.step = "done", !.status = status]
    BY <1>2 DEF Send
  <2>3. /\ captured \in Limit /\ captured.until >= limits[g].until
        /\ h.retry > 0 => captured.until >= clock + h.retry
        /\ h.remaining = 0 /\ h.reset # None => captured.until >= clock + h.reset
    BY <2>1, CapturedWaits
  <2> DEFINE limit == IF status # 429 THEN captured
                      ELSE PausedFor(captured, IF h.retry > 0 THEN h.retry ELSE DefaultRetry)
  <2> HIDE DEF captured
  <2>4. limit \in Limit /\ limit.until >= captured.until
    <3>1. (IF h.retry > 0 THEN h.retry ELSE DefaultRetry) \in Nat
      BY <2>1
    <3>2. captured.until \in Int
      BY <2>3 DEF Limit, OrNone, None
    <3>3. CASE status # 429
      BY <2>3, <3>2, <3>3
    <3>4. CASE status = 429
      BY <2>1, <2>3, <3>1, <3>4, PausedWaits
    <3> QED BY <3>3, <3>4
  <2>5. limits' = [limits EXCEPT ![g] = limit]
    BY <2>2 DEF captured
  <2> HIDE DEF limit
  <2>6. /\ limits' \in [Groups -> Limit] /\ limits'[g] = limit
        /\ \A f \in Groups : f # g => limits'[f] = limits[f]
    BY <2>1, <2>4, <2>5 DEF PauseInv, ReadOK
  <2>7. wire' \in Wire /\ wire'.group = g
        /\ ~(wire'.step \in {"token", "send"} /\ wire'.tries = 1)
    <3>1. wire \in Wire /\ status \in Nat
      BY <2>2 DEF PauseInv, ReadOK, Errors
    <3>2. CASE status = 401 /\ wire.tries = 1
      <4>1. wire' = [wire EXCEPT !.step = "token", !.tries = 2]
        BY <2>2, <3>2
      <4>2. wire'.group = wire.group /\ wire'.tries = 2 /\ wire' \in Wire
        BY <3>1, <4>1, Resent
      <4> QED BY <4>2
    <3>3. CASE ~(status = 401 /\ wire.tries = 1)
      <4>1. wire' = [wire EXCEPT !.step = "done", !.status = status]
        BY <2>2, <3>3
      <4>2. wire'.group = wire.group /\ wire'.step = "done" /\ wire' \in Wire
        BY <3>1, <4>1 DEF Wire
      <4> QED BY <4>2
    <3> QED BY <3>2, <3>3
  <2>8. notBefore' = [notBefore EXCEPT ![g] = Max({notBefore[g], Asked(h)})]
    BY <1>2 DEF Send
  <2>9. /\ Asked(h) \in Nat
        /\ Asked(h) = 0
           \/ (h.retry > 0 /\ Asked(h) = clock + h.retry)
           \/ (h.remaining = 0 /\ h.reset # None /\ Asked(h) = clock + h.reset)
    BY <2>1, AskedFor
  <2>10. Max({notBefore[g], Asked(h)}) \in {notBefore[g], Asked(h)}
    <3>1. notBefore[g] \in Int /\ Asked(h) \in Int
      BY <2>1, <2>9
    <3> QED BY <3>1, GreaterOf
  <2>11. notBefore' \in [Groups -> Nat]
    BY <2>1, <2>8, <2>9, <2>10 DEF PauseInv, ReadOK
  <2>12. /\ limit.until \in Int /\ captured.until \in Int /\ limits[g].until \in Int
    BY <2>1, <2>3, <2>4 DEF Limit, OrNone, None
  <2>13. notBefore[g] = 0 \/ notBefore[g] <= limit.until
    <3>1. notBefore[g] = 0 \/ notBefore[g] <= limits[g].until
      BY <2>1 DEF PauseInv
    <3> QED BY <2>1, <2>3, <2>4, <2>12, <3>1
  <2>14. Asked(h) = 0 \/ Asked(h) <= limit.until
    BY <2>1, <2>3, <2>4, <2>9, <2>12
  <2>15. \A f \in Groups : notBefore'[f] = 0 \/ notBefore'[f] <= limits'[f].until
    <3> TAKE f \in Groups
    <3>1. CASE f = g
      BY <2>1, <2>6, <2>8, <2>10, <2>13, <2>14, <3>1 DEF PauseInv, ReadOK
    <3>2. CASE f # g
      BY <2>6, <2>8, <3>2 DEF PauseInv, ReadOK
    <3> QED BY <3>1, <3>2
  <2>16. clock' = clock /\ token' = token
    BY <1>2 DEF Send
  <2>17. earlier' = IF wire'.step = "done" THEN 0 ELSE notBefore[g]
    BY <1>2 DEF Send
  <2>18. earlier' \in Nat /\ (wire'.step = "token" => earlier' <= clock)
    <3>1. CASE wire'.step = "done"
      BY <2>17, <3>1
    <3>2. CASE wire'.step # "done"
      <4>1. wire.tries = 1 /\ earlier' = notBefore[g]
        BY <2>2, <2>17, <3>2 DEF PauseInv, ReadOK, Wire
      <4>2. limits[g].until <= clock /\ (notBefore[g] = 0 \/ notBefore[g] <= limits[g].until)
        BY <1>2, <2>1, <4>1 DEF Send, PauseInv
      <4> QED BY <2>1, <2>12, <4>1, <4>2
    <3> QED BY <3>1, <3>2
  <2>19. wire'.step \in {"token", "done"}
    BY <2>2 DEF PauseInv, ReadOK, Wire
  <2> QED BY <2>1, <2>6, <2>7, <2>11, <2>15, <2>16, <2>18, <2>19 DEF PauseInv, ReadOK
<1> QED BY <1>1, <1>2 DEF Transport

LEMMA TickKept ==
  ASSUME PauseInv, Tick
  PROVE  PauseInv'
<1>1. clock' = clock + 1 /\ clock < MaxClock /\ clock \in StartClock..MaxClock
      /\ StartClock \in Nat /\ MaxClock \in Nat
  BY ReadConstantsOK DEF Tick, PauseInv, ReadOK
<1>2. clock' \in StartClock..MaxClock /\ clock' \in Nat /\ clock <= clock'
  BY <1>1
<1>3. wire.step # "none" => limits[wire.group].until \in Int
  BY DEF PauseInv, ReadOK, Limit, OrNone, None
<1>4. wire.step \in {"token", "send"} /\ wire.tries = 2 => earlier <= clock'
  BY <1>2 DEF PauseInv, ReadOK
<1> QED BY <1>2, <1>3, <1>4 DEF Tick, PauseInv, ReadOK, heard

\* A consumer takes the answer, or gives up its client, or starts anew.
LEMMA TakenKept ==
  ASSUME PauseInv, UNCHANGED <<clock, limits, notBefore, earlier>>, wire' = Quiet \/ wire' = wire,
         token' = token \/ token' = None
  PROVE  PauseInv'
  BY DEF PauseInv, ReadOK, Quiet, Wire, OrNone

LEMMA FreshKept ==
  ASSUME PauseInv, limits' = Fresh, notBefore' = [g \in Groups |-> 0], earlier' = 0, wire' = Quiet,
         token' = None, UNCHANGED clock
  PROVE  PauseInv'
  BY DEF PauseInv, ReadOK, Quiet, Wire, OrNone, Fresh, Limit, None

LEMMA PausePreserved == PauseInv /\ [Next]_vars => PauseInv'
<1>1. ASSUME PauseInv, Next PROVE PauseInv'
  <2>1. CASE Transport
    BY <1>1, <2>1, TransportKept
  <2>2. CASE AskNext
    <3>1. PICK g \in Groups : Ask(g)
      BY <2>2, MarketConstantsOK DEF AskNext, GroupOf
    <3> QED BY <1>1, <2>2, <3>1, AskKept DEF AskNext, heard
  <2>3. CASE Tick
    BY <1>1, <2>3, TickKept
  <2>4. CASE Restart
    BY <1>1, <2>4, FreshKept DEF Restart, EndIteration
  <2>5. CASE OnCalendar \/ OnStocks \/ OnWarnings \/ OnPrice
    <3>1. /\ UNCHANGED <<clock, limits, notBefore, earlier>> /\ wire' = Quiet
          /\ token' = token \/ token' = None
      BY <2>5 DEF OnCalendar, OnStocks, OnWarnings, OnPrice, Reply, Goes, Fails, EndIteration, Taken,
                  heard
    <3> QED BY <1>1, <3>1, TakenKept
  <2>6. CASE EndRound
    <3>1. UNCHANGED <<clock, limits, notBefore, earlier, wire>> /\ (token' = token \/ token' = None)
      BY <2>6 DEF EndRound, EndIteration, heard
    <3> QED BY <1>1, <3>1, TakenKept
  <2>7. ASSUME NEW s \in Symbols, FromCache(s) \/ FromStore(s) \/ BeginFetch(s) \/ OnPage(s) \/ OnPageRefused(s)
        PROVE  PauseInv'
    <3>1. UNCHANGED <<clock, limits, notBefore, earlier, token>> /\ (wire' = Quiet \/ wire' = wire)
      BY <2>7 DEF FromCache, FromStore, BeginFetch, OnPage, OnPageRefused, Taken, readVars, heard
    <3> QED BY <1>1, <3>1, TakenKept
  <2>8. CASE BeginIteration
    <3>1. UNCHANGED <<clock, limits, notBefore, earlier, token, wire>>
      BY <2>8 DEF BeginIteration, readVars, heard
    <3> QED BY <1>1, <3>1, TakenKept
  <2> QED BY <1>1, <2>1, <2>2, <2>3, <2>4, <2>5, <2>6, <2>7, <2>8 DEF Next, Step
<1>2. ASSUME PauseInv, UNCHANGED vars PROVE PauseInv'
  <2>1. UNCHANGED <<clock, limits, notBefore, earlier, token, wire>>
    BY <1>2 DEF vars, readVars, heard
  <2> QED BY <1>2, <2>1, TakenKept
<1> QED BY <1>1, <1>2

LEMMA PausesHeard == Spec => []PauseInv
<1>1. Init => PauseInv
  BY ReadInitOK DEF Init
<1> QED BY <1>1, PausePreserved, PTL DEF Spec

\* A request goes out only when everything that the server asked the service to
\* wait for in that group, since the service started, is over (is_group_paused,
\* update_from_headers, pause_group), and its resend after a 401 only when all of
\* it is over that was asked for before that 401.
THEOREM PausesAreObeyed == Spec => []PausesObeyed
<1>1. PauseInv => PausesObeyed
  <2> SUFFICES ASSUME PauseInv, wire.step \in {"token", "send"}
               PROVE  (IF wire.tries = 1 THEN notBefore[wire.group] ELSE earlier) <= clock
    BY DEF PausesObeyed
  <2> DEFINE g == wire.group
  <2>1. g \in Groups /\ wire.tries \in 1..2
    BY DEF PauseInv, ReadOK, Wire
  <2>2. notBefore[g] \in Nat /\ limits[g].until \in Int /\ clock \in Nat
    BY <2>1 DEF PauseInv, ReadOK, Limit, OrNone, None
  <2>3. CASE wire.tries = 1
    <3>1. limits[g].until <= clock /\ (notBefore[g] = 0 \/ notBefore[g] <= limits[g].until)
      BY <2>1, <2>3 DEF PauseInv
    <3> QED BY <2>2, <2>3, <3>1
  <2>4. CASE wire.tries = 2
    BY <2>4 DEF PauseInv
  <2> QED BY <2>1, <2>3, <2>4
<1> QED BY <1>1, PausesHeard, PTL

-----------------------------------------------------------------------------
(* Rounds *)

RoundOK ==
  /\ round \in {"idle", "calendar", "stocks", "universe", "watchlist", "evaluate"}
  /\ job \in {"warnings", "look", "page", "price"}
  /\ todo \subseteq Symbols /\ selected \subseteq Symbols
  /\ round \in {"idle", "calendar", "stocks"} => job = "look"

DomainsOK == DOMAIN store \subseteq Symbols /\ DOMAIN cache \subseteq Symbols /\ exhausted \subseteq Symbols
TriesOK == fetch.tries \in Nat /\ fetch.tries < MaxPages

\* A request is under way only where a round has asked for something.
RequestWanted ==
  wire.step # "none" =>
    round \in {"calendar", "stocks"} \/ (todo # {} /\ job \in {"warnings", "page", "price"})

RoundInv == config \in Configs /\ RoundOK /\ DomainsOK /\ TriesOK /\ RequestWanted

ForSymbols == {"universe", "watchlist", "evaluate"}

LEMMA DomainWith == \A f, s, v : DOMAIN With(f, s, v) = DOMAIN f \cup {s}
  BY DEF With

LEMMA NoFetchOK == fetch' = NoFetch => TriesOK'
  BY MarketConstantsOK DEF TriesOK, NoFetch

LEMMA StartOK ==
  ASSUME NEW r \in {"idle", "calendar", "stocks"} \cup ForSymbols, NEW S \in SUBSET Symbols,
         Start(r, S), selected' \subseteq Symbols
  PROVE  RoundOK'
  BY DEF Start, RoundOK, ForSymbols

LEMMA NextSymbolOK ==
  ASSUME RoundOK, NextSymbol, selected' \subseteq Symbols
  PROVE  RoundOK'
<1>1. todo \ {This} \in SUBSET Symbols /\ round \in {"idle", "calendar", "stocks"} \cup ForSymbols
  BY DEF RoundOK, ForSymbols
<1> QED BY <1>1, StartOK DEF NextSymbol

LEMMA DeliverOK ==
  ASSUME RoundOK, NEW s \in Symbols, s = This, NEW bars, Deliver(bars)
  PROVE  RoundOK' /\ TriesOK'
<1>1. TriesOK'
  BY NoFetchOK DEF Deliver
<1>2. CASE round = "universe" /\ NextSymbol /\ Admit(bars)
  <2>1. selected' \subseteq Symbols
    BY <1>2 DEF Admit, RoundOK
  <2> QED BY <1>1, <1>2, <2>1, NextSymbolOK
<1>3. CASE round = "watchlist" /\ NextSymbol /\ UNCHANGED selected
  <2>1. selected' \subseteq Symbols
    BY <1>3 DEF RoundOK
  <2> QED BY <1>1, <1>3, <2>1, NextSymbolOK
<1>4. CASE round = "evaluate" /\ job' = "price" /\ UNCHANGED <<round, todo, open, selected>>
  BY <1>1, <1>4 DEF RoundOK
<1> QED BY <1>2, <1>3, <1>4 DEF Deliver

LEMMA RefusedOK ==
  ASSUME RoundOK, NEW status, Refused(status)
  PROVE  RoundOK' /\ TriesOK'
<1>1. TriesOK'
  BY NoFetchOK DEF Refused
<1>2. selected' \subseteq Symbols
  BY DEF Refused, RoundOK
<1>3. CASE NextSymbol
  BY <1>1, <1>2, <1>3, NextSymbolOK
<1>4. CASE Start(round, {})
  <2>1. {} \in SUBSET Symbols /\ round \in {"idle", "calendar", "stocks"} \cup ForSymbols
    BY DEF RoundOK, ForSymbols
  <2> QED BY <1>1, <1>2, <1>4, <2>1, StartOK
<1> QED BY <1>3, <1>4 DEF Refused

LEMMA EndIterationOK ==
  ASSUME EndIteration
  PROVE  RoundOK' /\ TriesOK' /\ DOMAIN cache' = {} /\ exhausted' = {}
<1>1. TriesOK'
  BY NoFetchOK DEF EndIteration
<1>2. Start("idle", {}) /\ selected' \subseteq Symbols
  BY DEF EndIteration
<1>3. RoundOK'
  BY <1>2, StartOK
<1> QED BY <1>1, <1>3 DEF EndIteration

LEMMA AfterCalendarOK ==
  ASSUME RoundOK, AfterCalendar
  PROVE  RoundOK'
<1>1. CASE "universe" \in config
  BY <1>1, StartOK DEF AfterCalendar, RoundOK
<1>2. CASE "universe" \notin config
  <2>1. Configured \in SUBSET Symbols /\ selected' \subseteq Symbols
    BY <1>2 DEF AfterCalendar, Symbols
  <2>2. CASE "watchlist" \in config
    BY <1>2, <2>1, <2>2, StartOK DEF AfterCalendar, ForSymbols
  <2>3. CASE "watchlist" \notin config
    BY <1>2, <2>1, <2>3, StartOK DEF AfterCalendar, ForSymbols
  <2> QED BY <2>2, <2>3
<1> QED BY <1>1, <1>2

LEMMA CaptureOK ==
  ASSUME RoundOK, DomainsOK, NEW s \in Symbols, s = This, NEW bars, NEW more, Capture(s, bars, more)
  PROVE  RoundOK' /\ TriesOK' /\ DomainsOK'
<1>1. RoundOK' /\ TriesOK'
  BY DeliverOK DEF Capture
<1>2. DOMAIN cache' = DOMAIN cache \cup {s} /\ DOMAIN store' = DOMAIN store \cup {s}
  BY DomainWith DEF Capture
<1>3. exhausted' \subseteq exhausted \cup {s}
  BY DEF Capture
<1> QED BY <1>1, <1>2, <1>3 DEF DomainsOK

LEMMA FetchStepOK ==
  ASSUME RoundInv, config' = config, NEW s \in Symbols,
         FromCache(s) \/ FromStore(s) \/ BeginFetch(s) \/ OnPage(s) \/ OnPageRefused(s)
  PROVE  RoundInv'
<1> SUFFICES RoundOK' /\ DomainsOK' /\ TriesOK' /\ RequestWanted'
  BY DEF RoundInv
<1>1. RoundOK /\ DomainsOK /\ TriesOK
  BY DEF RoundInv
<1>2. Look(s) => wire.step = "none"
  BY DEF Look, RoundInv, RequestWanted
<1>3. Reread(s) => DOMAIN cache' = DOMAIN cache \cup {s}
  BY DomainWith DEF Reread
<1>4. CASE FromCache(s)
  <2>1. s = This /\ wire'.step = "none" /\ UNCHANGED <<store, cache, exhausted>>
    BY <1>2, <1>4 DEF FromCache, Look, readVars
  <2>2. RoundOK' /\ TriesOK'
    BY <1>1, <1>4, <2>1, DeliverOK DEF FromCache
  <2> QED BY <1>1, <2>1, <2>2 DEF RequestWanted, DomainsOK
<1>5. CASE FromStore(s)
  <2>1. s = This /\ wire'.step = "none" /\ store' = store
    BY <1>2, <1>5 DEF FromStore, Look, readVars
  <2>2. RoundOK' /\ TriesOK'
    BY <1>1, <1>5, <2>1, DeliverOK DEF FromStore
  <2>3. DOMAIN cache' = DOMAIN cache \cup {s} /\ exhausted' \subseteq exhausted \cup {s}
    BY <1>3, <1>5 DEF FromStore
  <2> QED BY <1>1, <2>1, <2>2, <2>3 DEF RequestWanted, DomainsOK
<1>6. CASE BeginFetch(s)
  <2> DEFINE seed == Latest(Cached(s) \cup IF Stored(s) THEN store[s].bars ELSE {})
  <2>1. s = This /\ wire'.step = "none" /\ round \in ForSymbols
    BY <1>2, <1>6 DEF BeginFetch, Look, readVars, ForSymbols
  <2>2. \/ Capture(s, seed, FALSE)
        \/ /\ IF Stored(s) THEN Reread(s) ELSE UNCHANGED cache
           /\ fetch' = [NoFetch EXCEPT !.bars = seed] /\ job' = "page"
           /\ UNCHANGED <<store, exhausted, round, open, todo, selected>>
    BY <1>6 DEF BeginFetch
  <2> HIDE DEF seed
  <2>3. CASE Capture(s, seed, FALSE)
    BY <1>1, <2>1, <2>3, CaptureOK DEF RequestWanted
  <2>4. CASE /\ IF Stored(s) THEN Reread(s) ELSE UNCHANGED cache
             /\ fetch' = [NoFetch EXCEPT !.bars = seed] /\ job' = "page"
             /\ UNCHANGED <<store, exhausted, round, open, todo, selected>>
    <3>1. DOMAIN cache' \subseteq DOMAIN cache \cup {s}
      BY <1>3, <2>4
    <3>2. fetch'.tries = 0
      BY <2>4 DEF NoFetch
    <3>3. RoundOK'
      BY <1>1, <2>1, <2>4 DEF RoundOK, ForSymbols
    <3> QED BY <1>1, <2>1, <2>4, <3>1, <3>2, <3>3, MarketConstantsOK DEF RequestWanted, DomainsOK, TriesOK
  <2> QED BY <2>2, <2>3, <2>4
<1>7. CASE OnPage(s)
  <2>1. s = This /\ wire'.step = "none"
    BY <1>7 DEF OnPage, Taken, Quiet
  <2> DEFINE bars == Latest(fetch.bars \cup Completed(Served(s, fetch.before)))
  <2>2. PICK next \in Cursors(s, fetch.before) :
          IF LastPage(bars, next) THEN Capture(s, bars, next # None)
          ELSE /\ fetch' = [bars |-> bars, before |-> next, tries |-> fetch.tries + 1,
                            cursors |-> fetch.cursors \cup {next}]
               /\ UNCHANGED <<store, cache, exhausted, iteration>>
    BY <1>7 DEF OnPage
  <2> HIDE DEF bars
  <2>3. CASE LastPage(bars, next)
    BY <1>1, <2>1, <2>2, <2>3, CaptureOK DEF RequestWanted
  <2>4. CASE ~LastPage(bars, next)
    <3>1. fetch'.tries = fetch.tries + 1 /\ fetch.tries + 1 # MaxPages
      BY <2>2, <2>4 DEF LastPage
    <3>2. TriesOK'
      BY <1>1, <3>1, MarketConstantsOK DEF TriesOK
    <3>3. UNCHANGED <<store, cache, exhausted, iteration>>
      BY <2>2, <2>4
    <3> QED BY <1>1, <2>1, <3>2, <3>3 DEF iteration, RoundOK, DomainsOK, RequestWanted
  <2> QED BY <2>3, <2>4
<1>8. CASE OnPageRefused(s)
  <2>1. s = This /\ wire'.step = "none" /\ UNCHANGED <<store, exhausted>>
    BY <1>8 DEF OnPageRefused, Taken, Quiet
  <2>2. CASE Reread(s) /\ Deliver(Latest(store[s].bars))
    <3>1. RoundOK' /\ TriesOK'
      BY <1>1, <2>1, <2>2, DeliverOK
    <3> QED BY <1>1, <1>3, <2>1, <2>2, <3>1 DEF DomainsOK, RequestWanted
  <2>3. CASE UNCHANGED cache /\ Refused(wire.status)
    <3>1. RoundOK' /\ TriesOK'
      BY <1>1, <2>3, RefusedOK
    <3> QED BY <1>1, <2>1, <2>3, <3>1 DEF DomainsOK, RequestWanted
  <2> QED BY <1>8, <2>2, <2>3 DEF OnPageRefused
<1> QED BY <1>4, <1>5, <1>6, <1>7, <1>8

LEMMA ReplyOK ==
  ASSUME RoundInv, config' = config, OnCalendar \/ OnStocks \/ OnWarnings \/ OnPrice
  PROVE  RoundInv'
<1>1. RoundOK /\ DomainsOK /\ TriesOK
  BY DEF RoundInv
<1>2. wire'.step = "none" /\ store' = store
  BY DEF OnCalendar, OnStocks, OnWarnings, OnPrice, Reply, Taken, Quiet
<1>3. ASSUME RoundOK', TriesOK', UNCHANGED <<cache, exhausted>> \/ (DOMAIN cache' = {} /\ exhausted' = {})
      PROVE  RoundInv'
  BY <1>1, <1>2, <1>3 DEF RoundInv, DomainsOK, RequestWanted
<1>4. CASE EndIteration
  BY <1>3, <1>4, EndIterationOK
<1>5. CASE Goes /\ AfterCalendar
  BY <1>1, <1>3, <1>5, AfterCalendarOK DEF Goes, TriesOK
<1>6. CASE Goes /\ Start("universe", Candidates) /\ UNCHANGED <<open, selected>>
  <2>1. Candidates \in SUBSET Symbols /\ selected' \subseteq Symbols
    BY <1>1, <1>6 DEF RoundOK, Symbols
  <2>2. RoundOK'
    BY <1>6, <2>1, StartOK DEF ForSymbols
  <2> QED BY <1>1, <1>3, <1>6, <2>2 DEF Goes, TriesOK
<1>7. CASE Goes /\ job' = "look" /\ UNCHANGED <<round, todo, open, selected>>
  BY <1>1, <1>3, <1>7 DEF Goes, TriesOK, RoundOK
<1>8. CASE Goes /\ NextSymbol /\ UNCHANGED selected
  <2>1. selected' \subseteq Symbols
    BY <1>1, <1>8 DEF RoundOK
  <2>2. RoundOK'
    BY <1>1, <1>8, <2>1, NextSymbolOK
  <2> QED BY <1>1, <1>3, <1>8, <2>2 DEF Goes, TriesOK
<1>9. CASE Refused(wire.status) /\ UNCHANGED <<token, cache, exhausted>>
  BY <1>1, <1>3, <1>9, RefusedOK
<1> QED BY <1>4, <1>5, <1>6, <1>7, <1>8, <1>9 DEF OnCalendar, OnStocks, OnWarnings, OnPrice, Fails

LEMMA EndRoundOK ==
  ASSUME RoundInv, config' = config, EndRound
  PROVE  RoundInv'
<1>1. RoundOK /\ DomainsOK /\ TriesOK
  BY DEF RoundInv
<1>2. wire'.step = "none" /\ store' = store
  BY DEF EndRound, RoundInv, RequestWanted
<1>3. ASSUME RoundOK', TriesOK', UNCHANGED <<cache, exhausted>> \/ (DOMAIN cache' = {} /\ exhausted' = {})
      PROVE  RoundInv'
  BY <1>1, <1>2, <1>3 DEF RoundInv, DomainsOK, RequestWanted
<1>4. CASE EndIteration
  BY <1>3, <1>4, EndIterationOK
<1>5. CASE /\ UNCHANGED <<open, selected, token, cache, exhausted, fetch>>
           /\ Start("watchlist", selected) \/ Start("evaluate", selected)
  <2>1. selected \in SUBSET Symbols /\ selected' \subseteq Symbols
    BY <1>1, <1>5 DEF RoundOK
  <2>2. RoundOK'
    BY <1>5, <2>1, StartOK DEF ForSymbols
  <2> QED BY <1>1, <1>3, <1>5, <2>2 DEF TriesOK
<1> QED BY <1>4, <1>5 DEF EndRound

LEMMA RoundPreserved == RoundInv /\ [Next]_vars => RoundInv'
<1> SUFFICES ASSUME RoundInv, [Next]_vars PROVE RoundInv'
  OBVIOUS
<1>1. CASE UNCHANGED <<config, provider, iteration>> /\ (wire' = wire \/ wire.step # "none")
  BY <1>1 DEF RoundInv, provider, iteration, RoundOK, DomainsOK, TriesOK, RequestWanted
<1>2. CASE Next
  <2>0. config' = config
    BY <1>2 DEF Next, Step
  <2>1. CASE Transport /\ UNCHANGED <<provider, iteration>>
    BY <1>1, <2>0, <2>1 DEF Transport, IssueToken, Send
  <2>2. CASE AskNext
    <3>1. UNCHANGED <<provider, iteration>>
      BY <2>2 DEF AskNext
    <3>2. round \in {"calendar", "stocks"} \/ (todo # {} /\ job \in {"warnings", "page", "price"})
      BY <2>2 DEF AskNext
    <3> QED BY <2>0, <3>1, <3>2 DEF RoundInv, provider, iteration, RoundOK, DomainsOK, TriesOK, RequestWanted
  <2>3. CASE Tick /\ UNCHANGED <<provider, iteration>>
    BY <1>1, <2>0, <2>3 DEF Tick
  <2>4. CASE Restart
    <3>1. RoundOK' /\ TriesOK' /\ DOMAIN cache' = {} /\ exhausted' = {}
      BY <2>4, EndIterationOK DEF Restart
    <3>2. wire'.step = "none" /\ store' = store
      BY <2>4 DEF Restart, Quiet
    <3> QED BY <2>0, <3>1, <3>2 DEF RoundInv, DomainsOK, RequestWanted
  <2>5. CASE OnCalendar \/ OnStocks \/ OnWarnings \/ OnPrice
    BY <2>0, <2>5, ReplyOK
  <2>6. CASE EndRound
    BY <2>0, <2>6, EndRoundOK
  <2>7. ASSUME NEW s \in Symbols, FromCache(s) \/ FromStore(s) \/ BeginFetch(s) \/ OnPage(s) \/ OnPageRefused(s)
        PROVE  RoundInv'
    BY <2>0, <2>7, FetchStepOK
  <2>8. CASE BeginIteration
    <3>1. UNCHANGED <<readVars, provider>> /\ round = "idle"
      BY <2>8 DEF BeginIteration
    <3>2. wire'.step = "none"
      BY <3>1 DEF RoundInv, RoundOK, RequestWanted, readVars
    <3>3. RoundOK'
      <4>1. CASE "calendar" \in config
        <5>1. Start("calendar", {}) /\ selected' \subseteq Symbols
          BY <2>8, <4>1 DEF BeginIteration, RoundInv, RoundOK
        <5> QED BY <5>1, StartOK
      <4>2. CASE "calendar" \notin config
        BY <2>8, <4>2, AfterCalendarOK DEF BeginIteration, RoundInv
      <4> QED BY <4>1, <4>2
    <3> QED BY <2>0, <3>1, <3>2, <3>3 DEF RoundInv, DomainsOK, TriesOK, RequestWanted, provider
  <2> QED BY <1>2, <2>1, <2>2, <2>3, <2>4, <2>5, <2>6, <2>7, <2>8 DEF Next, Step
<1>3. CASE UNCHANGED vars
  BY <1>1, <1>3 DEF vars, readVars
<1> QED BY <1>2, <1>3

LEMMA RoundsHold == Spec => []RoundInv
<1>1. Init => RoundInv
  BY MarketConstantsOK DEF Init, ReadInit, RoundInv, RoundOK, DomainsOK, TriesOK, RequestWanted, Quiet, NoFetch
<1> QED BY <1>1, RoundPreserved, PTL DEF Spec

\* Types of the whole model, and that a request belongs to an iteration and a
\* fetch ends after MaxPages pages.
THEOREM MarketTypes == Spec => []MarketTypeOK
<1>1. RoundInv /\ PauseInv => MarketTypeOK
  BY DEF RoundInv, PauseInv, ReadOK, Wire, RoundOK, DomainsOK, TriesOK, RequestWanted, MarketTypeOK
<1> QED BY <1>1, RoundsHold, PausesHeard, PTL

-----------------------------------------------------------------------------
(* Days *)

LEMMA DayMonotone ==
  ASSUME NEW a \in Nat, NEW b \in Nat, a <= b
  PROVE  a \div DayLength \in Nat /\ a \div DayLength <= b \div DayLength
<1> DEFINE p == a \div DayLength
           q == b \div DayLength
<1>1. DayLength \in Nat \ {0}
  BY MarketConstantsOK
<1>2. p \in Nat /\ q \in Nat /\ DayLength * p <= a /\ b < DayLength * (q + 1)
  BY <1>1
<1> HIDE DEF p, q
<1>3. DayLength * p < DayLength * (q + 1)
  BY <1>1, <1>2
<1>4. p < q + 1
  BY <1>1, <1>2, <1>3
<1> QED BY <1>2, <1>4 DEF p, q

LEMMA LessThanWellFounded ==
  \E R : IsWellFoundedOn(R, Nat) /\ \A m, n \in Nat : m < n => <<m, n>> \in R
<1>1. \A m, n \in Nat : m < n => <<m, n>> \in OpToRel(<, Nat)
  BY DEF OpToRel
<1> QED BY <1>1, NatLessThanWellFounded, Zenon

LEMMA LeastOf ==
  ASSUME NEW S \in SUBSET Nat, S # {}
  PROVE  Min(S) \in S /\ \A x \in S : Min(S) <= x
<1>1. PICK R : IsWellFoundedOn(R, Nat) /\ \A m, n \in Nat : m < n => <<m, n>> \in R
  BY LessThanWellFounded
<1>2. S \subseteq Nat
  OBVIOUS
<1>3. \E n \in S : \A m \in S : ~(<<m, n>> \in R)
  <2>1. IsWellFoundedOn(R, Nat) /\ S # {}
    BY <1>1
  <2> QED BY <2>1, <1>2, WFMin
<1>4. PICK n \in S : \A m \in S : ~(<<m, n>> \in R)
  BY <1>3, Zenon
<1>5. ASSUME NEW m \in S PROVE n <= m
  <2>1. m \in Nat /\ n \in Nat /\ ~(<<m, n>> \in R)
    BY <1>2, <1>4, Zenon
  <2>2. ~(m < n)
    BY <1>1, <2>1, Zenon
  <2> QED BY <2>1, <2>2
<1>6. \E y \in S : \A x \in S : y <= x
  BY <1>5
<1> QED BY <1>6 DEF Min

\* A bounded set of days has a last one.
LEMMA LastDay ==
  ASSUME NEW S \in SUBSET Nat, S # {}, NEW n \in Nat, \A d \in S : d <= n
  PROVE  \E z \in S : \A d \in S : d <= z
<1> DEFINE T == {k \in Nat : \E d \in S : k = n - d}
<1>1. T # {} /\ T \in SUBSET Nat
  <2>1. PICK d \in S : TRUE
    OBVIOUS
  <2>2. d \in Nat /\ d <= n
    BY <2>1
  <2>3. n - d \in T
    BY <2>2
  <2> QED BY <2>3
<1>2. PICK k \in T : \A j \in T : k <= j
  <2> HIDE DEF T
  <2> QED BY <1>1, LeastOf
<1>3. PICK z \in S : k = n - z
  BY <1>2
<1>4. ASSUME NEW d \in S PROVE d <= z
  <2>1. d \in Nat /\ z \in Nat /\ d <= n
    <3> HIDE DEF T
    <3> QED OBVIOUS
  <2>2. n - d \in T
    BY <2>1
  <2>3. k <= n - d
    BY <1>2, <2>2
  <2> QED BY <1>3, <2>1, <2>3
<1> QED BY <1>4

-----------------------------------------------------------------------------
(* Bars *)

\* Bars are held of finitely many days, none of them later than a given one.
LEMMA BarsFinite ==
  ASSUME NEW X \in SUBSET Nat, NEW n \in Nat, \A d \in X : d <= n
  PROVE  /\ IsFiniteSet(X) /\ Cardinality(X) \in Nat
         /\ \A Y \in SUBSET X : IsFiniteSet(Y) /\ Cardinality(Y) \in Nat /\ Cardinality(Y) <= Cardinality(X)
<1>1. IsFiniteSet(X)
  BY FS_BoundedSetOfNaturals
<1>2. ASSUME NEW Y \in SUBSET X
      PROVE  IsFiniteSet(Y) /\ Cardinality(Y) \in Nat /\ Cardinality(Y) <= Cardinality(X)
  BY <1>1, FS_Subset, FS_CardinalityType
<1> QED BY <1>1, <1>2, FS_CardinalityType

\* What is kept of some bars goes on to the newest of them.
LEMMA LatestUpward ==
  ASSUME NEW X \in SUBSET Nat, NEW n \in Nat, \A d \in X : d <= n,
         NEW d \in Latest(X), NEW f \in X, f >= d
  PROVE  f \in Latest(X)
<1> DEFINE A == {e \in X : e > d}
           B == {e \in X : e > f}
<1>0. d \in X /\ d \in Nat /\ f \in Nat
  BY DEF Latest
<1>1. B \in SUBSET A /\ A \in SUBSET X
  <2>1. ASSUME NEW e \in X, e > f PROVE e > d
    <3>1. e \in Nat
      OBVIOUS
    <3> QED BY <1>0, <2>1, <3>1
  <2> QED BY <2>1
<1>2. Cardinality(A) < Target /\ Target \in Nat
  BY MarketConstantsOK DEF Latest
<1>3. IsFiniteSet(A)
  <2> HIDE DEF A
  <2> QED BY <1>1, BarsFinite
<1>4. Cardinality(B) <= Cardinality(A) /\ Cardinality(A) \in Nat /\ Cardinality(B) \in Nat
  <2> HIDE DEF A, B
  <2> QED BY <1>1, <1>3, FS_Subset, FS_CardinalityType
<1>5. Cardinality(B) < Target
  BY <1>2, <1>4
<1> QED BY <1>5 DEF Latest

\* The newest bar is kept.
LEMMA LatestHasLast ==
  ASSUME NEW X \in SUBSET Nat, NEW z \in X, \A d \in X : d <= z
  PROVE  z \in Latest(X)
<1>1. {e \in X : e > z} = {}
  <2>1. \A d \in X : ~(d > z)
    <3> TAKE d \in X
    <3>1. d \in Nat /\ z \in Nat /\ d <= z
      OBVIOUS
    <3> QED BY <3>1
  <2> QED BY <2>1
<1>2. Cardinality({e \in X : e > z}) = 0
  <2>1. Cardinality({}) = 0
    BY FS_EmptySet
  <2> QED BY <1>1, <2>1, Zenon
<1> QED BY <1>2, MarketConstantsOK DEF Latest

\* No more bars are kept than are wanted.
LEMMA LatestFew ==
  ASSUME NEW X \in SUBSET Nat, NEW n \in Nat, \A d \in X : d <= n
  PROVE  /\ Latest(X) \in SUBSET X /\ IsFiniteSet(Latest(X))
         /\ Cardinality(Latest(X)) \in Nat /\ Cardinality(Latest(X)) <= Target
<1> DEFINE Y == Latest(X)
<1>1. Y \in SUBSET X
  BY DEF Latest
<1>2. IsFiniteSet(Y) /\ Cardinality(Y) \in Nat
  <2> HIDE DEF Y
  <2> QED BY <1>1, BarsFinite
<1>3. Target \in Nat /\ Target >= 1
  BY MarketConstantsOK
<1>4. Cardinality(Y) <= Target
  <2>1. CASE Y = {}
    <3>1. Cardinality({}) = 0
      BY FS_EmptySet
    <3>2. Cardinality(Y) = 0
      <4> HIDE DEF Y
      <4> QED BY <2>1, <3>1, Zenon
    <3> QED BY <1>3, <3>2
  <2>2. CASE Y # {}
    <3> DEFINE m == Min(Y)
    <3>1. m \in Y /\ \A x \in Y : m <= x
      <4> HIDE DEF Y
      <4>1. Y \in SUBSET Nat
        BY <1>1
      <4> QED BY <2>2, <4>1, LeastOf
    <3> HIDE DEF m
    <3> DEFINE A == {e \in X : e > m}
    <3>2. Cardinality(A) < Target
      BY <3>1 DEF Latest
    <3>3. A \in SUBSET X
      OBVIOUS
    <3>4. Y \in SUBSET (A \cup {m})
      <4>1. \A e \in Y : e \in X /\ e >= m /\ e \in Nat /\ m \in Nat
        BY <1>1, <3>1
      <4> HIDE DEF Y
      <4>2. \A e \in Y : e > m \/ e = m
        BY <4>1
      <4> QED BY <4>1, <4>2
    <3> HIDE DEF A, Y
    <3>5. IsFiniteSet(A) /\ Cardinality(A) \in Nat
      BY <3>3, BarsFinite
    <3>6. IsFiniteSet(A \cup {m}) /\ Cardinality(A \cup {m}) <= Cardinality(A) + 1
      BY <3>5, FS_AddElement
    <3>7. Cardinality(Y) <= Cardinality(A \cup {m}) /\ Cardinality(A \cup {m}) \in Nat
      BY <3>4, <3>6, FS_Subset, FS_CardinalityType
    <3> QED BY <1>2, <1>3, <3>2, <3>5, <3>6, <3>7
  <2> QED BY <2>1, <2>2
<1> QED BY <1>1, <1>2, <1>4

\* Fewer bars than are wanted are all there are.
LEMMA NothingCut ==
  ASSUME NEW X \in SUBSET Nat, NEW n \in Nat, \A d \in X : d <= n,
         ~Enough(Latest(X))
  PROVE  Latest(X) = X
<1> DEFINE Y == Latest(X)
           Cut == X \ Y
<1>1. /\ Y \in SUBSET X /\ Cut \in SUBSET X /\ IsFiniteSet(Y) /\ Cardinality(Y) \in Nat
  BY LatestFew
<1>2. Cardinality(Y) < Target /\ Target \in Nat
  BY <1>1, MarketConstantsOK DEF Enough
<1>3. ASSUME Cut # {} PROVE FALSE
  <2>1. PICK z \in Cut : \A d \in Cut : d <= z
    <3> HIDE DEF Cut
    <3>1. Cut \in SUBSET Nat /\ \A d \in Cut : d <= n
      BY <1>1
    <3> QED BY <1>3, <3>1, LastDay
  <2> DEFINE A == {e \in X : e > z}
  <2>2. A \in SUBSET Y
    <3>1. ASSUME NEW e \in A PROVE e \in Y
      <4>1. e \in X /\ e > z /\ e \in Nat /\ z \in Nat
        BY <1>1, <2>1
      <4>2. ~(e <= z)
        BY <4>1
      <4> QED BY <2>1, <4>1, <4>2
    <3> QED BY <3>1
  <2>3. ~(Cardinality(A) < Target)
    BY <2>1 DEF Latest
  <2> HIDE DEF A, Y
  <2>4. Cardinality(A) <= Cardinality(Y) /\ Cardinality(A) \in Nat
    BY <1>1, <2>2, FS_Subset, FS_CardinalityType
  <2> QED BY <1>1, <1>2, <2>3, <2>4
<1> QED BY <1>1, <1>3

LEMMA LatestConsecutive ==
  ASSUME NEW X \in SUBSET Nat, NEW n \in Nat, \A d \in X : d <= n, Consecutive(X)
  PROVE  Consecutive(Latest(X))
<1>1. Latest(X) \in SUBSET X
  BY DEF Latest
<1> SUFFICES ASSUME NEW d \in Latest(X), NEW e \in Latest(X), NEW f \in d..e
             PROVE  f \in Latest(X)
  BY DEF Consecutive
<1>2. d \in X /\ e \in X /\ d \in Nat /\ e \in Nat
  BY <1>1
<1>3. f \in X /\ f >= d
  BY <1>2 DEF Consecutive
<1> QED BY <1>3, LatestUpward

\* Bars and a page that reaches them are of consecutive days together.
LEMMA JoinConsecutive ==
  ASSUME NEW X \in SUBSET Nat, Consecutive(X), NEW c \in Nat, NEW m \in Int,
         X = {} \/ \E w \in X : c <= w + 1 /\ w <= m + 1
  PROVE  Consecutive(X \cup (c..m))
<1> SUFFICES ASSUME NEW d \in X \cup (c..m), NEW e \in X \cup (c..m), NEW f \in d..e
             PROVE  f \in X \cup (c..m)
  BY DEF Consecutive
<1>1. d \in Int /\ e \in Int /\ f \in Int /\ d <= f /\ f <= e
  OBVIOUS
<1>2. CASE X = {}
  BY <1>1, <1>2
<1>3. CASE X # {}
  <2>1. PICK w \in X : c <= w + 1 /\ w <= m + 1
    BY <1>3
  <2>2. w \in Int
    OBVIOUS
  <2>3. CASE c <= f /\ f <= m
    BY <1>1, <2>3
  <2>4. CASE f < c
    <3>1. d \in X /\ f \in d..w
      BY <1>1, <2>1, <2>2, <2>4
    <3> QED BY <3>1 DEF Consecutive
  <2>5. CASE f > m
    <3>1. e \in X /\ f \in w..e
      BY <1>1, <2>1, <2>2, <2>5
    <3> QED BY <3>1 DEF Consecutive
  <2> QED BY <1>1, <2>3, <2>4, <2>5
<1> QED BY <1>2, <1>3

-----------------------------------------------------------------------------
(* Pages *)

\* A page goes up to the cursor, or to today, and has PageSize bars or reaches
\* the first bar of all.
LEMMA ServedPage ==
  ASSUME NEW s \in Symbols, NEW before \in OrNone(Nat), clock \in Nat,
         before # None => Listed[s] < before /\ before <= today
  PROVE  \/ before = None /\ Served(s, before) = {} /\ today < Listed[s]
         \/ \E c \in Nat, m \in Nat :
              /\ m = IF before = None THEN today ELSE before - 1
              /\ Listed[s] <= c /\ c <= m
              /\ c = Listed[s] \/ c = m + 1 - PageSize
              /\ Served(s, before) = c..m
              /\ Cursors(s, before) = IF c > Listed[s] THEN {c} ELSE {None, before}
<1> DEFINE L == Listed[s]
           m == IF before = None THEN today ELSE before - 1
           all == {d \in L..today : before # None => d < before}
           c == IF L >= m + 1 - PageSize THEN L ELSE m + 1 - PageSize
<1>1. L \in Nat /\ today \in Nat /\ PageSize \in Nat /\ PageSize >= 1
  BY MarketConstantsOK, DayMonotone DEF today
<1>2. before # None => before \in Nat
  BY DEF OrNone
<1>3. m \in Int /\ m <= today /\ (before # None => m \in Nat /\ L <= m)
  BY <1>1, <1>2
<1>4. all = L..m
  <2> SUFFICES ASSUME NEW d \in Int PROVE d \in all <=> d \in L..m
    BY <1>1, <1>3
  <2> QED BY <1>1, <1>2, <1>3
<1> HIDE DEF L, m, all
<1>5. Served(s, before) = {d \in all : Cardinality({e \in all : e > d}) < PageSize}
  BY DEF Served, all, L
<1>6. ASSUME NEW d \in L..m PROVE Cardinality({e \in L..m : e > d}) = m - d
  <2>1. {e \in L..m : e > d} = (d + 1)..m
    BY <1>1, <1>3
  <2>2. Cardinality((d + 1)..m) = IF d + 1 > m THEN 0 ELSE m - (d + 1) + 1
    BY <1>1, <1>3, FS_Interval
  <2>3. Cardinality({e \in L..m : e > d}) = Cardinality((d + 1)..m)
    BY <2>1, Zenon
  <2>4. d \in Int /\ d <= m /\ m \in Int
    BY <1>1, <1>3
  <2>5. Cardinality((d + 1)..m) = m - d
    BY <2>2, <2>4
  <2> QED BY <2>3, <2>5, Zenon
<1>7. Served(s, before) = {d \in L..m : m - d < PageSize}
  <2>1. Served(s, before) = {d \in L..m : Cardinality({e \in L..m : e > d}) < PageSize}
    BY <1>4, <1>5
  <2> QED BY <1>6, <2>1
<1>8. CASE L > m
  <2>1. before = None /\ today < L
    BY <1>1, <1>3, <1>8 DEF m
  <2>2. L..m = {}
    BY <1>1, <1>3, <1>8
  <2> QED BY <1>7, <2>1, <2>2 DEF L
<1>9. CASE L <= m
  <2>1. c \in Nat /\ m \in Nat /\ L <= c /\ c <= m /\ (c = L \/ c = m + 1 - PageSize)
    BY <1>1, <1>3, <1>9
  <2>2. \A d \in Int : d \in L..m /\ m - d < PageSize <=> d \in c..m
    BY <1>1, <1>3, <1>9
  <2> HIDE DEF c
  <2>3. Served(s, before) = c..m
    BY <1>1, <1>3, <1>7, <2>1, <2>2
  <2>4. c..m # {} /\ Min(c..m) = c
    <3>1. c..m \in SUBSET Nat /\ c \in c..m
      BY <2>1
    <3>2. Min(c..m) \in c..m /\ \A x \in c..m : Min(c..m) <= x
      <4>1. c..m # {}
        BY <3>1
      <4> QED BY <3>1, <4>1, LeastOf
    <3>3. Min(c..m) <= c /\ c <= Min(c..m) /\ Min(c..m) \in Nat
      BY <2>1, <3>1, <3>2
    <3> QED BY <2>1, <3>1, <3>3
  <2>5. Cursors(s, before) = IF c > L THEN {c} ELSE {None, before}
    BY <2>3, <2>4 DEF Cursors, L
  <2> QED BY <2>1, <2>3, <2>5 DEF L, m
<1> QED BY <1>1, <1>3, <1>8, <1>9

\* Bars of a symbol, all of them of days before a given one, and of consecutive
\* days if pages have joined them.
BarsOf(s, bars, day, joined) ==
  /\ bars \in SUBSET Nat
  /\ \A d \in bars : d < day /\ Listed[s] <= d
  /\ joined => Consecutive(bars)

\* The next page ends where the bars so far begin.
Reached(bars, before, joined) == bars # {} /\ joined => before \in bars \/ before - 1 \in bars

\* A snapshot at some time, and a fetch on some day.
EntryOK(s, entry, now, joined) ==
  entry.at \in Nat /\ entry.at <= now /\ BarsOf(s, entry.bars, entry.at \div DayLength, joined)

FetchOK(s, f, day, joined) ==
  /\ BarsOf(s, f.bars, day, joined) /\ Cardinality(f.bars) <= Target
  /\ f.before \in OrNone(Nat)
  /\ f.before # None =>
       /\ Listed[s] < f.before /\ f.before <= day
       /\ f.before \in f.cursors /\ Reached(f.bars, f.before, joined)

\* The cache has the snapshots that this iteration read or wrote.
BarsInv ==
  /\ \A s \in DOMAIN store : EntryOK(s, store[s], clock, Joined(s))
  /\ \A s \in DOMAIN cache : s \in DOMAIN store /\ cache[s] = Entry(store[s])
  /\ IF job = "page" THEN todo # {} /\ FetchOK(This, fetch, today, Joined(This)) ELSE fetch = NoFetch

LEMMA Today ==
  ASSUME clock \in Nat
  PROVE  today \in Nat
  BY DayMonotone DEF today

LEMMA LatestBars ==
  ASSUME NEW s \in Symbols, NEW X, NEW day \in Nat, NEW joined \in BOOLEAN, BarsOf(s, X, day, joined)
  PROVE  BarsOf(s, Latest(X), day, joined) /\ Cardinality(Latest(X)) <= Target
<1>1. X \in SUBSET Nat /\ \A d \in X : d <= day
  BY DEF BarsOf
<1>2. Latest(X) \in SUBSET X /\ Cardinality(Latest(X)) <= Target
  BY <1>1, LatestFew
<1>3. joined => Consecutive(Latest(X))
  BY <1>1, LatestConsecutive DEF BarsOf
<1> QED BY <1>1, <1>2, <1>3 DEF BarsOf

\* A first page with more bars than are wanted leaves no older ones.
LEMMA PageFills ==
  ASSUME NEW A \in SUBSET Nat, NEW c \in Nat, NEW q \in Int, \A d \in A : d <= q,
         Target <= q + 1 - c
  PROVE  Consecutive(Latest(A \cup (c..q)))
<1> DEFINE X == A \cup (c..q)
<1>1. Target \in Nat /\ Target >= 1
  BY MarketConstantsOK
<1>2. q \in Nat /\ X \in SUBSET Nat /\ \A d \in X : d <= q
  BY <1>1
<1>3. ASSUME NEW d \in Latest(X) PROVE d >= c
  <2> SUFFICES ASSUME d < c PROVE FALSE
    BY <1>2, <1>3 DEF Latest
  <2> DEFINE G == {e \in X : e > d}
  <2>1. Cardinality(G) < Target /\ d \in Nat
    BY <1>2 DEF Latest
  <2>2. c..q \in SUBSET G
    BY <2>1
  <2>3. G \in SUBSET X
    OBVIOUS
  <2> HIDE DEF G, X
  <2>4. IsFiniteSet(G) /\ Cardinality(G) \in Nat
    BY <1>2, <2>3, BarsFinite
  <2>5. Cardinality(c..q) <= Cardinality(G)
    BY <2>2, <2>4, FS_Subset
  <2>6. Cardinality(c..q) = q - c + 1
    BY <1>1, FS_Interval
  <2> QED BY <1>1, <2>1, <2>4, <2>5, <2>6
<1>4. Latest(X) \in SUBSET X
  BY DEF Latest
<1> SUFFICES ASSUME NEW d \in Latest(X), NEW e \in Latest(X), NEW f \in d..e
             PROVE  f \in Latest(X)
  BY DEF Consecutive
<1>5. d >= c /\ d \in Nat /\ e \in Nat /\ e <= q
  BY <1>2, <1>3, <1>4
<1>6. f \in X /\ f >= d
  BY <1>5
<1> HIDE DEF X
<1> QED BY <1>2, <1>6, LatestUpward

\* The bars of a page, and where its cursor leads: they are joined if those
\* before were, and the first page alone fills up what is wanted or reaches them.
LEMMA PageMerged ==
  ASSUME NEW s \in Symbols, NEW joined \in BOOLEAN, NEW still \in BOOLEAN,
         FetchOK(s, fetch, today, joined), clock \in Nat,
         still => joined /\ (Target < PageSize \/ ~FallsShort(s)),
         NEW next \in Cursors(s, fetch.before), NEW bars,
         bars = Latest(fetch.bars \cup Completed(Served(s, fetch.before)))
  PROVE  /\ BarsOf(s, bars, today, still) /\ Cardinality(bars) <= Target
         /\ ~LastPage(bars, next) =>
              next \in Nat /\ Listed[s] < next /\ next <= today /\ Reached(bars, next, still)
<1> DEFINE A == fetch.bars
           before == fetch.before
           X == A \cup Completed(Served(s, before))
<1>1. today \in Nat
  BY Today
<1>2. /\ BarsOf(s, A, today, joined) /\ before \in OrNone(Nat)
      /\ before # None =>
           Listed[s] < before /\ before <= today /\ before \in fetch.cursors /\ Reached(A, before, joined)
  BY DEF FetchOK
<1>3. Listed[s] \in Nat /\ PageSize \in Nat /\ PageSize >= 1 /\ Target \in Nat /\ Target >= 1
  BY MarketConstantsOK
<1>4. bars = Latest(X)
  OBVIOUS
<1>5. CASE before = None /\ Served(s, before) = {} /\ today < Listed[s]
  <2>1. X = A
    BY <1>5 DEF Completed
  <2>2. BarsOf(s, bars, today, still) /\ Cardinality(bars) <= Target
    <3>1. BarsOf(s, A, today, still)
      BY <1>2 DEF BarsOf
    <3> QED BY <1>1, <1>4, <2>1, <3>1, LatestBars
  <2>3. next = None
    BY <1>5 DEF Cursors
  <2> QED BY <2>2, <2>3 DEF LastPage
<1>6. ASSUME NEW c \in Nat, NEW m \in Nat,
             m = IF before = None THEN today ELSE before - 1,
             Listed[s] <= c, c <= m, c = Listed[s] \/ c = m + 1 - PageSize,
             Served(s, before) = c..m,
             Cursors(s, before) = IF c > Listed[s] THEN {c} ELSE {None, before}
      PROVE  /\ BarsOf(s, bars, today, still) /\ Cardinality(bars) <= Target
             /\ ~LastPage(bars, next) =>
                  next \in Nat /\ Listed[s] < next /\ next <= today /\ Reached(bars, next, still)
  <2> DEFINE q == IF before = None THEN today - 1 ELSE m
  <2>1. q \in Int /\ q < today /\ (q = m \/ (before = None /\ q = m - 1))
    BY <1>1, <1>2, <1>6 DEF OrNone
  <2>2. Completed(Served(s, before)) = c..q
    <3>1. \A d \in Int : d \in c..m /\ d < today <=> d \in c..q
      BY <1>1, <1>2, <1>6 DEF OrNone
    <3> HIDE DEF q
    <3>2. Completed(c..m) = {d \in c..m : d < today}
      BY DEF Completed
    <3>3. c..m \in SUBSET Int /\ c..q \in SUBSET Int
      OBVIOUS
    <3>4. Completed(c..m) = c..q
      BY <3>1, <3>2, <3>3
    <3> QED BY <1>6, <3>4
  <2>3. X = A \cup (c..q)
    BY <2>2
  <2>4. A \in SUBSET Nat /\ \A d \in A : d \in Nat /\ d < today /\ Listed[s] <= d
    BY <1>2 DEF BarsOf
  <2> HIDE DEF X, A
  <2>5. X \in SUBSET Nat /\ \A d \in X : d \in Nat /\ d < today /\ d <= today /\ Listed[s] <= d
    <3>1. ASSUME NEW d \in c..q PROVE d \in Nat /\ d < today /\ Listed[s] <= d
      <4>1. c <= d /\ d <= q /\ d \in Int /\ q \in Int
        BY <2>1
      <4> QED BY <1>1, <1>3, <1>6, <2>1, <4>1
    <3>2. \A d \in X : d \in Nat /\ d < today /\ Listed[s] <= d
      BY <2>3, <2>4, <3>1
    <3> QED BY <1>1, <3>2
  <2>6. ASSUME still, A # {}, before = None, ~FallsShort(s)
        PROVE  \E w \in A : c <= w + 1 /\ w < today
    <3>1. Served(s, None) = c..m /\ Served(s, None) # {}
      <4>1. Served(s, None) = c..m
        BY <1>6, <2>6
      <4>2. c \in c..m
        BY <1>6
      <4> QED BY <4>1, <4>2
    <3>2. Min(c..m) = c
      <4>1. c..m \in SUBSET Nat /\ c..m # {} /\ c \in c..m
        BY <1>6
      <4>2. Min(c..m) \in c..m /\ Min(c..m) <= c
        BY <4>1, LeastOf
      <4> QED BY <1>6, <4>2
    <3>3. PICK z \in A : \A d \in A : d <= z
      <4>1. \A d \in A : d <= today
        BY <1>1, <2>4
      <4> QED BY <1>1, <2>4, <2>6, <4>1, LastDay
    <3>4. Max(A) \in A
      BY <3>3 DEF Max
    <3>5. ~(Max(A) + 1 < c)
      BY <2>6, <3>1, <3>2 DEF FallsShort, A
    <3>6. Max(A) \in Nat /\ Max(A) < today
      BY <2>4, <3>4
    <3> HIDE DEF q
    <3>7. c <= Max(A) + 1
      BY <3>5, <3>6
    <3> QED BY <3>4, <3>6, <3>7
  <2>7. ASSUME still PROVE Consecutive(bars)
    <3>1. Consecutive(A)
      BY <1>2, <2>7 DEF BarsOf
    <3>2. ASSUME A = {} \/ \E w \in A : c <= w + 1 /\ w <= q + 1 PROVE Consecutive(bars)
      <4>1. Consecutive(X)
        BY <2>1, <2>3, <2>4, <3>1, <3>2, JoinConsecutive
      <4>2. \A d \in X : d <= today
        BY <2>5
      <4> QED BY <1>1, <1>4, <2>5, <4>1, <4>2, LatestConsecutive
    <3>3. CASE A = {}
      BY <3>2, <3>3
    <3>4. CASE A # {} /\ before # None
      <4>1. PICK w \in A : w = before \/ w = before - 1
        BY <1>2, <2>7, <3>4 DEF Reached
      <4>2. c <= w + 1 /\ w <= q + 1
        BY <1>6, <2>1, <2>4, <3>4, <4>1
      <4> QED BY <3>2, <4>2
    <3>5. CASE A # {} /\ before = None /\ ~FallsShort(s)
      <4>1. PICK w \in A : c <= w + 1 /\ w < today
        BY <2>6, <2>7, <3>5
      <4>2. w <= q + 1
        BY <1>1, <2>4, <3>5, <4>1
      <4> QED BY <3>2, <4>1, <4>2
    <3>6. CASE A # {} /\ before = None /\ c = Listed[s]
      <4>1. PICK w \in A : TRUE
        BY <3>6
      <4>2. w \in Nat /\ Listed[s] <= w /\ w < today
        BY <2>4
      <4>3. c <= w + 1 /\ w <= q + 1
        BY <1>1, <1>3, <3>6, <4>2
      <4> QED BY <3>2, <4>3
    <3>7. CASE before = None /\ c # Listed[s] /\ Target < PageSize
      <4>1. Target <= q + 1 - c
        BY <1>1, <1>3, <1>6, <2>1, <3>7
      <4>2. \A d \in A : d <= q
        BY <1>1, <2>4, <3>7
      <4> HIDE DEF q
      <4> QED BY <1>4, <2>1, <2>3, <2>4, <4>1, <4>2, PageFills
    <3> QED BY <2>7, <3>3, <3>4, <3>5, <3>6, <3>7
  <2>8. BarsOf(s, bars, today, still) /\ Cardinality(bars) <= Target
    <3>1. \A d \in X : d <= today
      BY <2>5
    <3>2. bars \in SUBSET X /\ Cardinality(bars) <= Target
      BY <1>1, <1>4, <2>5, <3>1, LatestFew
    <3> QED BY <2>5, <2>7, <3>2 DEF BarsOf
  <2>9. ASSUME ~LastPage(bars, next)
        PROVE  next \in Nat /\ Listed[s] < next /\ next <= today /\ Reached(bars, next, still)
    <3>1. next # None /\ next \notin fetch.cursors /\ ~Enough(bars)
      BY <2>9 DEF LastPage
    <3>2. c > Listed[s] /\ next = c
      BY <1>2, <1>3, <1>6, <3>1
    <3>3. bars = X
      <4>1. \A d \in X : d <= today
        BY <2>5
      <4> QED BY <1>1, <1>4, <2>5, <3>1, <4>1, NothingCut
    <3>4. c <= today
      BY <1>1, <1>2, <1>6 DEF OrNone
    <3>5. Reached(X, c, still)
      <4>1. CASE c <= q
        <5>1. c \in X
          BY <2>1, <2>3, <4>1
        <5> QED BY <5>1 DEF Reached
      <4>2. CASE c > q
        <5>1. before = None /\ m = today /\ c = today /\ q = today - 1
          BY <1>1, <1>6, <2>1, <4>2
        <5>2. PageSize = 1
          BY <1>1, <1>3, <1>6, <3>2, <5>1
        <5>3. X = A
          BY <1>1, <2>3, <5>1
        <5>4. ASSUME A # {}, still PROVE c - 1 \in A
          <6>1. ~FallsShort(s)
            BY <1>3, <5>2, <5>4
          <6>2. PICK w \in A : c <= w + 1 /\ w < today
            BY <2>6, <5>1, <5>4, <6>1
          <6>3. w \in Nat /\ w = c - 1
            BY <1>1, <2>4, <5>1, <6>2
          <6> QED BY <6>3
        <5> QED BY <1>1, <5>1, <5>3, <5>4 DEF Reached
      <4> QED BY <1>6, <2>1, <4>1, <4>2
    <3> QED BY <3>2, <3>3, <3>4, <3>5
  <2> QED BY <2>8, <2>9
<1>7. before # None => Listed[s] < before /\ before <= today
  BY <1>2
<1> HIDE DEF X, A, before
<1> QED BY <1>2, <1>5, <1>6, <1>7, ServedPage DEF before

-----------------------------------------------------------------------------
(* Snapshots, cache and fetches *)

\* Bars of before one day are bars of before a later one.
LEMMA LaterDay ==
  ASSUME NEW s, NEW bars, NEW a \in Nat, NEW b \in Nat, a <= b,
         NEW joined \in BOOLEAN, NEW still \in BOOLEAN, still => joined,
         BarsOf(s, bars, a, joined)
  PROVE  BarsOf(s, bars, b, still)
<1>1. \A d \in bars : d \in Nat /\ d < a
  BY DEF BarsOf
<1>2. \A d \in bars : d < b
  BY <1>1
<1> QED BY <1>2 DEF BarsOf

LEMMA EntryLater ==
  ASSUME NEW now \in Nat, NEW later \in Nat, now <= later,
         NEW joined \in BOOLEAN, NEW still \in BOOLEAN, still => joined
  PROVE  \A s, entry : EntryOK(s, entry, now, joined) => EntryOK(s, entry, later, still)
  BY DEF EntryOK, BarsOf

LEMMA FetchLater ==
  ASSUME NEW s, NEW f, NEW day \in Nat, NEW later \in Nat, day <= later,
         NEW joined \in BOOLEAN, NEW still \in BOOLEAN, still => joined,
         FetchOK(s, f, day, joined)
  PROVE  FetchOK(s, f, later, still)
<1>1. BarsOf(s, f.bars, later, still)
  BY LaterDay DEF FetchOK
<1>2. f.before # None => f.before <= later /\ Reached(f.bars, f.before, still)
  BY DEF FetchOK, OrNone, Reached
<1> QED BY <1>1, <1>2 DEF FetchOK

LEMMA JoinedBefore ==
  ASSUME late \subseteq late'
  PROVE  \A s : Joined(s) \in BOOLEAN /\ Joined(s)' \in BOOLEAN /\ (Joined(s)' => Joined(s))
  BY DEF Joined

\* What is held stays as it is while time passes.
LEMMA HeldKept ==
  ASSUME BarsInv, clock \in Nat, clock' \in Nat, clock <= clock', store' = store,
         cache' = cache \/ DOMAIN cache' = {}, late' = late,
         UNCHANGED <<fetch, job, todo>> \/ (job' # "page" /\ fetch' = NoFetch)
  PROVE  BarsInv'
<1>1. \A s \in DOMAIN store' : EntryOK(s, store'[s], clock', Joined(s)')
  <2> TAKE s \in DOMAIN store'
  <2>1. EntryOK(s, store[s], clock, Joined(s))
    BY DEF BarsInv
  <2>2. Joined(s) \in BOOLEAN /\ Joined(s)' \in BOOLEAN /\ (Joined(s)' => Joined(s))
    BY JoinedBefore
  <2> QED BY <2>1, <2>2, EntryLater
<1>2. \A s \in DOMAIN cache' : s \in DOMAIN store' /\ cache'[s] = Entry(store'[s])
  BY DEF BarsInv
<1>3. CASE job' # "page" /\ fetch' = NoFetch
  BY <1>1, <1>2, <1>3 DEF BarsInv
<1>4. CASE UNCHANGED <<fetch, job, todo>>
  <2>1. CASE job = "page"
    <3>1. todo # {} /\ FetchOK(This, fetch, today, Joined(This)) /\ This' = This
      BY <1>4, <2>1 DEF BarsInv, This
    <3>2. today <= today' /\ today \in Nat /\ today' \in Nat
      BY DayMonotone DEF today
    <3>3. FetchOK(This', fetch, today', Joined(This)')
      <4>1. Joined(This) \in BOOLEAN /\ Joined(This)' \in BOOLEAN /\ (Joined(This)' => Joined(This))
        BY <3>1 DEF Joined
      <4> QED BY <3>1, <3>2, <4>1, FetchLater
    <3> QED BY <1>1, <1>2, <1>4, <2>1, <3>1, <3>3 DEF BarsInv
  <2>2. CASE job # "page"
    BY <1>1, <1>2, <1>4, <2>2 DEF BarsInv
  <2> QED BY <2>1, <2>2
<1> QED BY <1>3, <1>4

LEMMA StartNoPage == \A r, S : Start(r, S) => job' # "page"
  BY DEF Start

LEMMA DeliverNoPage == \A bars : Deliver(bars) => job' # "page" /\ fetch' = NoFetch
  BY StartNoPage DEF Deliver, NextSymbol

LEMMA RefusedNoPage == \A status : Refused(status) => job' # "page" /\ fetch' = NoFetch
  BY StartNoPage DEF Refused, NextSymbol

LEMMA EndNoPage == EndIteration => job' # "page" /\ fetch' = NoFetch /\ DOMAIN cache' = {}
  BY StartNoPage DEF EndIteration

LEMMA RereadKept ==
  ASSUME BarsInv, store' = store, NEW s \in DOMAIN store, Reread(s)
  PROVE  \A t \in DOMAIN cache' : t \in DOMAIN store' /\ cache'[t] = Entry(store'[t])
<1> SUFFICES ASSUME NEW t \in DOMAIN cache' PROVE t \in DOMAIN store /\ cache'[t] = Entry(store[t])
  OBVIOUS
<1>1. t \in DOMAIN cache \cup {s} /\ cache'[t] = IF t = s THEN Entry(store[s]) ELSE cache[t]
  BY DEF Reread, With
<1> QED BY <1>1 DEF BarsInv

LEMMA CaptureKept ==
  ASSUME BarsInv, clock' = clock, clock \in Nat, late \subseteq late', NEW s, NEW bars, NEW more,
         BarsOf(s, bars, today, Joined(s)'), Capture(s, bars, more)
  PROVE  BarsInv'
<1> DEFINE stored == [bars |-> bars, at |-> clock, more |-> more]
           cached == [bars |-> bars, at |-> clock]
<1>1. store' = With(store, s, stored) /\ cache' = With(cache, s, cached)
  BY DEF Capture
<1>2. EntryOK(s, stored, clock, Joined(s)') /\ cached = Entry(stored)
  BY DEF EntryOK, Entry, today
<1> HIDE DEF stored, cached
<1>3. ASSUME NEW t \in DOMAIN store' PROVE EntryOK(t, store'[t], clock', Joined(t)')
  <2>1. t \in DOMAIN store \cup {s} /\ store'[t] = IF t = s THEN stored ELSE store[t]
    BY <1>1, <1>3 DEF With
  <2>2. CASE t = s
    BY <1>2, <2>1, <2>2
  <2>3. CASE t # s
    <3>1. EntryOK(t, store[t], clock, Joined(t))
      BY <2>1, <2>3 DEF BarsInv
    <3>2. Joined(t) \in BOOLEAN /\ Joined(t)' \in BOOLEAN /\ (Joined(t)' => Joined(t))
      BY JoinedBefore
    <3> QED BY <2>1, <2>3, <3>1, <3>2, EntryLater
  <2> QED BY <2>2, <2>3
<1>4. ASSUME NEW t \in DOMAIN cache' PROVE t \in DOMAIN store' /\ cache'[t] = Entry(store'[t])
  <2>1. t \in DOMAIN cache \cup {s} /\ cache'[t] = IF t = s THEN cached ELSE cache[t]
    BY <1>1, <1>4 DEF With
  <2>2. CASE t = s
    BY <1>1, <1>2, <2>1, <2>2 DEF With
  <2>3. CASE t # s
    <3>1. t \in DOMAIN store /\ cache[t] = Entry(store[t])
      BY <2>1, <2>3 DEF BarsInv
    <3> QED BY <1>1, <2>1, <2>3, <3>1 DEF With
  <2> QED BY <2>2, <2>3
<1>5. job' # "page" /\ fetch' = NoFetch
  BY DeliverNoPage DEF Capture
<1> QED BY <1>3, <1>4, <1>5 DEF BarsInv

\* A fetch starts with the bars of the cache, which are those of the snapshot.
LEMMA SeedOK ==
  ASSUME BarsInv, clock \in Nat, NEW s \in Symbols
  PROVE  LET seed == Latest(Cached(s) \cup IF Stored(s) THEN store[s].bars ELSE {})
         IN BarsOf(s, seed, today, Joined(s)) /\ Cardinality(seed) <= Target
<1> DEFINE X == Cached(s) \cup IF Stored(s) THEN store[s].bars ELSE {}
<1>1. today \in Nat /\ Joined(s) \in BOOLEAN
  BY Today DEF Joined
<1>2. X = {} \/ (s \in DOMAIN store /\ X = store[s].bars)
  BY DEF Cached, Stored, BarsInv, Entry
<1> HIDE DEF X
<1>3. BarsOf(s, X, today, Joined(s))
  <2>1. CASE X = {}
    BY <2>1 DEF BarsOf, Consecutive
  <2>2. CASE s \in DOMAIN store /\ X = store[s].bars
    <3>1. /\ store[s].at \in Nat /\ store[s].at <= clock
          /\ BarsOf(s, X, store[s].at \div DayLength, Joined(s))
      BY <2>2 DEF BarsInv, EntryOK
    <3>2. store[s].at \div DayLength \in Nat /\ store[s].at \div DayLength <= today
      BY <3>1, DayMonotone DEF today
    <3> QED BY <1>1, <3>1, <3>2, LaterDay
  <2> QED BY <1>2, <2>1, <2>2
<1>4. BarsOf(s, Latest(X), today, Joined(s)) /\ Cardinality(Latest(X)) <= Target
  BY <1>1, <1>3, LatestBars
<1> QED BY <1>4 DEF X

LEMMA BarsFetched ==
  ASSUME BarsInv, RoundInv, ReadOK, NEW s \in Symbols,
         FromCache(s) \/ FromStore(s) \/ BeginFetch(s) \/ OnPage(s) \/ OnPageRefused(s)
  PROVE  BarsInv'
<1>1. clock' = clock /\ clock \in Nat
  BY DEF FromCache, FromStore, BeginFetch, OnPage, OnPageRefused, readVars, ReadOK
<1>2. clock <= clock'
  BY <1>1
<1>3. CASE FromCache(s)
  BY <1>1, <1>2, <1>3, DeliverNoPage, HeldKept DEF FromCache, pages
<1>4. ASSUME s \in DOMAIN store, Reread(s), job' # "page", fetch' = NoFetch, store' = store, late' = late
      PROVE  BarsInv'
  <2>1. \A t \in DOMAIN store' : EntryOK(t, store'[t], clock', Joined(t)')
    BY <1>1, <1>4 DEF BarsInv, Joined
  <2> QED BY <1>4, <2>1, RereadKept DEF BarsInv
<1>5. CASE FromStore(s)
  BY <1>4, <1>5, DeliverNoPage DEF FromStore, InStore, Stored, pages
<1>6. CASE BeginFetch(s)
  <2> DEFINE seed == Latest(Cached(s) \cup IF Stored(s) THEN store[s].bars ELSE {})
  <2>1. BarsOf(s, seed, today, Joined(s)) /\ Cardinality(seed) <= Target
    BY <1>1, SeedOK
  <2>2. \/ Capture(s, seed, FALSE)
        \/ /\ IF Stored(s) THEN Reread(s) ELSE UNCHANGED cache
           /\ fetch' = [NoFetch EXCEPT !.bars = seed] /\ job' = "page"
           /\ UNCHANGED <<store, exhausted, round, open, todo, selected>>
    BY <1>6 DEF BeginFetch
  <2> HIDE DEF seed
  <2>5. late' = late /\ \A t : Joined(t)' = Joined(t)
    BY <1>6 DEF BeginFetch, pages, Joined
  <2>3. CASE Capture(s, seed, FALSE)
    BY <1>1, <2>1, <2>3, <2>5, CaptureKept
  <2>4. CASE /\ IF Stored(s) THEN Reread(s) ELSE UNCHANGED cache
             /\ fetch' = [NoFetch EXCEPT !.bars = seed] /\ job' = "page"
             /\ UNCHANGED <<store, exhausted, round, open, todo, selected>>
    <3>1. \A t \in DOMAIN cache' : t \in DOMAIN store' /\ cache'[t] = Entry(store'[t])
      <4>1. CASE Stored(s)
        BY <2>4, <4>1, RereadKept DEF Stored
      <4>2. CASE ~Stored(s)
        BY <2>4, <4>2 DEF BarsInv
      <4> QED BY <4>1, <4>2
    <3>2. s = This /\ todo # {} /\ This' = This /\ today' = today
      BY <1>1, <1>6, <2>4 DEF BeginFetch, Look, This, today
    <3>3. fetch'.bars = seed /\ fetch'.before = None
      BY <2>4 DEF NoFetch
    <3>4. FetchOK(s, fetch', today, Joined(s))
      BY <2>1, <3>3 DEF FetchOK, OrNone
    <3>5. \A t \in DOMAIN store' : EntryOK(t, store'[t], clock', Joined(t)')
      BY <1>1, <2>4, <2>5 DEF BarsInv
    <3>6. FetchOK(This', fetch', today', Joined(This)')
      BY <2>5, <3>2, <3>4 DEF Joined
    <3> QED BY <2>4, <3>1, <3>2, <3>5, <3>6 DEF BarsInv
  <2> QED BY <2>2, <2>3, <2>4
<1>7. CASE OnPage(s)
  <2>1. PICK next \in Cursors(s, fetch.before) :
          LET bars == Latest(fetch.bars \cup Completed(Served(s, fetch.before)))
          IN IF LastPage(bars, next) THEN Capture(s, bars, next # None)
             ELSE /\ fetch' = [bars |-> bars, before |-> next, tries |-> fetch.tries + 1,
                               cursors |-> fetch.cursors \cup {next}]
                  /\ UNCHANGED <<store, cache, exhausted, iteration>>
    BY <1>7 DEF OnPage
  <2> DEFINE bars == Latest(fetch.bars \cup Completed(Served(s, fetch.before)))
  <2>2. job = "page" /\ s = This /\ todo # {} /\ FetchOK(s, fetch, today, Joined(s))
    BY <1>7 DEF OnPage, BarsInv
  <2>7. late' = IF FallsShort(s) THEN late \cup {s} ELSE late
    BY <1>7 DEF OnPage
  <2>8. /\ late \subseteq late' /\ Joined(s) \in BOOLEAN /\ Joined(s)' \in BOOLEAN
        /\ Joined(s)' => Joined(s) /\ (Target < PageSize \/ ~FallsShort(s))
    BY <2>7 DEF Joined
  <2>3. /\ BarsOf(s, bars, today, Joined(s)') /\ Cardinality(bars) <= Target
        /\ ~LastPage(bars, next) =>
             next \in Nat /\ Listed[s] < next /\ next <= today /\ Reached(bars, next, Joined(s)')
    <3> HIDE DEF bars
    <3>1. bars = Latest(fetch.bars \cup Completed(Served(s, fetch.before)))
      BY DEF bars
    <3> QED BY <1>1, <2>2, <2>8, <3>1, PageMerged
  <2>4. IF LastPage(bars, next) THEN Capture(s, bars, next # None)
        ELSE /\ fetch' = [bars |-> bars, before |-> next, tries |-> fetch.tries + 1,
                          cursors |-> fetch.cursors \cup {next}]
             /\ UNCHANGED <<store, cache, exhausted, iteration>>
    BY <2>1
  <2> HIDE DEF bars
  <2>5. CASE LastPage(bars, next)
    BY <1>1, <2>3, <2>4, <2>5, <2>8, CaptureKept
  <2>6. CASE ~LastPage(bars, next)
    <3>1. FetchOK(s, fetch', today, Joined(s)')
      BY <2>3, <2>4, <2>6 DEF FetchOK, OrNone
    <3>2. This' = This /\ todo' = todo /\ job' = job /\ today' = today
      BY <1>1, <2>4, <2>6 DEF iteration, This, today
    <3>3. store' = store /\ cache' = cache
      BY <2>4, <2>6
    <3>4. ASSUME NEW t \in DOMAIN store' PROVE EntryOK(t, store'[t], clock', Joined(t)')
      <4>1. EntryOK(t, store[t], clock, Joined(t))
        BY <3>3, <3>4 DEF BarsInv
      <4>2. Joined(t) \in BOOLEAN /\ Joined(t)' \in BOOLEAN /\ (Joined(t)' => Joined(t))
        BY <2>8, JoinedBefore
      <4> QED BY <1>1, <3>3, <4>1, <4>2, EntryLater
    <3>5. FetchOK(This', fetch', today', Joined(This)')
      BY <2>2, <3>1, <3>2 DEF Joined
    <3> QED BY <2>2, <3>2, <3>3, <3>4, <3>5 DEF BarsInv
  <2> QED BY <2>5, <2>6
<1>8. CASE OnPageRefused(s)
  <2>1. store' = store /\ late' = late
    BY <1>8 DEF OnPageRefused, pages
  <2>2. CASE s \in DOMAIN store /\ Reread(s) /\ Deliver(Latest(store[s].bars))
    BY <1>4, <2>1, <2>2, DeliverNoPage
  <2>3. CASE UNCHANGED cache /\ Refused(wire.status)
    BY <1>1, <1>2, <2>1, <2>3, RefusedNoPage, HeldKept
  <2> QED BY <1>8, <2>2, <2>3 DEF OnPageRefused
<1> QED BY <1>3, <1>5, <1>6, <1>7, <1>8

LEMMA BarsPreserved == BarsInv /\ RoundInv /\ ReadOK /\ ReadOK' /\ [Next]_vars => BarsInv'
<1> SUFFICES ASSUME BarsInv, RoundInv, ReadOK, ReadOK', [Next]_vars PROVE BarsInv'
  OBVIOUS
<1>1. clock \in Nat /\ clock' \in Nat
  BY DEF ReadOK
<1>2. ASSUME store' = store, late' = late, clock <= clock', cache' = cache \/ DOMAIN cache' = {},
             UNCHANGED <<fetch, job, todo>> \/ (job' # "page" /\ fetch' = NoFetch)
      PROVE  BarsInv'
  BY <1>1, <1>2, HeldKept
<1>3. clock' = clock => clock <= clock'
  BY <1>1
<1>4. CASE Next
  <2>1. CASE Transport /\ UNCHANGED <<provider, iteration>>
    BY <1>2, <1>3, <2>1 DEF Transport, IssueToken, Send, provider, iteration, pages
  <2>2. CASE AskNext
    BY <1>2, <1>3, <2>2 DEF AskNext, provider, iteration, pages
  <2>3. CASE Tick /\ UNCHANGED <<provider, iteration>>
    <3>1. clock <= clock'
      BY <1>1, <2>3 DEF Tick
    <3> QED BY <1>2, <2>3, <3>1 DEF provider, iteration, pages
  <2>4. CASE Restart
    BY <1>2, <1>3, <2>4, EndNoPage DEF Restart, pages
  <2>5. CASE OnCalendar \/ OnStocks \/ OnWarnings \/ OnPrice
    <3>1. store' = store /\ clock' = clock /\ late' = late
      BY <2>5 DEF OnCalendar, OnStocks, OnWarnings, OnPrice, Reply, pages
    <3>2. job # "page"
      BY <2>5 DEF OnCalendar, OnStocks, OnWarnings, OnPrice, Reply, RoundInv, RoundOK
    <3>3. fetch = NoFetch
      BY <3>2 DEF BarsInv
    <3>4. CASE EndIteration
      BY <1>2, <1>3, <3>1, <3>4, EndNoPage
    <3>5. CASE Refused(wire.status) /\ UNCHANGED cache
      BY <1>2, <1>3, <3>1, <3>5, RefusedNoPage
    <3>6. CASE Goes /\ job' # "page"
      BY <1>2, <1>3, <3>1, <3>3, <3>6 DEF Goes
    <3> QED BY <2>5, <3>4, <3>5, <3>6, StartNoPage
            DEF OnCalendar, OnStocks, OnWarnings, OnPrice, Fails, AfterCalendar, NextSymbol
  <2>6. CASE EndRound
    <3>1. store' = store /\ clock' = clock /\ late' = late
      BY <2>6 DEF EndRound, pages
    <3>2. CASE EndIteration
      BY <1>2, <1>3, <3>1, <3>2, EndNoPage
    <3>3. CASE job' # "page" /\ UNCHANGED <<cache, fetch>>
      <4>1. fetch = NoFetch
        BY <2>6 DEF EndRound, BarsInv
      <4> QED BY <1>2, <1>3, <3>1, <3>3, <4>1
    <3> QED BY <2>6, <3>2, <3>3, StartNoPage DEF EndRound
  <2>7. ASSUME NEW s \in Symbols, FromCache(s) \/ FromStore(s) \/ BeginFetch(s) \/ OnPage(s) \/ OnPageRefused(s)
        PROVE  BarsInv'
    BY <2>7, BarsFetched
  <2>8. CASE BeginIteration
    <3>1. UNCHANGED <<clock, store, cache, fetch, late>> /\ round = "idle"
      BY <2>8 DEF BeginIteration, readVars, provider, pages
    <3>2. job' # "page"
      BY <2>8, StartNoPage DEF BeginIteration, AfterCalendar
    <3>3. fetch = NoFetch
      BY <3>1 DEF RoundInv, RoundOK, BarsInv
    <3> QED BY <1>2, <1>3, <3>1, <3>2, <3>3
  <2> QED BY <1>4, <2>1, <2>2, <2>3, <2>4, <2>5, <2>6, <2>7, <2>8 DEF Next, Step
<1>5. CASE UNCHANGED vars
  BY <1>2, <1>3, <1>5 DEF vars, readVars, provider, iteration, pages
<1> QED BY <1>4, <1>5

LEMMA BarsHold == Spec => []BarsInv
<1>1. Init => BarsInv
  BY DEF Init, BarsInv
<1>2. PauseInv => ReadOK
  BY DEF PauseInv
<1> QED BY <1>1, <1>2, BarsPreserved, RoundsHold, PausesHeard, PTL DEF Spec

\* A bar is not used before its day is over, whatever pages, snapshots and
\* caches a fetch was put together from, and none of them is kept beyond the
\* number that was asked for (_completed_only, _latest_candles).
THEOREM BarsAreOver == Spec => []BarsOver
<1>1. BarsInv /\ ReadOK => BarsOver
  <2> SUFFICES ASSUME BarsInv, ReadOK PROVE BarsOver
    OBVIOUS
  <2>1. \A s \in DOMAIN store : Over(store[s])
    BY DEF BarsInv, EntryOK, BarsOf, Over
  <2>2. \A s \in DOMAIN cache : Over(cache[s])
    BY <2>1 DEF BarsInv, Entry, Over
  <2>3. Cardinality(fetch.bars) <= Target /\ \A d \in fetch.bars : d < today
    <3>1. CASE job = "page"
      BY <3>1 DEF BarsInv, FetchOK, BarsOf
    <3>2. CASE job # "page"
      <4>1. fetch.bars = {}
        BY <3>2 DEF BarsInv, NoFetch
      <4>2. Cardinality({}) = 0
        BY FS_EmptySet
      <4>3. Cardinality(fetch.bars) = 0
        BY <4>1, <4>2, Zenon
      <4> QED BY <4>1, <4>3, MarketConstantsOK
    <3> QED BY <3>1, <3>2
  <2> QED BY <2>1, <2>2, <2>3 DEF BarsOver
<1>2. PauseInv => ReadOK
  BY DEF PauseInv
<1> QED BY <1>1, <1>2, BarsHold, PausesHeard, PTL

\* The bars that a strategy is given are those of days that were over and of
\* consecutive ones, for any target, page size and number of pages, except where a
\* first page did not reach back to an old snapshot that it was merged with
\* (_merge_candles, _fetch_completed_candle_pages).
THEOREM BarsAreComplete == Spec => []BarsComplete
<1>1. BarsInv => BarsConsecutive
  BY DEF BarsInv, EntryOK, BarsOf, BarsConsecutive, Entry
<1> QED BY <1>1, BarsHold, BarsAreOver, PTL DEF BarsComplete
=============================================================================
