------------------------------ MODULE MarketData ------------------------------
(***************************************************************************)
(* What a service iteration asks of the market before and while it         *)
(* evaluates (_paper_service_iteration): the session, the universe, the    *)
(* watchlist, and candles and a price for each symbol, the candles from    *)
(* the provider's cache, the stored snapshots or the API                   *)
(* (toss_market_data.py, market_cache.py).  Bars are the numbers of their  *)
(* days; symbols are numbered in the order of the configuration.           *)
(***************************************************************************)
EXTENDS TossRead, Functions

CONSTANTS
  Configured,   \* symbols, used without a universe
  Candidates,   \* universe_candidate_symbols
  Listed,       \* symbol -> the day of its first bar
  Target,       \* candle_count
  PageSize,     \* MAX_CANDLE_COUNT
  MaxPages,     \* a fetch gives up after so many: 10
  MaxAge,       \* candle_max_age_seconds
  DayLength,
  Configs,      \* the stages that are configured: calendar, universe, watchlist
  MinCompleted  \* min_completed_candles

Symbols == Configured \cup Candidates

ASSUME MarketConstantsOK ==
  /\ Groups = {"market", "market_info"}
  /\ Symbols \subseteq Nat /\ Configured # {} /\ Candidates # {} /\ Listed \in [Symbols -> Nat]
  /\ Target \in Nat \ {0} /\ PageSize \in Nat \ {0} /\ MaxPages \in Nat \ {0} /\ MaxAge \in Nat
  /\ DayLength \in Nat \ {0} /\ MinCompleted \in Nat
  /\ Configs \subseteq SUBSET {"calendar", "universe", "watchlist"}

VARIABLES
  config,    \* the configured stages
  store,     \* the latest snapshots: symbol -> [bars, at, more]
  cache,     \* of the iteration: symbol -> [bars, at]
  exhausted, \* of the iteration: symbols without further pages
  round,     \* idle, calendar, stocks, universe, watchlist or evaluate
  open,      \* the session is open
  todo,      \* the symbols that the round has not finished
  selected,  \* the symbols of the iteration
  job,       \* what is done for the first of them: warnings, look, page, price
  fetch,     \* the pages so far: [bars, before, cursors, tries]
  paged,     \* history: symbol -> the time of the last page that the API gave
  late       \* history: symbols of which a first page did not reach back to the bars
             \* that the fetch began with

pages == <<paged, late>>
provider == <<store, cache, exhausted, fetch, pages>>
iteration == <<round, open, todo, selected, job>>
vars == <<config, readVars, provider, iteration>>

NoFetch == [bars |-> {}, before |-> None, cursors |-> {}, tries |-> 0]
today == clock \div DayLength
This == Min(todo)

With(f, s, v) == [t \in DOMAIN f \cup {s} |-> IF t = s THEN v ELSE f[t]]

-----------------------------------------------------------------------------
(* Bars *)

\* _latest_candles, also of what _merge_candles has put together
Latest(bars) == {d \in bars : Cardinality({e \in bars : e > d}) < Target}

WithRunning(bars) == {d \in bars : d <= today}
WithoutNewest(bars) == {d \in bars : \E e \in bars : e > d}
\* _completed_only: the running day is left out.
Completed(bars) == {d \in bars : d < today}

\* The API serves the newest bars before the cursor, that of today included.
Served(s, before) ==
  LET all == {d \in Listed[s]..today : before # None => d < before}
  IN {d \in all : Cardinality({e \in all : e > d}) < PageSize}
\* and the next cursor, if older bars are left; it may also repeat a cursor.
Cursors(s, before) ==
  LET page == Served(s, before)
  IN IF page # {} /\ Min(page) > Listed[s] THEN {Min(page)} ELSE {None, before}

NotStale(entry) == clock - entry.at <= MaxAge
Cached(s) == IF s \in DOMAIN cache THEN cache[s].bars ELSE {}
Stored(s) == s \in DOMAIN store /\ store[s].bars # {} /\ NotStale(store[s])
Entry(snapshot) == [bars |-> snapshot.bars, at |-> snapshot.at]

-----------------------------------------------------------------------------
(* The consumers of candles and prices *)

Start(r, symbols) ==
  round' = r /\ todo' = symbols /\ job' = IF r = "universe" THEN "warnings" ELSE "look"

\* The client and the provider belong to the iteration, the limits do not.
EndIteration ==
  /\ Start("idle", {}) /\ open' = TRUE /\ selected' = {}
  /\ token' = None /\ cache' = <<>> /\ exhausted' = {} /\ fetch' = NoFetch

\* UniverseBuilder._decision: enough bars, and nothing against the stock in its
\* metadata, its warnings, its price and its traded value.
Admit(bars) ==
  \E clear \in BOOLEAN :
    selected' = IF clear /\ Cardinality(bars) >= MinCompleted THEN selected \cup {This} ELSE selected

NextSymbol == Start(round, todo \ {This}) /\ UNCHANGED open

Deliver(bars) ==
  /\ fetch' = NoFetch
  /\ \/ round = "universe" /\ NextSymbol /\ Admit(bars)
     \/ round = "watchlist" /\ NextSymbol /\ UNCHANGED selected
     \/ round = "evaluate" /\ job' = "price" /\ UNCHANGED <<round, todo, open, selected>>

RetriedAtOnce(status) ==
  fetch' = NoFetch /\ Start(round, todo) /\ UNCHANGED <<open, selected>>

\* The universe goes on without the symbol.  The watchlist stops at any 429; the
\* evaluation at a local pause, and at a 429 that the server words like one.
Refused(status) ==
  /\ fetch' = NoFetch
  /\ \/ NextSymbol /\ ~(round = "watchlist" /\ status = 429)
     \/ Start(round, {}) /\ UNCHANGED open /\ round # "universe" /\ status = 429
  /\ UNCHANGED selected

-----------------------------------------------------------------------------
(* get_completed_candles *)

Enough(bars) == Cardinality(bars) >= Target
InCache(s) ==
  s \in DOMAIN cache /\ NotStale(cache[s]) /\ (Enough(cache[s].bars) \/ s \in exhausted)
InStore(s) == Stored(s) /\ (Enough(store[s].bars) \/ ~store[s].more)

Look(s) == round \in {"universe", "watchlist", "evaluate"} /\ job = "look" /\ todo # {} /\ s = This

FromCache(s) ==
  /\ Look(s) /\ InCache(s) /\ Deliver(Latest(cache[s].bars))
  /\ UNCHANGED <<readVars, store, cache, exhausted, pages>>

\* A snapshot that was read is in the cache from then on, as old as it is.
Reread(s) == cache' = With(cache, s, Entry(store[s]))

FromStore(s) ==
  /\ Look(s) /\ ~InCache(s) /\ InStore(s)
  /\ Reread(s)
  /\ exhausted' = IF Enough(store[s].bars) THEN exhausted ELSE exhausted \cup {s}
  /\ Deliver(Latest(store[s].bars))
  /\ UNCHANGED <<readVars, store, pages>>

\* The end of a fetch: what was put together counts as captured now.
Capture(s, bars, more) ==
  /\ cache' = With(cache, s, [bars |-> bars, at |-> clock])
  /\ exhausted' = IF more THEN exhausted \ {s} ELSE exhausted \cup {s}
  /\ store' = With(store, s, [bars |-> bars, at |-> clock, more |-> more])
  /\ Deliver(bars)

\* The fetch starts from the cache, however old, and a snapshot that is not.
\* If these are enough bars no page is asked for.
BeginFetch(s) ==
  /\ Look(s) /\ ~InCache(s) /\ ~InStore(s)
  /\ LET seed == Latest(Cached(s) \cup IF Stored(s) THEN store[s].bars ELSE {})
     IN IF Enough(seed) THEN Capture(s, seed, FALSE)
        ELSE /\ IF Stored(s) THEN Reread(s) ELSE UNCHANGED cache
             /\ fetch' = [NoFetch EXCEPT !.bars = seed] /\ job' = "page"
             /\ UNCHANGED <<store, exhausted, round, open, todo, selected>>
  /\ UNCHANGED <<readVars, pages>>

NoCursorLeft(bars, next) == next = None \/ Enough(bars)
LastPage(bars, next) ==
  next = None \/ next \in fetch.cursors \/ fetch.tries + 1 = MaxPages \/ Enough(bars)

\* The first page of the API begins after the day that follows the bars so far.
FallsShort(s) ==
  /\ fetch.before = None /\ fetch.bars # {} /\ Served(s, None) # {}
  /\ Max(fetch.bars) + 1 < Min(Served(s, None))

OnPage(s) ==
  /\ job = "page" /\ s = This /\ Answered /\ wire.status = 200 /\ Taken
  /\ paged' = [paged EXCEPT ![s] = clock]
  /\ late' = IF FallsShort(s) THEN late \cup {s} ELSE late
  /\ \E next \in Cursors(s, fetch.before) :
       LET bars == Latest(fetch.bars \cup Completed(Served(s, fetch.before)))
       IN IF LastPage(bars, next) THEN Capture(s, bars, next # None)
          ELSE /\ fetch' = [bars |-> bars, before |-> next, tries |-> fetch.tries + 1,
                            cursors |-> fetch.cursors \cup {next}]
               /\ UNCHANGED <<store, cache, exhausted, iteration>>
  /\ UNCHANGED <<clock, limits, token, heard>>

\* After a 429 a snapshot of any age will do, and it is as old as it is.
OnPageRefused(s) ==
  /\ job = "page" /\ s = This /\ Answered /\ wire.status # 200 /\ Taken
  /\ IF wire.status = 429 /\ s \in DOMAIN store /\ store[s].bars # {}
     THEN Reread(s) /\ Deliver(Latest(store[s].bars))
     ELSE UNCHANGED cache /\ Refused(wire.status)
  /\ UNCHANGED <<clock, limits, token, heard, store, exhausted, pages>>

-----------------------------------------------------------------------------
(* The other requests *)

GroupOf(what) == IF what \in {"page", "price"} THEN "market" ELSE "market_info"

AskNext ==
  /\ \/ round \in {"calendar", "stocks"}
     \/ todo # {} /\ job \in {"warnings", "page", "price"}
  /\ Ask(GroupOf(IF round \in {"calendar", "stocks"} THEN round ELSE job))
  /\ UNCHANGED <<clock, limits, token, heard, provider, iteration>>

AfterCalendar ==
  IF "universe" \in config THEN Start("stocks", {}) /\ UNCHANGED selected
  ELSE Start(IF "watchlist" \in config THEN "watchlist" ELSE "evaluate", Configured) /\ selected' = Configured

BeginIteration ==
  /\ round = "idle"
  /\ IF "calendar" \in config THEN Start("calendar", {}) /\ UNCHANGED selected ELSE AfterCalendar
  /\ UNCHANGED <<readVars, provider, open>>

\* An error of one of these three requests ends the iteration.
Reply(what) ==
  /\ what = (IF round \in {"calendar", "stocks"} THEN round ELSE job) /\ Answered /\ Taken
  /\ UNCHANGED <<clock, limits, heard, store, pages>>
Goes == wire.status = 200 /\ UNCHANGED <<token, cache, exhausted, fetch>>
Fails == wire.status # 200 /\ EndIteration

\* Universe and watchlist are built in some closed sessions as well.
OnCalendar ==
  /\ Reply("calendar")
  /\ \/ Fails
     \/ wire.status = 200 /\ EndIteration
     \/ Goes /\ open' \in BOOLEAN /\ AfterCalendar

OnStocks ==
  /\ Reply("stocks")
  /\ \/ Fails
     \/ Goes /\ Start("universe", Candidates) /\ UNCHANGED <<open, selected>>

OnWarnings ==
  /\ Reply("warnings")
  /\ \/ Fails
     \/ Goes /\ job' = "look" /\ UNCHANGED <<round, todo, open, selected>>

OnPrice ==
  /\ Reply("price")
  /\ \/ Goes /\ NextSymbol /\ UNCHANGED selected
     \/ wire.status # 200 /\ Refused(wire.status) /\ UNCHANGED <<token, cache, exhausted>>

\* An empty universe and a closed session end the iteration, and so may the
\* reconcile, which comes before the evaluation.
EndRound ==
  /\ round \in {"universe", "watchlist", "evaluate"} /\ todo = {}
  /\ \/ /\ round = "universe" /\ selected # {}
        /\ Start(IF "watchlist" \in config THEN "watchlist" ELSE "evaluate", selected)
        /\ UNCHANGED <<open, selected, token, cache, exhausted, fetch>>
     \/ /\ round = "watchlist" /\ open /\ Start("evaluate", selected)
        /\ UNCHANGED <<open, selected, token, cache, exhausted, fetch>>
     \/ EndIteration
  /\ UNCHANGED <<clock, limits, wire, heard, store, pages>>

\* The service ends and starts again: only the store is left.
Restart ==
  /\ limits' = Fresh /\ notBefore' = [g \in Groups |-> 0] /\ earlier' = 0 /\ wire' = Quiet
  /\ EndIteration /\ UNCHANGED <<clock, store, pages>>

-----------------------------------------------------------------------------

Init ==
  /\ ReadInit /\ config \in Configs
  /\ store = <<>> /\ cache = <<>> /\ exhausted = {} /\ fetch = NoFetch
  /\ paged = [s \in Symbols |-> None] /\ late = {}
  /\ round = "idle" /\ todo = {} /\ job = "look" /\ open = TRUE /\ selected = {}

Step ==
  /\ UNCHANGED config
  /\ \/ Transport /\ UNCHANGED <<provider, iteration>>
     \/ AskNext \/ OnCalendar \/ OnStocks \/ OnWarnings \/ OnPrice \/ EndRound
     \/ \E s \in Symbols : FromCache(s) \/ FromStore(s) \/ BeginFetch(s) \/ OnPage(s)
                           \/ OnPageRefused(s)

\* Time passes while the server is waited for and between iterations.
Next ==
  \/ Step
  \/ /\ UNCHANGED config
     /\ \/ BeginIteration \/ Restart
        \/ (Waits \/ round = "idle") /\ Tick /\ UNCHANGED <<provider, iteration>>

\* Every request ends, by an answer or the time-out of the transport.
Spec == Init /\ [][Next]_vars /\ WF_vars(Step)

-----------------------------------------------------------------------------
(* Properties *)

MarketTypeOK ==
  /\ config \in Configs /\ clock \in StartClock..MaxClock /\ DOMAIN limits = Groups
  /\ wire.step \in {"none", "token", "send", "done"} /\ wire.group \in Groups \cup {"none"}
  /\ wire.tries \in 1..2 /\ token \in OrNone(Nat)
  /\ round \in {"idle", "calendar", "stocks", "universe", "watchlist", "evaluate"}
  /\ job \in {"warnings", "look", "page", "price"}
  /\ todo \subseteq Symbols /\ selected \subseteq Symbols
  /\ DOMAIN store \cup DOMAIN cache \cup exhausted \subseteq Symbols
  /\ wire.step # "none" => round \notin {"idle"} /\ fetch.tries < MaxPages

Consecutive(bars) == \A d \in bars, e \in bars : d..e \subseteq bars
\* The bars of an entry are of days that were over when it was captured.
Over(entry) == \A d \in entry.bars : d < entry.at \div DayLength

BarsOver ==
  /\ \A s \in DOMAIN store : Over(store[s])
  /\ \A s \in DOMAIN cache : Over(cache[s])
  /\ Cardinality(fetch.bars) <= Target /\ \A d \in fetch.bars : d < today

\* A page alone holds what is wanted, or every first page has reached back.
Joined(s) == Target < PageSize \/ s \notin late

BarsConsecutive ==
  /\ \A s \in DOMAIN store : Joined(s) => Consecutive(store[s].bars)
  /\ \A s \in DOMAIN cache : Joined(s) => Consecutive(cache[s].bars)

\* Whatever pages, snapshots and caches a fetch was put together from, its bars
\* are at most as many as asked for, and none is of a day that ran when they were
\* captured: a bar is not used before it is complete, also if it was stored on the
\* day before (turtle-rules.md, completed candles).  And they are of consecutive
\* days, with one exception: where more bars are wanted than a page holds, the
\* first page may begin after the end of an old and short snapshot, and the code
\* counts the two together as complete without closing the gap between them.
BarsComplete == BarsOver /\ BarsConsecutive

\* Every iteration ends, whatever the server answers and even if its cursors
\* lead nowhere.
IterationEnds == round # "idle" ~> round = "idle"

\* docs/turtle-rules.md:37, live mode is blocked when required data is stale:
\* the age of a snapshot, by which it is judged, is that of its last page.
AgeIsOfLastPage == \A s \in DOMAIN store : store[s].at <= paged[s]
=============================================================================
