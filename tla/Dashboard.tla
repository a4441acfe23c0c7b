------------------------------ MODULE Dashboard ------------------------------
(***************************************************************************)
(* The dashboard process (build_dashboard_server in operations.py and the  *)
(* HealthServer of health.py): the requests that write the config file,    *)
(* the passes of the service that a loop thread and the live-once button   *)
(* run, the runtime events they leave, and what the dashboard tells the    *)
(* operator on the strength of file, events and its own memory.            *)
(*                                                                         *)
(* The server handles one request at a time, so a request is one step,     *)
(* except live-once and the smoke test, which keep the server busy for a   *)
(* whole pass.  How a loop sees a torn file is the subject of TradingLoop. *)
(***************************************************************************)
EXTENDS Calendar, FiniteSetsExt

CONSTANTS
  Templates,    \* contents that the config file may start with
  Symbols,
  Payloads,     \* what the settings form may send
  Market,       \* runtime.market
  Times,        \* the instants of a day
  Answers,      \* what the calendar may answer
  EnvKeys,      \* the process environment holds client id and secret
  FailureLimit, \* live.max_consecutive_order_failures
  Outcomes,     \* the statuses that a submitted order may have
  Window,       \* the events that one reading of them returns: 100
  MaxDays, MaxRequests, MaxPasses

Modes == {"paper", "shadow", "live"}
Workers == {"loop", "once", "smoke"}
\* symbols: runtime.symbols, then universe_candidate_symbols
\* consent: whether a code is required, and whether any are registered.
Config == [mode: Modes, enabled: BOOLEAN, stop: BOOLEAN, account: BOOLEAN,
           symbols: Seq(Symbols), universe: BOOLEAN, allowed: SUBSET Symbols,
           hours: SUBSET {"dayMarket", "regularMarket"}, consent: {"off", "none", "ids"}]

\* The momentum numbers are valid or not; the Toss part is refused without the
\* confirmation or with an empty account, or connects account and keys.
Payload == [momentum: {"valid", "invalid"}, hours: {"absent", "day", "regular"},
            toss: {"absent", "refused", "connect"}]

ASSUME DashboardConstantsOK ==
  /\ Templates \subseteq Config /\ Payloads \subseteq Payload
  /\ Times \subseteq Nat \ {0} /\ Times # {}
  /\ \A a \in Answers : a.kind = "official" =>
       \A n \in DOMAIN a.today : a.today[n] \in [from: Nat, to: Nat]
  /\ EnvKeys \in BOOLEAN
  /\ FailureLimit \in Nat \ {0} /\ Window \in Nat \ {0}
  /\ Outcomes \subseteq {"ACKNOWLEDGED", "REJECTED", "FAILED", "UNKNOWN"}
  /\ MaxDays \in Nat /\ MaxRequests \in Nat /\ MaxPasses \in Nat

VARIABLES
  file,    \* the config file
  keys,    \* the environment of the process holds client id and secret
  closure, \* what build_dashboard_server remembers: mode, consent, default_blockers
  shown,   \* _settings of the HealthServer
  log,     \* the newest Window runtime events, newest first
  loop,    \* the loop thread: its next pass, and whether its event is set
  pass,    \* the pass of each worker
  clock, days, requests, passes,
  answer,  \* what the calendar answers today
  judged,  \* history: file, keys and blockers of the latest health event's pass
  shared,  \* history: two passes were under way at once today
  sent,    \* history: the symbols of which an order was sent
  byHand   \* history: the file traded before anyone used the dashboard

memory == <<keys, closure, shown>>
bounds == <<requests, passes>>
world == <<clock, days, answer>>
dashboardVars ==
  <<file, memory, log, loop, pass, world, requests, passes, judged, shared, sent, byHand>>

-----------------------------------------------------------------------------
(* Gates *)

Missing(checks) == {c \in DOMAIN checks : ~checks[c]}
Present(checks) == {c \in DOMAIN checks : checks[c]}

\* _build_toss_readiness_checks
ReadinessChecks(c, k) ==
  [symbols |-> c.symbols # <<>>, keys |-> k, account |-> c.account,
   consent |-> ~(c.mode = "live" /\ c.consent = "none")]

ReadinessOnly(c, k) == Missing(ReadinessChecks(c, k))
\* _paper_service_config_blockers
ConfigBlockers(c, k) ==
  Missing(ReadinessChecks(c, k)) \cup
  Missing([enabled |-> c.enabled = (c.mode = "live"),
           stop |-> ~(c.mode = "live" /\ c.stop),
           allowed |-> ~(c.mode = "live" /\ c.allowed = {})])

\* run_paper_service raises on such a config.
Refuses(c) == c.enabled /\ c.mode # "live"
\* _extract_live_consent_context, given a registered code where one is needed
ConsentGiven(c) == c.consent # "none"

AnsweredFailed(event) ==
  event.kind = "execution" /\ (event.status = "FAILED" \/ (event.status = "REJECTED" /\ event.safe))
Failed(event) ==
  /\ event.kind = "execution"
  /\ event.status \in {"FAILED", "UNKNOWN"} \/ (event.status = "REJECTED" /\ event.safe)
Succeeded(event) == event.kind = "execution" /\ event.status = "ACKNOWLEDGED"

\* _consecutive_live_order_failures: those of today before the newest success.
ConsecutiveFailures(events) ==
  Cardinality({i \in DOMAIN events :
     /\ Failed(events[i])
     /\ \A j \in 1..i : events[j].today /\ ~Succeeded(events[j])})

-----------------------------------------------------------------------------
(* Runtime events *)

Other == [kind |-> "other", today |-> TRUE]
Execution(status, safe) ==
  [kind |-> "execution", status |-> status, safe |-> safe, today |-> TRUE]
Health(mode, why, orders) ==
  [kind |-> "health", mode |-> mode, why |-> why, orders |-> orders, today |-> TRUE]

\* A later health event hides the earlier ones for good.
Hidden(events) ==
  [i \in DOMAIN events |-> IF events[i].kind = "health" THEN [Other EXCEPT !.today = events[i].today]
                           ELSE events[i]]
Unlimited(events) == events
Newest(events) == SubSeq(events, 1, Min({Window, Len(events)}))

Record(events) == log' = Newest(events \o log)
\* A pass reports what it found: once, or in two events of the same content.
Report(w, why, orders, times) ==
  LET event == Health(pass[w].config.mode, why, orders)
  IN /\ log' = Newest(<<event>> \o (IF times = 2 THEN <<Other>> ELSE <<>>) \o Hidden(log))
     /\ judged' = [file |-> pass[w].config, keys |-> pass[w].keys, why |-> why]

-----------------------------------------------------------------------------
(* What the dashboard shows *)

Remembered(c, k) == [mode |-> c.mode, consent |-> c.consent, blockers |-> ConfigBlockers(c, k)]
\* _dashboard_settings_payload
Shown(c, k) == [mode |-> c.mode, enabled |-> c.enabled, account |-> c.account,
                consent |-> c.consent, keys |-> k]

\* snapshot_provider: the latest health event, unless it is of another mode.
Snapshot ==
  LET heard == {i \in DOMAIN log : log[i].kind = "health" /\ log[i].mode = closure.mode}
  IN IF heard # {} THEN log[Min(heard)]
     ELSE Health(closure.mode, closure.blockers, FALSE)

\* _build_live_readiness_payload: a blocker that the shown settings contradict is
\* left out, and those of these classes count on their own.
CanSubmit ==
  LET why == Snapshot.why \ Present([keys |-> shown.keys, account |-> shown.account])
  IN /\ shown.mode = "live" /\ shown.enabled
     /\ Snapshot.why = {} \/ why = {}
     /\ shown.keys /\ shown.account /\ shown.consent # "none"
     /\ why \cap {"symbols", "universe", "session", "reconcile", "stale"} = {}
     /\ Snapshot.orders

-----------------------------------------------------------------------------
(* Requests *)

Idle == [at |-> "idle"]
Busy(w) == pass[w].at # "idle"
Free == ~Busy("once") /\ ~Busy("smoke")

Refused(p) == p.momentum = "invalid" \/ p.toss = "refused"

HoursSaved(c, p) ==
  [c EXCEPT !.hours = CASE p.hours = "day" -> {"dayMarket", "regularMarket"}
                        [] p.hours = "regular" -> {"regularMarket"}
                        [] OTHER -> @]
TossSaved(c, p) == [c EXCEPT !.account = @ \/ p.toss = "connect"]

\* update_dashboard_settings writes part by part, and a later refusal leaves the
\* earlier parts in the file; the momentum numbers come first.
Written(c, p) ==
  CASE p.momentum = "invalid" -> c
    [] p.toss = "refused" -> HoursSaved(c, p)
    [] OTHER -> TossSaved(HoursSaved(c, p), p)

Request == requests < MaxRequests /\ requests' = requests + 1

\* POST /dashboard/settings.  Neither the closure nor the shown settings follow a
\* refused save.
SaveSettings(p) ==
  /\ Free /\ Request
  /\ file' = Written(file, p)
  /\ keys' = (keys \/ (p.toss = "connect" /\ ~Refused(p)))
  /\ IF Refused(p) THEN UNCHANGED <<closure, shown>>
     ELSE closure' = Remembered(file', keys') /\ shown' = Shown(file', keys')
  /\ UNCHANGED <<log, loop, pass, world, passes, judged, shared, sent, byHand>>

PilotAllowing(c, allowed) ==
  [c EXCEPT !.mode = "live", !.enabled = TRUE, !.stop = FALSE, !.allowed = allowed]
PilotKeepsAllowed(c) == PilotAllowing(c, c.allowed \cup {Head(c.symbols)})
\* apply_safe_pilot_settings; its look at the watchlist always fails.
SafePilot(c) == PilotAllowing(c, {Head(c.symbols)})

ApplyPilot ==
  /\ Free /\ Request /\ ConsentGiven(closure) /\ file.symbols # <<>>
  /\ file' = SafePilot(file)
  /\ closure' = Remembered(file', keys)
  /\ loop' = IF loop.next = "dead" THEN [next |-> "first", told |-> FALSE] ELSE loop
  /\ UNCHANGED <<keys, shown, log, pass, world, passes, judged, shared, sent, byHand>>

StopTrading ==
  /\ Free /\ Request
  /\ file' = [file EXCEPT !.stop = TRUE]
  /\ closure' = Remembered(file', keys)
  /\ loop' = [loop EXCEPT !.told = TRUE]
  /\ UNCHANGED <<keys, shown, log, pass, world, passes, judged, shared, sent, byHand>>

\* The process ends, with its loop and passes, and is started again.
Restart ==
  /\ Request
  /\ keys' = EnvKeys
  /\ closure' = Remembered(file, EnvKeys) /\ shown' = Shown(file, EnvKeys)
  /\ loop' = [next |-> "dead", told |-> FALSE]
  /\ pass' = [w \in Workers |-> Idle]
  /\ UNCHANGED <<file, log, world, passes, judged, shared, sent, byHand>>

-----------------------------------------------------------------------------
(* Passes *)

\* The first iteration of run_paper_service leaves no heartbeat, and the second
\* follows it without a sleep.  Nor does a smoke test.
Beats(w) == w = "once" \/ (w = "loop" /\ loop.next # "first")

\* interruptible_sleep
Interrupted == loop.told \/ (file.mode = "live" /\ file.stop)

Begins == [at |-> "begun", config |-> file, keys |-> keys, todo |-> {}, why |-> {},
           orders |-> FALSE, failures |-> 0]

BeginPass(w, started) ==
  /\ ~Busy(w) /\ ~Refuses(file)
  /\ passes < MaxPasses /\ passes' = passes + 1
  /\ pass' = [pass EXCEPT ![w] = started]
  /\ shared' = (shared \/ \E v \in Workers : Busy(v))

LoopBegins ==
  /\ loop.next \in {"first", "second"} \/ (loop.next = "asleep" /\ ~Interrupted)
  /\ BeginPass("loop", Begins)
  /\ UNCHANGED <<file, memory, log, loop, world, requests, judged, sent, byHand>>

\* POST live-once loads the file into the closure before it asks for consent.
OnceBegins ==
  /\ Free
  /\ closure' = [closure EXCEPT !.mode = file.mode, !.consent = file.consent]
  /\ IF ConsentGiven(file) /\ ~Refuses(file) THEN BeginPass("once", Begins)
     ELSE UNCHANGED <<pass, passes, shared>>
  /\ UNCHANGED <<file, keys, shown, log, loop, world, requests, judged, sent, byHand>>

\* POST live-smoke-test, as far as the calendar.  A refusal is an exception; no
\* consent is asked for.  Which of the allowed symbols comes first is open, and
\* so is cancel_after_ack, without which the test is refused.
SmokeTest ==
  /\ Free
  /\ closure' = [closure EXCEPT !.mode = file.mode, !.consent = file.consent]
  /\ IF /\ file.mode = "live" /\ ConfigBlockers(file, keys) = {}
        /\ Verdict(answer, Market, file.hours, clock).open
     THEN \E s \in file.allowed :
            BeginPass("smoke", [Begins EXCEPT !.at = "ran", !.todo = {s}])
     ELSE UNCHANGED <<pass, passes, shared>>
  /\ UNCHANGED <<file, keys, shown, log, loop, world, requests, judged, sent, byHand>>

LoopEnds ==
  /\ loop.next = "asleep" /\ ~Busy("loop") /\ Interrupted
  /\ loop' = [next |-> "dead", told |-> FALSE]
  /\ Record(<<Other>>)
  /\ UNCHANGED <<file, memory, pass, world, bounds, judged, shared, sent, byHand>>

After(w) ==
  /\ pass' = [pass EXCEPT ![w] = Idle]
  /\ loop' = IF w # "loop" THEN loop
             ELSE [loop EXCEPT !.next = IF @ = "first" THEN "second" ELSE "asleep"]
  /\ closure' = IF w = "loop" THEN closure ELSE Remembered(pass[w].config, keys)
  /\ UNCHANGED <<file, keys, shown, world, bounds, shared, sent, byHand>>

\* An iteration that returns early has reported its blockers already.
ReturnBlocked(w, why) ==
  After(w) /\ Report(w, why, FALSE, IF Beats(w) THEN 2 ELSE 1)

Blocked(w) ==
  /\ pass[w].at = "begun"
  /\ ConfigBlockers(pass[w].config, pass[w].keys) # {}
  /\ ReturnBlocked(w, ConfigBlockers(pass[w].config, pass[w].keys))

\* Nothing is ordered on a dirty reconcile; a paper pass orders nothing at all.
RunOnce(w) ==
  \E intents \in SUBSET Symbols, why \in {{}, {"reconcile"}, {"stale"}} :
    /\ "reconcile" \in why => intents = {}
    /\ pass' = [pass EXCEPT
         ![w].at = IF pass[w].config.mode = "live" /\ intents # {} THEN "ran" ELSE "done",
         ![w].todo = intents, ![w].why = why, ![w].orders = intents # {}]

\* The calendar is asked; universe, watchlist and run_once follow, and read
\* nothing that is modelled here.
Evaluate(w) ==
  /\ pass[w].at = "begun"
  /\ ConfigBlockers(pass[w].config, pass[w].keys) = {}
  /\ LET verdict == Verdict(answer, Market, pass[w].config.hours, clock)
     IN \/ /\ pass[w].config.universe
           /\ WatchlistFirst(verdict) \/ SessionBlockers(verdict) = {}
           /\ ReturnBlocked(w, {"universe"})
        \/ /\ SessionBlockers(verdict) # {}
           /\ ReturnBlocked(w, SessionBlockers(verdict))
        \/ /\ SessionBlockers(verdict) = {}
           /\ RunOnce(w)
           /\ UNCHANGED <<file, memory, log, loop, world, bounds, judged, shared, sent, byHand>>

\* _submit_live_intents up to the first intent, and the same in the smoke test,
\* whose reads may fail and whose event here is live_smoke_test_started
CountFailures(w) ==
  /\ pass[w].at = "ran"
  /\ pass' = [pass EXCEPT ![w].at = "sending", ![w].failures = ConsecutiveFailures(log)]
  /\ Record(<<Other>>)
  /\ UNCHANGED <<file, memory, loop, world, bounds, judged, shared, sent, byHand>>

\* _live_final_guard_blockers; stop and live_enabled of the pass's config have
\* been checked when it began.
Allowlisted(w, s) == s \in pass[w].config.allowed

FuseBlown(w) == pass[w].failures >= FailureLimit

Tallied(n, event) ==
  IF Succeeded(event) THEN 0 ELSE IF event.safe THEN n + 1 ELSE n

\* PreTradeSafety.validate may block for reasons other than the fuse.
SubmitOrder(w, s) ==
  /\ pass[w].at = "sending" /\ s \in pass[w].todo
  /\ \/ /\ ~Allowlisted(w, s)
        /\ pass' = [pass EXCEPT ![w].todo = @ \ {s}]
        /\ Record(<<Other>>)
        /\ UNCHANGED sent
     \/ \E status \in Outcomes, safe \in BOOLEAN :
          LET event == Execution(status, safe)
          IN /\ Allowlisted(w, s)
             /\ IF safe THEN ~FuseBlown(w) ELSE status = "REJECTED"
             /\ pass' = [pass EXCEPT ![w].todo = @ \ {s}, ![w].failures = Tallied(@, event)]
             /\ Record(<<event>>)
             /\ sent' = IF safe THEN sent \cup {s} ELSE sent
  /\ UNCHANGED <<file, memory, loop, world, bounds, judged, shared, byHand>>

EndPass(w) ==
  /\ pass[w].at = "done" \/ (pass[w].at = "sending" /\ pass[w].todo = {})
  /\ After(w)
  /\ IF Beats(w) THEN Report(w, pass[w].why, pass[w].orders, 1)
     ELSE UNCHANGED <<log, judged>>

\* An exception ends the loop, or is the answer to the request.
PassFails(w) ==
  /\ Busy(w)
  /\ pass' = [pass EXCEPT ![w] = Idle]
  /\ IF w = "loop" THEN loop' = [next |-> "dead", told |-> FALSE] /\ Record(<<Other>>)
     ELSE UNCHANGED <<loop, log>>
  /\ UNCHANGED <<file, memory, world, bounds, judged, shared, sent, byHand>>

-----------------------------------------------------------------------------
(* Time *)

Tick ==
  /\ \E t \in Times : t > clock /\ clock' = t
  /\ UNCHANGED <<file, memory, log, loop, pass, days, answer, bounds, judged, shared, sent, byHand>>

NextDay ==
  /\ days < MaxDays /\ days' = days + 1
  /\ clock' = Min(Times) /\ answer' \in Answers
  /\ log' = [i \in DOMAIN log |-> [log[i] EXCEPT !.today = FALSE]]
  /\ shared' = (\E w \in Workers : Busy(w))
  /\ UNCHANGED <<file, memory, loop, pass, bounds, judged, sent, byHand>>

-----------------------------------------------------------------------------

DashboardInit ==
  /\ file \in Templates
  /\ keys = EnvKeys
  /\ closure = Remembered(file, EnvKeys) /\ shown = Shown(file, EnvKeys)
  /\ log = <<>>
  /\ loop = [next |-> "dead", told |-> FALSE]
  /\ pass = [w \in Workers |-> Idle]
  /\ clock = Min(Times) /\ days = 0 /\ requests = 0 /\ passes = 0 /\ answer \in Answers
  /\ judged = [file |-> file, keys |-> FALSE, why |-> {}]
  /\ shared = FALSE /\ sent = {}
  /\ byHand = (file.mode = "live" /\ file.enabled /\ ~file.stop)

DashboardNext ==
  \/ \E p \in Payloads : SaveSettings(p)
  \/ ApplyPilot \/ StopTrading \/ Restart
  \/ LoopBegins \/ OnceBegins \/ SmokeTest \/ LoopEnds
  \/ \E w \in Workers :
       \/ Blocked(w) \/ Evaluate(w) \/ CountFailures(w)
       \/ \E s \in Symbols : SubmitOrder(w, s)
       \/ EndPass(w) \/ PassFails(w)
  \/ Tick \/ NextDay

DashboardSpec == DashboardInit /\ [][DashboardNext]_dashboardVars

-----------------------------------------------------------------------------
(* Properties *)

Entry == [kind: {"other"}, today: BOOLEAN]
         \cup [kind: {"execution"}, status: Outcomes, safe: BOOLEAN, today: BOOLEAN]
         \cup [kind: {"health"}, mode: Modes, orders: BOOLEAN, today: BOOLEAN,
               why: SUBSET {"symbols", "keys", "account", "consent", "enabled", "stop",
                            "allowed", "universe", "session", "reconcile", "stale"}]

\* The log never holds more than Window events and at most one health event that
\* counts, and a pass submits only intents of its own config (list_runtime_events,
\* _submit_live_intents).
DashboardTypeOK ==
  /\ file \in Config /\ keys \in BOOLEAN
  /\ closure.mode \in Modes /\ shown.mode \in Modes /\ shown.keys \in BOOLEAN
  /\ Len(log) <= Window /\ \A i \in DOMAIN log : log[i] \in Entry
  /\ Cardinality({i \in DOMAIN log : log[i].kind = "health"}) <= 1
  /\ loop.next \in {"dead", "first", "second", "asleep"}
  /\ \A w \in Workers : Busy(w) => pass[w].config \in Config /\ pass[w].todo \subseteq Symbols
  /\ loop.next = "dead" => ~Busy("loop")
  /\ clock \in Times /\ answer \in Answers /\ sent \subseteq Symbols

\* The calendar opens the market exactly while a session the bot may trade in is
\* on, except at the instant where such a session starts and another one ends: both
\* ends count as inside, and the session listed first decides
\* (_parse_official_session_payload).
VerdictExact ==
  \A hours \in {{}, {"regularMarket"}, {"dayMarket", "regularMarket"}} :
    LET offered == Range(SessionNames(Market)) \cap DOMAIN answer.today
        on == {n \in offered : answer.today[n].from \in 1..clock /\ answer.today[n].to >= clock}
        tradable == on \cap AllowedNames(hours)
        verdict == Verdict(answer, Market, hours, clock)
    IN answer.kind = "official" =>
         /\ verdict.open => tradable # {}
         /\ tradable # {} /\ ~verdict.open => \E n \in on \ tradable : answer.today[n].to = clock

\* A submitted order that the broker did not take.
Lost(event) == event.kind = "execution" /\ event.safe /\ event.status # "ACKNOWLEDGED"
Taken(event) == event.kind = "execution" /\ event.status = "ACKNOWLEDGED"
LostInARow(i) ==
  {j \in i..Len(log) : Lost(log[j]) /\ \A k \in i..j : log[k].today /\ ~Taken(log[k])}

\* While only one pass runs at a time, the events that a scan can see never hold
\* more lost orders of a day in a row than the fuse allows, over any number of
\* passes, blocked attempts and restarts (_consecutive_live_order_failures).
FuseHolds ==
  ~shared => \A i \in DOMAIN log : Cardinality(LostInARow(i)) <= FailureLimit

\* If the dashboard's button alone made the config tradable, orders are sent for
\* the pilot's one symbol only, whatever the operator had listed by hand, whatever
\* is saved later and however passes overlap (apply_safe_pilot_settings).
PilotOnly ==
  byHand \/ \A s \in sent : file.symbols # <<>> /\ s = Head(file.symbols)

GatesClean ==
  /\ file.mode = "live" /\ file.enabled /\ ~file.stop /\ file.allowed # {}
  /\ file.symbols # <<>> /\ file.consent # "none" /\ file.account /\ keys

\* can_submit_live_orders, which is put together from settings, a health event and
\* memory of different ages, is right when all three stem from the present file and
\* keys: the gates are clean and the pass found nothing (_build_live_readiness_
\* payload).
ReadyWhenInSync ==
  /\ CanSubmit
  /\ shown = Shown(file, keys) /\ judged.file = file /\ judged.keys = keys
  => GatesClean /\ judged.why = {}

\* docs/phase-7-live-order-architecture.md: the dashboard reports
\* can_submit_live_orders = true only when all gates are clean.  It does not: after
\* a stop the last heartbeat and the old settings still say so.
ReadyOnlyIfClean == CanSubmit => GatesClean
=============================================================================
