--------------------------- MODULE DashboardProofs ---------------------------
(***************************************************************************)
(* Proofs about Dashboard, for any templates, forms, symbols and bounds:   *)
(* types, what the pilot's button may lead to, when the dashboard is right *)
(* to call itself ready, how many orders may be lost in a row, and when    *)
(* the market counts as open.                                              *)
(***************************************************************************)
EXTENDS Dashboard, TLAPS, FiniteSetTheorems, WellFoundedInduction

-----------------------------------------------------------------------------
(* Lemmas about the helpers *)

LEMMA LessThanWellFounded ==
  \E R : IsWellFoundedOn(R, Nat) /\ \A m, n \in Nat : m < n => <<m, n>> \in R
<1>1. \A m, n \in Nat : m < n => <<m, n>> \in OpToRel(<, Nat)
  BY DEF OpToRel
<1> QED BY <1>1, NatLessThanWellFounded, Zenon

LEMMA LeastOf ==
  ASSUME NEW S \in SUBSET Nat, S # {}
  PROVE  Min(S) \in S /\ \A x \in S : Min(S) <= x
<1>1. PICK R : IsWellFoundedOn(R, Nat) /\ \A m, n \in Nat : m < n => <<m, n>> \in R
  BY LessThanWellFounded
<1>2. S \subseteq Nat
  OBVIOUS
<1>3. \E n \in S : \A m \in S : ~(<<m, n>> \in R)
  <2>1. IsWellFoundedOn(R, Nat) /\ S # {}
    BY <1>1
  <2> QED BY <2>1, <1>2, WFMin
<1>4. PICK n \in S : \A m \in S : ~(<<m, n>> \in R)
  BY <1>3, Zenon
<1>5. ASSUME NEW m \in S PROVE n <= m
  <2>1. m \in Nat /\ n \in Nat /\ ~(<<m, n>> \in R)
    BY <1>2, <1>4, Zenon
  <2>2. ~(m < n)
    BY <1>1, <2>1, Zenon
  <2> QED BY <2>1, <2>2
<1> QED BY <1>4, <1>5 DEF Min

\* The instants begin somewhere.
LEMMA FirstInstant == Min(Times) \in Times
<1>1. Times \in SUBSET Nat /\ Times # {}
  BY DashboardConstantsOK
<1> QED BY <1>1, LeastOf

\* What is kept of a log are its first events, at most Window of them.
LEMMA NewestKept ==
  ASSUME NEW S, NEW s \in Seq(S)
  PROVE  /\ Newest(s) \in Seq(S)
         /\ Len(Newest(s)) <= Window /\ Len(Newest(s)) <= Len(s)
         /\ \A i \in DOMAIN Newest(s) : i \in DOMAIN s /\ Newest(s)[i] = s[i]
<1> DEFINE m == Min({Window, Len(s)})
<1>1. {Window, Len(s)} \in SUBSET Nat
  BY DashboardConstantsOK
<1>2. m \in {Window, Len(s)} /\ m <= Window /\ m <= Len(s)
  BY <1>1, LeastOf
<1> HIDE DEF m
<1>3. m \in 0..Len(s)
  BY <1>1, <1>2
<1>4. Newest(s) = SubSeq(s, 1, m)
  BY DEF Newest, m
<1>5. /\ SubSeq(s, 1, m) \in Seq(S) /\ Len(SubSeq(s, 1, m)) = m
      /\ \A i \in 1..m : SubSeq(s, 1, m)[i] = s[i]
  BY <1>3
<1> QED BY <1>2, <1>3, <1>4, <1>5

LEMMA NoBlockers ==
  ASSUME NEW c, NEW k, ConfigBlockers(c, k) = {}
  PROVE  /\ c.symbols # <<>> /\ k /\ c.account /\ ~(c.mode = "live" /\ c.consent = "none")
         /\ c.enabled = (c.mode = "live") /\ ~(c.mode = "live" /\ c.stop)
         /\ ~(c.mode = "live" /\ c.allowed = {})
<1> DEFINE r == ReadinessChecks(c, k)
           e == [enabled |-> c.enabled = (c.mode = "live"),
                 stop |-> ~(c.mode = "live" /\ c.stop),
                 allowed |-> ~(c.mode = "live" /\ c.allowed = {})]
<1>1. Missing(r) = {} /\ Missing(e) = {}
  BY DEF ConfigBlockers
<1>2. r["symbols"] /\ r["keys"] /\ r["account"] /\ r["consent"]
  BY <1>1 DEF Missing, ReadinessChecks
<1>3. e["enabled"] /\ e["stop"] /\ e["allowed"]
  BY <1>1 DEF Missing
<1> QED BY <1>2, <1>3 DEF ReadinessChecks

-----------------------------------------------------------------------------
(* Types *)

Reasons == SUBSET {"symbols", "keys", "account", "consent", "enabled", "stop",
                   "allowed", "universe", "session", "reconcile", "stale"}
Consents == {"off", "none", "ids"}

\* What an iteration that was not blocked may report.
Found == {{}, {"reconcile"}, {"stale"}}

Pass == [at: {"idle"}] \cup
        [at: {"begun", "ran", "sending", "done"}, config: Config, keys: BOOLEAN,
         todo: SUBSET Symbols, why: Found, orders: BOOLEAN, failures: Nat]

LogOK(l) ==
  /\ l \in Seq(Entry) /\ Len(l) <= Window
  /\ \A i, j \in DOMAIN l : l[i].kind = "health" /\ l[j].kind = "health" => i = j

StateOK ==
  /\ file \in Config /\ keys \in BOOLEAN
  /\ closure \in [mode: Modes, consent: Consents, blockers: Reasons]
  /\ shown.mode \in Modes /\ shown.keys \in BOOLEAN
  /\ loop \in [next: {"dead", "first", "second", "asleep"}, told: BOOLEAN]
  /\ pass \in [Workers -> Pass]
  /\ loop.next = "dead" => ~Busy("loop")
  /\ clock \in Times /\ answer \in Answers /\ sent \subseteq Symbols

TypesOK == StateOK /\ LogOK(log)

LEMMA BlockersTyped ==
  ASSUME NEW c, NEW k
  PROVE  ConfigBlockers(c, k) \in Reasons
  BY DEF ConfigBlockers, Missing, ReadinessChecks, Reasons

LEMMA RememberedTyped ==
  ASSUME NEW c \in Config, NEW k
  PROVE  Remembered(c, k) \in [mode: Modes, consent: Consents, blockers: Reasons]
  BY BlockersTyped DEF Remembered, Config, Consents

LEMMA ShownTyped ==
  ASSUME NEW c \in Config, NEW k \in BOOLEAN
  PROVE  Shown(c, k).mode \in Modes /\ Shown(c, k).keys \in BOOLEAN
  BY DEF Shown, Config

LEMMA EventsTyped ==
  /\ Other \in Entry /\ Other.kind # "health"
  /\ \A status \in Outcomes, safe \in BOOLEAN :
       Execution(status, safe) \in Entry /\ Execution(status, safe).kind # "health"
  /\ \A mode \in Modes, why \in Reasons, orders \in BOOLEAN : Health(mode, why, orders) \in Entry
  BY DEF Other, Execution, Health, Entry, Reasons

\* An event that another day makes an old one, or that a health event hides.
LEMMA AgedTyped ==
  ASSUME NEW e \in Entry
  PROVE  LET f == [e EXCEPT !.today = FALSE]
             g == [Other EXCEPT !.today = e.today]
         IN /\ f \in Entry /\ f.kind = e.kind
            /\ e.kind = "health" => f.mode = e.mode /\ f.why = e.why /\ f.orders = e.orders
            /\ g \in Entry /\ g.kind = "other"
  BY DEF Entry, Other

LEMMA RecordKeepsLog ==
  ASSUME LogOK(log), NEW e \in Entry, e.kind # "health", Record(<<e>>)
  PROVE  /\ LogOK(log')
         /\ \A i \in DOMAIN log' :
              log'[i].kind = "health" => \E j \in DOMAIN log : log'[i] = log[j]
<1> DEFINE l == <<e>> \o log
<1>1. log \in Seq(Entry) /\ <<e>> \in Seq(Entry)
  BY DEF LogOK
<1>2. /\ l \in Seq(Entry) /\ DOMAIN l = 1..(Len(log) + 1) /\ DOMAIN log = 1..Len(log)
      /\ l[1] = e /\ \A i \in 2..(Len(log) + 1) : l[i] = log[i - 1]
  BY <1>1
<1>3. log' = Newest(l)
  BY DEF Record
<1> HIDE DEF l
<1>4. /\ log' \in Seq(Entry) /\ Len(log') <= Window
      /\ \A i \in DOMAIN log' : i \in DOMAIN l /\ log'[i] = l[i]
  BY <1>2, <1>3, NewestKept
<1>5. \A i \in DOMAIN log' :
        log'[i].kind = "health" => i - 1 \in DOMAIN log /\ log'[i] = log[i - 1]
  <2> TAKE i \in DOMAIN log'
  <2> HAVE log'[i].kind = "health"
  <2>1. i \in 1..(Len(log) + 1) /\ log'[i] = l[i] /\ i # 1
    BY <1>2, <1>4
  <2> QED BY <2>1, <1>1, <1>2
<1>6. \A i, j \in DOMAIN log' : log'[i].kind = "health" /\ log'[j].kind = "health" => i = j
  <2> TAKE i, j \in DOMAIN log'
  <2> HAVE log'[i].kind = "health" /\ log'[j].kind = "health"
  <2>1. i - 1 = j - 1
    BY <1>5 DEF LogOK
  <2>2. i \in Int /\ j \in Int
    BY <1>2, <1>4
  <2> QED BY <2>1, <2>2
<1> QED BY <1>4, <1>5, <1>6 DEF LogOK

\* A report leaves its own event as the only health event.
LEMMA ReportKeepsLog ==
  ASSUME LogOK(log), NEW w, NEW why \in Reasons, NEW orders \in BOOLEAN, NEW times,
         pass[w].config \in Config, Report(w, why, orders, times)
  PROVE  /\ LogOK(log')
         /\ \A i \in DOMAIN log' :
              log'[i].kind = "health" => log'[i] = Health(pass[w].config.mode, why, orders)
<1> DEFINE event == Health(pass[w].config.mode, why, orders)
           extra == IF times = 2 THEN <<Other>> ELSE <<>>
           l == <<event>> \o extra \o Hidden(log)
<1>1. event \in Entry
  BY EventsTyped DEF Config
<1>2. log \in Seq(Entry)
  BY DEF LogOK
<1>3. Hidden(log) \in Seq(Entry) /\ \A i \in DOMAIN Hidden(log) : Hidden(log)[i].kind # "health"
  <2> DEFINE n == Len(log)
  <2>1. n \in Nat /\ DOMAIN log = 1..n
    BY <1>2
  <2>2. ASSUME NEW i \in 1..n
        PROVE  Hidden(log)[i] \in Entry /\ Hidden(log)[i].kind # "health"
    <3>1. log[i] \in Entry
      BY <1>2
    <3>2. Hidden(log)[i] = IF log[i].kind = "health" THEN [Other EXCEPT !.today = log[i].today]
                           ELSE log[i]
      BY <2>1 DEF Hidden
    <3>3. [Other EXCEPT !.today = log[i].today] \in Entry
          /\ [Other EXCEPT !.today = log[i].today].kind = "other"
      BY <3>1, AgedTyped
    <3> QED BY <3>1, <3>2, <3>3
  <2>3. Hidden(log) = [i \in 1..n |-> Hidden(log)[i]]
    BY <2>1 DEF Hidden
  <2> HIDE DEF n
  <2>4. Hidden(log) \in [1..n -> Entry]
    BY <2>2, <2>3
  <2> QED BY <2>1, <2>2, <2>4
<1>4. extra \in Seq(Entry) /\ \A i \in DOMAIN extra : extra[i].kind # "health"
  BY EventsTyped
<1>5. log' = Newest(l)
  BY DEF Report
<1> HIDE DEF event, extra
<1>6. l \in Seq(Entry) /\ l[1] = event /\ \A i \in DOMAIN l : i # 1 => l[i].kind # "health"
  <2> DEFINE r == extra \o Hidden(log)
  <2>1. r \in Seq(Entry) /\ \A i \in DOMAIN r : r[i].kind # "health"
    BY <1>3, <1>4
  <2>2. l = <<event>> \o r
    BY <1>1, <1>3, <1>4
  <2> HIDE DEF r, l
  <2>3. /\ Len(r) \in Nat /\ l \in Seq(Entry) /\ l[1] = event /\ DOMAIN l = 1..(Len(r) + 1)
        /\ DOMAIN r = 1..Len(r) /\ \A i \in 2..(Len(r) + 1) : l[i] = r[i - 1]
    BY <1>1, <2>1, <2>2
  <2>4. ASSUME NEW i \in DOMAIN l, i # 1 PROVE l[i].kind # "health"
    <3>1. i - 1 \in DOMAIN r /\ l[i] = r[i - 1]
      BY <2>3, <2>4
    <3> QED BY <3>1, <2>1
  <2> QED BY <2>3, <2>4
<1> HIDE DEF l
<1>7. /\ log' \in Seq(Entry) /\ Len(log') <= Window
      /\ \A i \in DOMAIN log' : i \in DOMAIN l /\ log'[i] = l[i]
  BY <1>5, <1>6, NewestKept
<1> QED BY <1>6, <1>7 DEF LogOK, event

-----------------------------------------------------------------------------
(* Types, action by action *)

LEMMA InitTypes == DashboardInit => TypesOK
<1> SUFFICES ASSUME DashboardInit PROVE TypesOK
  OBVIOUS
<1>1. file \in Config /\ keys \in BOOLEAN
  BY DashboardConstantsOK DEF DashboardInit
<1>2. closure \in [mode: Modes, consent: Consents, blockers: Reasons]
      /\ shown.mode \in Modes /\ shown.keys \in BOOLEAN
  BY <1>1, RememberedTyped, ShownTyped, DashboardConstantsOK DEF DashboardInit
<1>3. pass \in [Workers -> Pass] /\ ~Busy("loop")
  BY DEF DashboardInit, Idle, Pass, Busy, Workers
<1>4. LogOK(log)
  BY DashboardConstantsOK DEF DashboardInit, LogOK
<1> QED BY <1>1, <1>2, <1>3, <1>4, FirstInstant DEF DashboardInit, TypesOK, StateOK

\* What the requests write is a config.
LEMMA ConfigsWritten ==
  ASSUME NEW c \in Config
  PROVE  /\ \A p \in Payloads : Written(c, p) \in Config /\ Written(c, p).symbols = c.symbols
         /\ c.symbols # <<>> => SafePilot(c) \in Config
         /\ [c EXCEPT !.stop = TRUE] \in Config
<1>1. ASSUME NEW p \in Payloads
      PROVE  Written(c, p) \in Config /\ Written(c, p).symbols = c.symbols
  <2>1. HoursSaved(c, p) \in Config /\ HoursSaved(c, p).symbols = c.symbols
    BY DEF HoursSaved, Config
  <2>2. \A d \in Config : TossSaved(d, p) \in Config /\ TossSaved(d, p).symbols = d.symbols
    BY DEF TossSaved, Config
  <2> QED BY <2>1, <2>2 DEF Written
<1>2. ASSUME c.symbols # <<>> PROVE SafePilot(c) \in Config
  <2>1. Head(c.symbols) \in Symbols
    BY <1>2 DEF Config
  <2> QED BY <2>1 DEF SafePilot, PilotAllowing, Config, Modes
<1>3. [c EXCEPT !.stop = TRUE] \in Config
  BY DEF Config
<1> QED BY <1>1, <1>2, <1>3

LEMMA RequestTypes ==
  ASSUME TypesOK,
         (\E p \in Payloads : SaveSettings(p)) \/ ApplyPilot \/ StopTrading \/ Restart
  PROVE  TypesOK'
<1> USE DEF TypesOK
<1>1. ASSUME NEW p \in Payloads, SaveSettings(p) PROVE TypesOK'
  <2>1. file' \in Config /\ keys' \in BOOLEAN
    BY <1>1, ConfigsWritten DEF SaveSettings, StateOK, Refused
  <2>2. closure' \in [mode: Modes, consent: Consents, blockers: Reasons]
        /\ shown'.mode \in Modes /\ shown'.keys \in BOOLEAN
    <3>1. CASE Refused(p)
      BY <1>1, <3>1 DEF SaveSettings, StateOK
    <3>2. CASE ~Refused(p)
      <4>1. closure' = Remembered(file', keys') /\ shown' = Shown(file', keys')
        BY <1>1, <3>2 DEF SaveSettings
      <4> QED BY <2>1, <4>1, RememberedTyped, ShownTyped
    <3> QED BY <3>1, <3>2
  <2> QED BY <1>1, <2>1, <2>2 DEF SaveSettings, StateOK, Busy, world
<1>2. ASSUME ApplyPilot PROVE TypesOK'
  <2>1. file' \in Config
    BY <1>2, ConfigsWritten DEF ApplyPilot, StateOK
  <2>2. closure' \in [mode: Modes, consent: Consents, blockers: Reasons]
    BY <1>2, <2>1, RememberedTyped DEF ApplyPilot
  <2> QED BY <1>2, <2>1, <2>2 DEF ApplyPilot, StateOK, Busy, world
<1>3. ASSUME StopTrading PROVE TypesOK'
  <2>1. file' \in Config
    BY <1>3, ConfigsWritten DEF StopTrading, StateOK
  <2>2. closure' \in [mode: Modes, consent: Consents, blockers: Reasons]
    BY <1>3, <2>1, RememberedTyped DEF StopTrading
  <2> QED BY <1>3, <2>1, <2>2 DEF StopTrading, StateOK, Busy, world
<1>4. ASSUME Restart PROVE TypesOK'
  <2>1. closure' \in [mode: Modes, consent: Consents, blockers: Reasons]
        /\ shown'.mode \in Modes /\ shown'.keys \in BOOLEAN
    BY <1>4, RememberedTyped, ShownTyped, DashboardConstantsOK DEF Restart, StateOK
  <2>2. pass' \in [Workers -> Pass] /\ ~Busy("loop")'
    BY <1>4 DEF Restart, Pass, Idle, Busy, Workers
  <2> QED BY <1>4, <2>1, <2>2, DashboardConstantsOK DEF Restart, StateOK, world
<1> QED BY <1>1, <1>2, <1>3, <1>4

\* A pass begins with the present file and keys; the smoke test's has been found
\* free of blockers then.
Started(p) ==
  /\ p \in Pass /\ p.at # "idle" /\ p.config = file /\ p.keys = keys
  /\ \/ p.at = "begun"
     \/ p.at = "ran" /\ file.mode = "live" /\ ConfigBlockers(file, keys) = {}

LEMMA PassStarted ==
  ASSUME StateOK, LoopBegins \/ OnceBegins \/ SmokeTest
  PROVE  \/ UNCHANGED pass
         \/ \E w \in Workers, p \in Pass :
              /\ Started(p) /\ BeginPass(w, p)
              /\ w = "loop" => LoopBegins
<1>1. Started(Begins) /\ Begins \in Pass
  BY DEF Begins, Started, Pass, StateOK, Found
<1>2. CASE LoopBegins
  BY <1>1, <1>2 DEF LoopBegins, Workers
<1>3. CASE OnceBegins
  BY <1>1, <1>3 DEF OnceBegins, Workers
<1>4. CASE SmokeTest
  <2>1. ASSUME NEW s \in file.allowed, file.mode = "live", ConfigBlockers(file, keys) = {},
               BeginPass("smoke", [Begins EXCEPT !.at = "ran", !.todo = {s}])
        PROVE  \E w \in Workers, p \in Pass : Started(p) /\ BeginPass(w, p) /\ w # "loop"
    <3> DEFINE p == [Begins EXCEPT !.at = "ran", !.todo = {s}]
    <3>1. {s} \in SUBSET Symbols
      BY DEF StateOK, Config
    <3>2. p \in Pass /\ p.at = "ran" /\ p.config = file /\ p.keys = keys
      BY <1>1, <3>1 DEF Pass, Begins
    <3>3. Started(p) /\ p \in Pass
      BY <2>1, <3>2 DEF Started
    <3> HIDE DEF p
    <3> QED BY <2>1, <3>3 DEF Workers, p
  <2> QED BY <1>4, <2>1 DEF SmokeTest
<1> QED BY <1>2, <1>3, <1>4

LEMMA BeginTypes ==
  ASSUME TypesOK, LoopBegins \/ OnceBegins \/ SmokeTest \/ LoopEnds
  PROVE  TypesOK'
<1> USE DEF TypesOK
<1>1. ASSUME LoopBegins \/ OnceBegins \/ SmokeTest
      PROVE  pass' \in [Workers -> Pass] /\ (Busy("loop")' => Busy("loop") \/ LoopBegins)
  <2>1. CASE UNCHANGED pass
    BY <2>1 DEF StateOK, Busy
  <2>2. ASSUME NEW w \in Workers, NEW p \in Pass, BeginPass(w, p), w = "loop" => LoopBegins
        PROVE  pass' \in [Workers -> Pass] /\ (Busy("loop")' => Busy("loop") \/ LoopBegins)
    BY <2>2 DEF BeginPass, StateOK, Busy, Workers
  <2> QED BY <1>1, <2>1, <2>2, PassStarted
<1>2. ASSUME LoopBegins PROVE TypesOK'
  BY <1>1, <1>2 DEF LoopBegins, StateOK, memory, world
<1>3. ASSUME OnceBegins \/ SmokeTest PROVE TypesOK'
  <2>1. closure' \in [mode: Modes, consent: Consents, blockers: Reasons]
    BY <1>3 DEF OnceBegins, SmokeTest, StateOK, Config, Consents
  <2>2. /\ UNCHANGED <<file, keys, shown, log, loop, world, sent>>
        /\ loop.next = "dead" => ~LoopBegins
    BY <1>3 DEF OnceBegins, SmokeTest, LoopBegins
  <2> QED BY <1>1, <1>3, <2>1, <2>2 DEF StateOK, world
<1>4. ASSUME LoopEnds PROVE TypesOK'
  <2>1. LogOK(log')
    BY <1>4, EventsTyped, RecordKeepsLog DEF LoopEnds
  <2>2. StateOK'
    BY <1>4 DEF LoopEnds, StateOK, Busy, memory, world
  <2> QED BY <2>1, <2>2
<1> QED BY <1>2, <1>3, <1>4

\* What an iteration that ends leaves, whichever worker ran it.
LEMMA AfterTypes ==
  ASSUME StateOK, NEW w \in Workers, Busy(w), After(w)
  PROVE  StateOK'
<1>1. w = "loop" => loop.next # "dead"
  BY DEF StateOK
<1>2. pass[w].config \in Config
  BY DEF StateOK, Pass, Busy
<1>3. closure' \in [mode: Modes, consent: Consents, blockers: Reasons]
  BY <1>2, RememberedTyped DEF After, StateOK
<1>4. pass' \in [Workers -> Pass]
  BY DEF After, StateOK, Pass, Idle
<1>5. loop' \in [next: {"dead", "first", "second", "asleep"}, told: BOOLEAN]
  BY DEF After, StateOK
<1>6. loop'.next = "dead" => ~Busy("loop")'
  BY <1>1 DEF After, StateOK, Busy, Idle, Workers
<1> QED BY <1>3, <1>4, <1>5, <1>6 DEF After, StateOK, world

\* A pass that steps on stays a pass, and the rest of the state is as it was.
LEMMA StepTypes ==
  ASSUME StateOK, NEW w \in Workers, NEW p \in Pass, Busy(w),
         pass' = [pass EXCEPT ![w] = p], sent' \subseteq Symbols,
         UNCHANGED <<file, memory, loop, world>>
  PROVE  StateOK'
<1>1. loop.next = "dead" => w # "loop"
  BY DEF StateOK
<1> QED BY <1>1 DEF StateOK, Busy, memory, world

LEMMA BlockedTypes ==
  ASSUME TypesOK, NEW w \in Workers, NEW why \in Reasons, Busy(w), ReturnBlocked(w, why)
  PROVE  TypesOK'
<1>1. pass[w].config \in Config
  BY DEF TypesOK, StateOK, Pass, Busy
<1>2. LogOK(log')
  BY <1>1, ReportKeepsLog DEF ReturnBlocked, TypesOK
<1> QED BY <1>2, AfterTypes DEF ReturnBlocked, TypesOK

\* What a pass that found no blockers knows when it goes on.
LEMMA RanTyped ==
  ASSUME StateOK, NEW w \in Workers, pass[w].at = "begun", RunOnce(w)
  PROVE  /\ \E p \in Pass : p.at # "idle" /\ p.config = pass[w].config /\ p.keys = pass[w].keys
                          /\ p.at \in {"ran", "done"}
                          /\ (p.at = "ran" => p.config.mode = "live")
                          /\ pass' = [pass EXCEPT ![w] = p]
<1>1. PICK intents \in SUBSET Symbols, why \in Found :
        pass' = [pass EXCEPT
          ![w].at = IF pass[w].config.mode = "live" /\ intents # {} THEN "ran" ELSE "done",
          ![w].todo = intents, ![w].why = why, ![w].orders = intents # {}]
  BY DEF RunOnce, Found
<1> DEFINE p == [pass[w] EXCEPT
                   !.at = IF pass[w].config.mode = "live" /\ intents # {} THEN "ran" ELSE "done",
                   !.todo = intents, !.why = why, !.orders = intents # {}]
<1>2. pass[w] \in Pass /\ pass \in [Workers -> Pass]
  BY DEF StateOK
<1>3. p \in Pass /\ p.config = pass[w].config /\ p.keys = pass[w].keys
      /\ p.at = IF pass[w].config.mode = "live" /\ intents # {} THEN "ran" ELSE "done"
  BY <1>2 DEF Pass
<1>4. pass' = [pass EXCEPT ![w] = p]
  BY <1>1, <1>2
<1> HIDE DEF p
<1>5. /\ p \in Pass /\ p.at # "idle" /\ p.config = pass[w].config /\ p.keys = pass[w].keys
      /\ p.at \in {"ran", "done"} /\ (p.at = "ran" => p.config.mode = "live")
  BY <1>3
<1> QED BY <1>4, <1>5

LEMMA FailuresCounted ==
  ASSUME LogOK(log)
  PROVE  ConsecutiveFailures(log) \in Nat
<1> DEFINE F == {i \in DOMAIN log : Failed(log[i]) /\ \A j \in 1..i : log[j].today /\ ~Succeeded(log[j])}
<1>1. DOMAIN log = 1..Len(log) /\ Len(log) \in Nat
  BY DEF LogOK
<1>2. IsFiniteSet(DOMAIN log)
  BY <1>1, FS_Interval
<1>3. IsFiniteSet(F)
  BY <1>2, FS_Subset
<1> QED BY <1>3, FS_CardinalityType DEF ConsecutiveFailures

LEMMA PassTypes ==
  ASSUME TypesOK, NEW w \in Workers,
         \/ Blocked(w) \/ Evaluate(w) \/ CountFailures(w) \/ EndPass(w) \/ PassFails(w)
         \/ \E s \in Symbols : SubmitOrder(w, s)
  PROVE  TypesOK'
<1> USE DEF TypesOK
<1>0. pass[w] \in Pass
  BY DEF StateOK
<1>1. ASSUME Blocked(w) PROVE TypesOK'
  <2>1. Busy(w)
    BY <1>1 DEF Blocked, Busy
  <2> QED BY <1>1, <2>1, BlockedTypes, BlockersTyped DEF Blocked
<1>2. ASSUME Evaluate(w) PROVE TypesOK'
  <2>1. Busy(w)
    BY <1>2 DEF Evaluate, Busy
  <2>2. {"universe"} \in Reasons /\ \A verdict : SessionBlockers(verdict) \in Reasons
    BY DEF Reasons, SessionBlockers
  <2>3. ASSUME NEW why \in Reasons, ReturnBlocked(w, why) PROVE TypesOK'
    BY <2>1, <2>3, BlockedTypes
  <2>4. ASSUME RunOnce(w),
               UNCHANGED <<file, memory, log, loop, world, bounds, judged, shared, sent, byHand>>
        PROVE  TypesOK'
    <3>1. PICK p \in Pass : pass' = [pass EXCEPT ![w] = p]
      BY <1>2, <2>4, RanTyped DEF Evaluate
    <3> QED BY <2>1, <2>4, <3>1, StepTypes DEF StateOK
  <2> QED BY <1>2, <2>2, <2>3, <2>4 DEF Evaluate
<1>3. ASSUME CountFailures(w) PROVE TypesOK'
  <2>1. Busy(w) /\ pass[w].at = "ran"
    BY <1>3 DEF CountFailures, Busy
  <2> DEFINE p == [pass[w] EXCEPT !.at = "sending", !.failures = ConsecutiveFailures(log)]
  <2>2. p \in Pass
    BY <1>0, <2>1, FailuresCounted DEF Pass
  <2>3. pass' = [pass EXCEPT ![w] = p]
    BY <1>0, <1>3 DEF CountFailures, StateOK
  <2>4. StateOK'
    <3> HIDE DEF p
    <3> QED BY <1>3, <2>1, <2>2, <2>3, StepTypes DEF CountFailures, StateOK
  <2> QED BY <1>3, <2>4, EventsTyped, RecordKeepsLog DEF CountFailures
<1>4. ASSUME NEW s \in Symbols, SubmitOrder(w, s) PROVE TypesOK'
  <2>1. Busy(w) /\ pass[w].at = "sending"
    BY <1>4 DEF SubmitOrder, Busy
  <2>2. LogOK(log')
    BY <1>4, EventsTyped, RecordKeepsLog DEF SubmitOrder
  <2>3. \E p \in Pass : pass' = [pass EXCEPT ![w] = p]
    <3>1. CASE pass' = [pass EXCEPT ![w].todo = @ \ {s}]
      <4>1. [pass[w] EXCEPT !.todo = @ \ {s}] \in Pass
        BY <1>0, <2>1 DEF Pass
      <4> QED BY <3>1, <4>1
    <3>2. ASSUME NEW n \in Nat, pass' = [pass EXCEPT ![w].todo = @ \ {s}, ![w].failures = n]
          PROVE  \E p \in Pass : pass' = [pass EXCEPT ![w] = p]
      <4>1. [pass[w] EXCEPT !.todo = @ \ {s}, !.failures = n] \in Pass
        BY <1>0, <2>1 DEF Pass
      <4>2. pass' = [pass EXCEPT ![w] = [pass[w] EXCEPT !.todo = @ \ {s}, !.failures = n]]
        BY <1>0, <3>2 DEF StateOK
      <4> QED BY <4>1, <4>2
    <3>3. \A event : Tallied(pass[w].failures, event) \in Nat
      BY <1>0, <2>1 DEF Tallied, Pass
    <3> QED BY <1>4, <3>1, <3>2, <3>3 DEF SubmitOrder
  <2>4. sent' \subseteq Symbols
    BY <1>4 DEF SubmitOrder, StateOK
  <2> QED BY <1>4, <2>1, <2>2, <2>3, <2>4, StepTypes DEF SubmitOrder
<1>5. ASSUME EndPass(w) PROVE TypesOK'
  <2>1. Busy(w)
    BY <1>5 DEF EndPass, Busy
  <2>2. pass[w].why \in Reasons /\ pass[w].orders \in BOOLEAN /\ pass[w].config \in Config
    BY <1>0, <2>1 DEF Pass, Found, Reasons, Busy
  <2>3. LogOK(log')
    BY <1>5, <2>2, ReportKeepsLog DEF EndPass
  <2> QED BY <1>5, <2>1, <2>3, AfterTypes DEF EndPass
<1>6. ASSUME PassFails(w) PROVE TypesOK'
  <2>1. pass' \in [Workers -> Pass] /\ ~Busy(w)' /\ \A v \in Workers \ {w} : pass'[v] = pass[v]
    BY <1>6 DEF PassFails, StateOK, Pass, Idle, Busy
  <2>2. LogOK(log')
    BY <1>6, EventsTyped, RecordKeepsLog DEF PassFails
  <2>3. loop' \in [next: {"dead", "first", "second", "asleep"}, told: BOOLEAN]
    <3>1. CASE w = "loop"
      <4>1. loop' = [next |-> "dead", told |-> FALSE]
        BY <1>6, <3>1 DEF PassFails
      <4> QED BY <4>1
    <3>2. CASE w # "loop"
      BY <1>6, <3>2 DEF PassFails, StateOK
    <3> QED BY <3>1, <3>2
  <2>4. loop'.next = "dead" => ~Busy("loop")'
    BY <1>6, <2>1 DEF PassFails, StateOK, Busy, Workers
  <2> QED BY <1>6, <2>1, <2>2, <2>3, <2>4 DEF PassFails, StateOK, memory, world
<1> QED BY <1>1, <1>2, <1>3, <1>4, <1>5, <1>6

LEMMA TimeTypes ==
  ASSUME TypesOK, Tick \/ NextDay
  PROVE  TypesOK'
<1> USE DEF TypesOK
<1>1. ASSUME Tick PROVE TypesOK'
  BY <1>1 DEF Tick, StateOK, Busy, memory
<1>2. ASSUME NextDay PROVE TypesOK'
  <2> DEFINE n == Len(log)
  <2>1. n \in Nat /\ DOMAIN log = 1..n /\ log \in Seq(Entry) /\ n <= Window
    BY DEF LogOK
  <2>2. log' = [i \in 1..n |-> [log[i] EXCEPT !.today = FALSE]]
    BY <1>2, <2>1 DEF NextDay
  <2>3. \A i \in 1..n : log[i] \in Entry
    BY <2>1
  <2> HIDE DEF n
  <2>4. log' \in [1..n -> Entry] /\ \A i \in 1..n : log'[i].kind = log[i].kind
    BY <2>2, <2>3, AgedTyped
  <2>5. log' \in Seq(Entry) /\ Len(log') = n /\ DOMAIN log' = 1..n
    BY <2>1, <2>4
  <2>6. LogOK(log')
    BY <2>1, <2>4, <2>5 DEF LogOK
  <2> QED BY <1>2, <2>6, FirstInstant DEF NextDay, StateOK, Busy, memory
<1> QED BY <1>1, <1>2

LEMMA TypesPreserved == TypesOK /\ [DashboardNext]_dashboardVars => TypesOK'
<1>1. ASSUME TypesOK, DashboardNext PROVE TypesOK'
  BY <1>1, RequestTypes, BeginTypes, PassTypes, TimeTypes DEF DashboardNext
<1>2. ASSUME TypesOK, UNCHANGED dashboardVars PROVE TypesOK'
  BY <1>2 DEF dashboardVars, memory, world, TypesOK, StateOK, LogOK, Busy
<1> QED BY <1>1, <1>2

LEMMA TypesAlways == DashboardSpec => []TypesOK
  BY InitTypes, TypesPreserved, PTL DEF DashboardSpec

LEMMA TypesImplyTypeOK == TypesOK => DashboardTypeOK
<1> SUFFICES ASSUME TypesOK PROVE DashboardTypeOK
  OBVIOUS
<1> DEFINE H == {i \in DOMAIN log : log[i].kind = "health"}
<1>1. Cardinality(H) <= 1
  <2>1. CASE H = {}
    BY <2>1, FS_EmptySet
  <2>2. CASE H # {}
    <3>1. PICK i \in H : TRUE
      BY <2>2
    <3>2. H = {i}
      BY <3>1 DEF TypesOK, LogOK
    <3>3. Cardinality({i}) = 1
      BY FS_Singleton
    <3> QED BY <3>2, <3>3
  <2> QED BY <2>1, <2>2
<1>2. \A w \in Workers : Busy(w) => pass[w].config \in Config /\ pass[w].todo \subseteq Symbols
  BY DEF TypesOK, StateOK, Pass, Busy
<1>3. \A i \in DOMAIN log : log[i] \in Entry
  BY DEF TypesOK, LogOK
<1> QED BY <1>1, <1>2, <1>3 DEF TypesOK, StateOK, LogOK, DashboardTypeOK

\* Types: the log stays within its window and holds one health event that counts.
THEOREM DashboardTypesCorrect == DashboardSpec => []DashboardTypeOK
  BY TypesAlways, TypesImplyTypeOK, PTL

-----------------------------------------------------------------------------
(* The pilot's one symbol *)

Trades(c) == c.mode = "live" /\ c.enabled /\ ~c.stop
\* A config that may trade allows its first symbol only.
Pilots(c) == Trades(c) => c.symbols # <<>> /\ c.allowed = {Head(c.symbols)}

\* A pass that may send has a config that trades, whatever the file says by now.
SendersTrade ==
  \A w \in Workers : pass[w].at \in {"ran", "sending"} => Trades(pass[w].config)
PassesPilot ==
  \A w \in Workers : Busy(w) => pass[w].config.symbols = file.symbols /\ Pilots(pass[w].config)
SentPilot == \A s \in sent : file.symbols # <<>> /\ s = Head(file.symbols)

PilotInv ==
  /\ TypesOK /\ SendersTrade
  /\ byHand \/ (Pilots(file) /\ PassesPilot /\ SentPilot)

\* No request makes a config trade for more than its first symbol.
LEMMA PilotsWritten ==
  ASSUME NEW c \in Config
  PROVE  /\ \A p \in Payloads : Pilots(c) => Pilots(Written(c, p))
         /\ Pilots(SafePilot(c)) \/ c.symbols = <<>>
         /\ SafePilot(c).symbols = c.symbols
         /\ Pilots([c EXCEPT !.stop = TRUE]) /\ [c EXCEPT !.stop = TRUE].symbols = c.symbols
<1>1. ASSUME NEW p \in Payloads, Pilots(c) PROVE Pilots(Written(c, p))
  <2>1. HoursSaved(c, p) \in Config /\ Pilots(HoursSaved(c, p))
    BY <1>1 DEF HoursSaved, Config, Pilots, Trades
  <2>2. \A d \in Config : Pilots(d) => Pilots(TossSaved(d, p))
    BY DEF TossSaved, Config, Pilots, Trades
  <2> QED BY <1>1, <2>1, <2>2 DEF Written
<1>2. (Pilots(SafePilot(c)) \/ c.symbols = <<>>) /\ SafePilot(c).symbols = c.symbols
  BY DEF SafePilot, PilotAllowing, Config, Pilots
<1>3. Pilots([c EXCEPT !.stop = TRUE]) /\ [c EXCEPT !.stop = TRUE].symbols = c.symbols
  BY DEF Config, Pilots, Trades
<1> QED BY <1>1, <1>2, <1>3

LEMMA PilotInit == DashboardInit => PilotInv
<1> SUFFICES ASSUME DashboardInit PROVE PilotInv
  OBVIOUS
<1>1. byHand \/ Pilots(file)
  BY DashboardConstantsOK DEF DashboardInit, Pilots, Trades, Config
<1>2. SendersTrade /\ PassesPilot /\ SentPilot
  BY DEF DashboardInit, SendersTrade, PassesPilot, SentPilot, Idle, Busy
<1> QED BY <1>1, <1>2, InitTypes DEF PilotInv

LEMMA PilotRequests ==
  ASSUME PilotInv, TypesOK',
         (\E p \in Payloads : SaveSettings(p)) \/ ApplyPilot \/ StopTrading \/ Restart
  PROVE  PilotInv'
<1>1. file \in Config
  BY DEF PilotInv, TypesOK, StateOK
<1>2. file'.symbols = file.symbols /\ (byHand \/ Pilots(file'))
  <2>1. ASSUME NEW p \in Payloads, SaveSettings(p)
        PROVE  file'.symbols = file.symbols /\ (byHand \/ Pilots(file'))
    BY <1>1, <2>1, ConfigsWritten, PilotsWritten DEF SaveSettings, PilotInv
  <2>2. ASSUME ApplyPilot \/ StopTrading
        PROVE  file'.symbols = file.symbols /\ (byHand \/ Pilots(file'))
    BY <1>1, <2>2, PilotsWritten DEF ApplyPilot, StopTrading
  <2>3. ASSUME Restart
        PROVE  file'.symbols = file.symbols /\ (byHand \/ Pilots(file'))
    BY <2>3 DEF Restart, PilotInv
  <2> QED BY <2>1, <2>2, <2>3
<1>3. \A w \in Workers : pass'[w] = pass[w] \/ pass'[w] = Idle
  BY DEF SaveSettings, ApplyPilot, StopTrading, Restart
<1>4. UNCHANGED <<sent, byHand>>
  BY DEF SaveSettings, ApplyPilot, StopTrading, Restart
<1>5. SendersTrade'
  BY <1>3 DEF PilotInv, SendersTrade, Idle
<1>6. byHand \/ (PassesPilot' /\ SentPilot')
  BY <1>2, <1>3, <1>4 DEF PilotInv, PassesPilot, SentPilot, Busy, Idle
<1> QED BY <1>2, <1>4, <1>5, <1>6 DEF PilotInv

\* A pass keeps the config it began with; one that may send has one that trades.
PassKept(w) ==
  pass'[w].at # "idle" =>
    \/ /\ Busy(w) /\ pass'[w].config = pass[w].config
       /\ pass'[w].at \in {"ran", "sending"} => Trades(pass[w].config)
    \/ /\ pass'[w].config = file
       /\ pass'[w].at = "begun" \/ Trades(file)

LEMMA PilotKept ==
  ASSUME PilotInv, TypesOK', UNCHANGED <<file, byHand>>,
         \A w \in Workers : PassKept(w),
         byHand \/ \A s \in sent' \ sent : file.symbols # <<>> /\ s = Head(file.symbols)
  PROVE  PilotInv'
<1>1. SendersTrade'
  BY DEF PassKept, SendersTrade
<1>2. byHand \/ PassesPilot'
  BY DEF PilotInv, PassKept, PassesPilot, Busy
<1>3. byHand \/ SentPilot'
  BY DEF PilotInv, SentPilot
<1> QED BY <1>1, <1>2, <1>3 DEF PilotInv

LEMMA PilotBegins ==
  ASSUME PilotInv, TypesOK', LoopBegins \/ OnceBegins \/ SmokeTest \/ LoopEnds \/ Tick \/ NextDay
  PROVE  PilotInv'
<1>1. UNCHANGED <<file, byHand, sent>>
  BY DEF LoopBegins, OnceBegins, SmokeTest, LoopEnds, Tick, NextDay
<1>2. \A w \in Workers : pass'[w] = pass[w] \/ Started(pass'[w])
  <2> USE DEF PilotInv, TypesOK, StateOK
  <2>1. CASE LoopBegins \/ OnceBegins \/ SmokeTest
    BY <2>1, PassStarted DEF BeginPass
  <2>2. CASE LoopEnds \/ Tick \/ NextDay
    BY <2>2 DEF LoopEnds, Tick, NextDay
  <2> QED BY <2>1, <2>2
<1>3. \A w \in Workers : PassKept(w)
  <2>1. file.mode = "live" /\ ConfigBlockers(file, keys) = {} => Trades(file)
    BY NoBlockers DEF Trades
  <2> QED BY <1>2, <2>1 DEF PassKept, Started, Busy, PilotInv, SendersTrade
<1> QED BY <1>1, <1>3, PilotKept

LEMMA PilotPasses ==
  ASSUME PilotInv, TypesOK', NEW w \in Workers,
         \/ Blocked(w) \/ Evaluate(w) \/ CountFailures(w) \/ EndPass(w) \/ PassFails(w)
         \/ \E s \in Symbols : SubmitOrder(w, s)
  PROVE  PilotInv'
<1>0. pass \in [Workers -> Pass] /\ StateOK
  BY DEF PilotInv, TypesOK, StateOK
<1>1. UNCHANGED <<file, byHand>>
  BY DEF Blocked, Evaluate, CountFailures, EndPass, PassFails, SubmitOrder, ReturnBlocked, After
<1>2. \A v \in Workers \ {w} : pass'[v] = pass[v]
  BY <1>0 DEF Blocked, Evaluate, CountFailures, EndPass, PassFails, SubmitOrder, ReturnBlocked, After,
              RunOnce
<1>3. PassKept(w)
  <2>1. CASE pass'[w] = Idle
    BY <2>1 DEF PassKept, Idle
  <2>2. CASE Blocked(w) \/ EndPass(w) \/ PassFails(w)
    BY <1>0, <2>1, <2>2 DEF Blocked, EndPass, PassFails, ReturnBlocked, After
  <2>3. CASE Evaluate(w)
    <3>1. CASE RunOnce(w)
      <4>1. PICK p \in Pass : /\ p.at # "idle" /\ p.config = pass[w].config
                              /\ (p.at = "ran" => p.config.mode = "live")
                              /\ p.at \in {"ran", "done"} /\ pass' = [pass EXCEPT ![w] = p]
        BY <1>0, <2>3, <3>1, RanTyped DEF Evaluate
      <4>2. p.at = "ran" => Trades(p.config)
        BY <2>3, <4>1, NoBlockers DEF Evaluate, Trades
      <4> QED BY <1>0, <2>3, <4>1, <4>2 DEF PassKept, Busy, Evaluate
    <3>2. CASE ~RunOnce(w)
      <4>1. pass' = [pass EXCEPT ![w] = Idle]
        BY <2>3, <3>2 DEF Evaluate, ReturnBlocked, After
      <4> QED BY <1>0, <2>1, <4>1
    <3> QED BY <3>1, <3>2
  <2>4. CASE CountFailures(w)
    <3>1. /\ pass[w].at = "ran" /\ Busy(w)
          /\ pass' = [pass EXCEPT ![w] = [pass[w] EXCEPT !.at = "sending",
                                                        !.failures = ConsecutiveFailures(log)]]
      BY <1>0, <2>4 DEF CountFailures, Busy
    <3>2. pass'[w].config = pass[w].config
      BY <1>0, <3>1 DEF Pass
    <3> QED BY <3>1, <3>2 DEF PassKept, PilotInv, SendersTrade
  <2>5. CASE \E s \in Symbols : SubmitOrder(w, s)
    <3>1. pass[w].at = "sending" /\ Busy(w) /\ pass[w] \in Pass
      BY <1>0, <2>5 DEF SubmitOrder, Busy
    <3>2. pass'[w].config = pass[w].config /\ pass'[w].at = pass[w].at
      <4>1. CASE \E s \in Symbols : pass' = [pass EXCEPT ![w].todo = @ \ {s}]
        BY <1>0, <3>1, <4>1 DEF Pass
      <4>2. CASE \E s \in Symbols, n \in Nat :
                   pass' = [pass EXCEPT ![w].todo = @ \ {s}, ![w].failures = n]
        BY <1>0, <3>1, <4>2 DEF Pass
      <4>3. \A event : Tallied(pass[w].failures, event) \in Nat
        BY <3>1 DEF Tallied, Pass
      <4> QED BY <2>5, <4>1, <4>2, <4>3 DEF SubmitOrder
    <3> QED BY <3>1, <3>2 DEF PassKept, PilotInv, SendersTrade
  <2> QED BY <2>2, <2>3, <2>4, <2>5
<1>4. byHand \/ \A s \in sent' \ sent : file.symbols # <<>> /\ s = Head(file.symbols)
  <2>1. CASE UNCHANGED sent
    BY <2>1
  <2>2. CASE \E s \in Symbols : SubmitOrder(w, s) /\ sent' = sent \cup {s} /\ Allowlisted(w, s)
    <3>1. Busy(w) /\ pass[w].at = "sending"
      BY <2>2 DEF SubmitOrder, Busy
    <3>2. Trades(pass[w].config)
      BY <3>1 DEF PilotInv, SendersTrade
    <3>3. byHand \/ (file.symbols # <<>> /\ pass[w].config.allowed = {Head(file.symbols)})
      BY <3>1, <3>2 DEF PilotInv, PassesPilot, Pilots
    <3> QED BY <2>2, <3>3 DEF Allowlisted
  <2> QED BY <2>1, <2>2 DEF Blocked, Evaluate, CountFailures, EndPass, PassFails, SubmitOrder,
                            ReturnBlocked, After
<1>5. \A v \in Workers : PassKept(v)
  BY <1>2, <1>3 DEF PassKept, Busy, PilotInv, SendersTrade
<1> QED BY <1>1, <1>4, <1>5, PilotKept

LEMMA PilotPreserved == PilotInv /\ [DashboardNext]_dashboardVars => PilotInv'
<1>1. ASSUME PilotInv, DashboardNext, TypesOK' PROVE PilotInv'
  BY <1>1, PilotRequests, PilotBegins, PilotPasses DEF DashboardNext
<1>2. ASSUME PilotInv, UNCHANGED dashboardVars, TypesOK' PROVE PilotInv'
  BY <1>2 DEF dashboardVars, PilotInv, SendersTrade, PassesPilot, SentPilot, Busy, Pilots, Trades
<1> QED BY <1>1, <1>2, TypesPreserved DEF PilotInv

\* If the button alone made the config tradable, orders are sent for the pilot's
\* symbol only.
THEOREM PilotOrdersOneSymbol == DashboardSpec => []PilotOnly
<1>1. PilotInv => PilotOnly
  BY DEF PilotInv, SentPilot, PilotOnly
<1> QED BY PilotInit, PilotPreserved, <1>1, PTL DEF DashboardSpec

-----------------------------------------------------------------------------
(* Ready to order *)

\* What the health event in the log says is what its pass found; orders are
\* reported only by a pass that was not blocked.
Reported(e) ==
  e.kind = "health" =>
    /\ e.mode = judged.file.mode /\ e.why = judged.why
    /\ e.orders => ConfigBlockers(judged.file, judged.keys) = {} /\ judged.why \in Found
PassesClean ==
  \A w \in Workers :
    pass[w].at \in {"ran", "done", "sending"} => ConfigBlockers(pass[w].config, pass[w].keys) = {}

ReadyInv == TypesOK /\ PassesClean /\ \A i \in DOMAIN log : Reported(log[i])

LEMMA ReadyInit == DashboardInit => ReadyInv
<1> SUFFICES ASSUME DashboardInit PROVE ReadyInv
  OBVIOUS
<1>1. PassesClean
  BY DEF DashboardInit, PassesClean, Idle
<1>2. \A i \in DOMAIN log : Reported(log[i])
  BY DEF DashboardInit
<1> QED BY <1>1, <1>2, InitTypes DEF ReadyInv

\* The log keeps its health event, if it is not superseded.
LogKept == \A i \in DOMAIN log' : log'[i].kind = "health" =>
             \E j \in DOMAIN log : /\ log[j].kind = "health" /\ log'[i].mode = log[j].mode
                                   /\ log'[i].why = log[j].why /\ log'[i].orders = log[j].orders

LEMMA ReportedKept ==
  ASSUME ReadyInv, UNCHANGED judged, LogKept
  PROVE  \A i \in DOMAIN log' : Reported(log[i])'
<1> TAKE i \in DOMAIN log'
<1> SUFFICES ASSUME log'[i].kind = "health" PROVE Reported(log[i])'
  BY DEF Reported
<1>1. PICK j \in DOMAIN log :
        /\ log[j].kind = "health" /\ log'[i].mode = log[j].mode
        /\ log'[i].why = log[j].why /\ log'[i].orders = log[j].orders
  BY DEF LogKept
<1>2. Reported(log[j])
  BY DEF ReadyInv
<1> QED BY <1>1, <1>2 DEF Reported

LEMMA RecordKept ==
  ASSUME LogOK(log), NEW e \in Entry, e.kind # "health", Record(<<e>>)
  PROVE  LogKept
  BY RecordKeepsLog DEF LogKept

\* A pass that becomes clean was not blocked; a clean pass stays clean.
CleanKept(w) ==
  pass'[w].at \in {"ran", "done", "sending"} =>
    ConfigBlockers(pass'[w].config, pass'[w].keys) = {}

LEMMA ReadyKept ==
  ASSUME ReadyInv, TypesOK', UNCHANGED judged, LogKept, \A w \in Workers : CleanKept(w)
  PROVE  ReadyInv'
<1>1. PassesClean'
  BY DEF PassesClean, CleanKept
<1> QED BY <1>1, ReportedKept DEF ReadyInv

LEMMA ReadyRequests ==
  ASSUME ReadyInv, TypesOK',
         (\E p \in Payloads : SaveSettings(p)) \/ ApplyPilot \/ StopTrading \/ Restart
         \/ LoopBegins \/ OnceBegins \/ SmokeTest
  PROVE  ReadyInv'
<1>1. UNCHANGED <<judged, log>>
  BY DEF SaveSettings, ApplyPilot, StopTrading, Restart, LoopBegins, OnceBegins, SmokeTest
<1>2. \A w \in Workers : pass'[w] = pass[w] \/ pass'[w] = Idle \/ Started(pass'[w])
  <2> USE DEF ReadyInv, TypesOK, StateOK
  <2>1. CASE LoopBegins \/ OnceBegins \/ SmokeTest
    BY <2>1, PassStarted DEF BeginPass
  <2>2. CASE UNCHANGED pass \/ Restart
    BY <2>2 DEF Restart
  <2> QED BY <2>1, <2>2 DEF SaveSettings, ApplyPilot, StopTrading
<1>3. \A w \in Workers : CleanKept(w)
  BY <1>2 DEF CleanKept, Idle, Started, ReadyInv, PassesClean
<1>4. LogKept
  BY <1>1 DEF LogKept
<1> QED BY <1>1, <1>3, <1>4, ReadyKept

LEMMA ReadyTime ==
  ASSUME ReadyInv, TypesOK', LoopEnds \/ Tick \/ NextDay
  PROVE  ReadyInv'
<1>1. UNCHANGED <<judged, pass>>
  BY DEF LoopEnds, Tick, NextDay
<1>2. \A w \in Workers : CleanKept(w)
  BY <1>1 DEF CleanKept, ReadyInv, PassesClean
<1>3. LogKept
  <2>1. CASE LoopEnds
    BY <2>1, EventsTyped, RecordKept DEF LoopEnds, ReadyInv, TypesOK
  <2>2. CASE Tick
    BY <2>2 DEF Tick, LogKept
  <2>3. CASE NextDay
    <3>1. \A i \in DOMAIN log : log[i] \in Entry
      BY DEF ReadyInv, TypesOK, LogOK
    <3>2. DOMAIN log' = DOMAIN log /\ \A i \in DOMAIN log : log'[i] = [log[i] EXCEPT !.today = FALSE]
      BY <2>3 DEF NextDay
    <3>3. \A i \in DOMAIN log :
            /\ log'[i].kind = log[i].kind
            /\ log[i].kind = "health" => /\ log'[i].mode = log[i].mode /\ log'[i].why = log[i].why
                                         /\ log'[i].orders = log[i].orders
      BY <3>1, <3>2, AgedTyped
    <3> QED BY <3>2, <3>3 DEF LogKept
  <2> QED BY <2>1, <2>2, <2>3
<1> QED BY <1>1, <1>2, <1>3, ReadyKept

\* A report is true when its pass knows what it reports.
LEMMA ReportTrue ==
  ASSUME ReadyInv, NEW w \in Workers, NEW why \in Reasons, NEW orders \in BOOLEAN, NEW times,
         Busy(w), Report(w, why, orders, times),
         orders => ConfigBlockers(pass[w].config, pass[w].keys) = {} /\ why \in Found
  PROVE  \A i \in DOMAIN log' : Reported(log[i])'
<1>1. pass[w].config \in Config
  BY DEF ReadyInv, TypesOK, StateOK, Pass, Busy
<1>2. \A i \in DOMAIN log' :
        log'[i].kind = "health" => log'[i] = Health(pass[w].config.mode, why, orders)
  BY <1>1, ReportKeepsLog DEF ReadyInv, TypesOK
<1>3. judged' = [file |-> pass[w].config, keys |-> pass[w].keys, why |-> why]
  BY DEF Report
<1> QED BY <1>2, <1>3 DEF Reported, Health

LEMMA ReadyAfter ==
  ASSUME ReadyInv, TypesOK', NEW w \in Workers, Busy(w), After(w),
         \A i \in DOMAIN log' : Reported(log[i])'
  PROVE  ReadyInv'
<1>1. \A v \in Workers : pass'[v] = pass[v] \/ pass'[v] = Idle
  BY DEF After, ReadyInv, TypesOK, StateOK
<1>2. PassesClean'
  BY <1>1 DEF ReadyInv, PassesClean, Idle
<1> QED BY <1>2 DEF ReadyInv

LEMMA ReadyBlocked ==
  ASSUME ReadyInv, TypesOK', NEW w \in Workers, NEW why \in Reasons, Busy(w),
         ReturnBlocked(w, why)
  PROVE  ReadyInv'
<1>1. \A i \in DOMAIN log' : Reported(log[i])'
  BY ReportTrue DEF ReturnBlocked
<1> QED BY <1>1, ReadyAfter DEF ReturnBlocked

LEMMA ReadyPasses ==
  ASSUME ReadyInv, TypesOK', NEW w \in Workers,
         \/ Blocked(w) \/ Evaluate(w) \/ CountFailures(w) \/ EndPass(w) \/ PassFails(w)
         \/ \E s \in Symbols : SubmitOrder(w, s)
  PROVE  ReadyInv'
<1>0. pass \in [Workers -> Pass] /\ StateOK /\ LogOK(log)
  BY DEF ReadyInv, TypesOK, StateOK
<1>1. ASSUME Blocked(w) PROVE ReadyInv'
  BY <1>1, BlockersTyped, ReadyBlocked DEF Blocked, Busy
<1>2. ASSUME Evaluate(w) PROVE ReadyInv'
  <2>1. Busy(w) /\ {"universe"} \in Reasons /\ \A verdict : SessionBlockers(verdict) \in Reasons
    BY <1>2 DEF Evaluate, Busy, Reasons, SessionBlockers
  <2>2. ASSUME NEW why \in Reasons, ReturnBlocked(w, why) PROVE ReadyInv'
    BY <2>1, <2>2, ReadyBlocked
  <2>3. ASSUME RunOnce(w), UNCHANGED <<log, judged>> PROVE ReadyInv'
    <3>1. PICK p \in Pass : /\ p.config = pass[w].config /\ p.keys = pass[w].keys
                            /\ pass' = [pass EXCEPT ![w] = p]
      BY <1>0, <1>2, <2>3, RanTyped DEF Evaluate
    <3>2. \A v \in Workers : CleanKept(v)
      BY <1>0, <1>2, <3>1 DEF CleanKept, Evaluate, ReadyInv, PassesClean
    <3> QED BY <2>3, <3>2, ReadyKept DEF LogKept
  <2> QED BY <1>2, <2>1, <2>2, <2>3 DEF Evaluate
<1>3. ASSUME CountFailures(w) PROVE ReadyInv'
  <2>1. /\ pass[w].at = "ran"
        /\ pass' = [pass EXCEPT ![w] = [pass[w] EXCEPT !.at = "sending",
                                                      !.failures = ConsecutiveFailures(log)]]
    BY <1>0, <1>3 DEF CountFailures
  <2>2. pass'[w].config = pass[w].config /\ pass'[w].keys = pass[w].keys
    BY <1>0, <2>1 DEF Pass
  <2>3. \A v \in Workers : CleanKept(v)
    BY <1>0, <2>1, <2>2 DEF CleanKept, ReadyInv, PassesClean
  <2>4. LogKept
    BY <1>0, <1>3, EventsTyped, RecordKept DEF CountFailures
  <2> QED BY <1>3, <2>3, <2>4, ReadyKept DEF CountFailures
<1>4. ASSUME NEW s \in Symbols, SubmitOrder(w, s) PROVE ReadyInv'
  <2>1. pass[w].at = "sending" /\ pass[w] \in Pass
    BY <1>0, <1>4 DEF SubmitOrder
  <2>2. /\ pass'[w].config = pass[w].config /\ pass'[w].keys = pass[w].keys
        /\ \A v \in Workers \ {w} : pass'[v] = pass[v]
    <3>1. CASE pass' = [pass EXCEPT ![w].todo = @ \ {s}]
      BY <1>0, <2>1, <3>1 DEF Pass
    <3>2. CASE \E n \in Nat : pass' = [pass EXCEPT ![w].todo = @ \ {s}, ![w].failures = n]
      BY <1>0, <2>1, <3>2 DEF Pass
    <3>3. \A event : Tallied(pass[w].failures, event) \in Nat
      BY <2>1 DEF Tallied, Pass
    <3> QED BY <1>4, <3>1, <3>2, <3>3 DEF SubmitOrder
  <2>3. \A v \in Workers : CleanKept(v)
    BY <2>1, <2>2 DEF CleanKept, ReadyInv, PassesClean
  <2>4. LogKept
    BY <1>0, <1>4, EventsTyped, RecordKept DEF SubmitOrder
  <2> QED BY <1>4, <2>3, <2>4, ReadyKept DEF SubmitOrder
<1>5. ASSUME EndPass(w) PROVE ReadyInv'
  <2>1. Busy(w) /\ pass[w].at \in {"done", "sending"} /\ pass[w] \in Pass
    BY <1>0, <1>5 DEF EndPass, Busy
  <2>2. ConfigBlockers(pass[w].config, pass[w].keys) = {}
    BY <2>1 DEF ReadyInv, PassesClean
  <2>3. pass[w].why \in Found /\ pass[w].why \in Reasons /\ pass[w].orders \in BOOLEAN
    BY <2>1 DEF Pass, Found, Reasons
  <2>4. \A i \in DOMAIN log' : Reported(log[i])'
    <3>1. CASE Beats(w)
      BY <1>5, <2>1, <2>2, <2>3, <3>1, ReportTrue DEF EndPass
    <3>2. CASE ~Beats(w)
      BY <1>5, <3>2, ReportedKept DEF EndPass, LogKept
    <3> QED BY <3>1, <3>2
  <2> QED BY <1>5, <2>1, <2>4, ReadyAfter DEF EndPass
<1>6. ASSUME PassFails(w) PROVE ReadyInv'
  <2>1. \A v \in Workers : CleanKept(v)
    BY <1>0, <1>6 DEF PassFails, CleanKept, Idle, ReadyInv, PassesClean
  <2>2. LogKept
    BY <1>0, <1>6, EventsTyped, RecordKept DEF PassFails, LogKept
  <2> QED BY <1>6, <2>1, <2>2, ReadyKept DEF PassFails
<1> QED BY <1>1, <1>2, <1>3, <1>4, <1>5, <1>6

LEMMA ReadyPreserved == ReadyInv /\ [DashboardNext]_dashboardVars => ReadyInv'
<1>1. ASSUME ReadyInv, DashboardNext, TypesOK' PROVE ReadyInv'
  BY <1>1, ReadyRequests, ReadyTime, ReadyPasses DEF DashboardNext
<1>2. ASSUME ReadyInv, UNCHANGED dashboardVars, TypesOK' PROVE ReadyInv'
  BY <1>2 DEF dashboardVars, ReadyInv, PassesClean, Reported
<1> QED BY <1>1, <1>2, TypesPreserved DEF ReadyInv

LEMMA ReadyImplies == ReadyInv => ReadyWhenInSync
<1> SUFFICES ASSUME ReadyInv, CanSubmit, shown = Shown(file, keys), judged.file = file,
                    judged.keys = keys
             PROVE  GatesClean /\ judged.why = {}
  BY DEF ReadyWhenInSync
<1> DEFINE heard == {i \in DOMAIN log : log[i].kind = "health" /\ log[i].mode = closure.mode}
<1>1. Snapshot.orders
  BY DEF CanSubmit
<1>2. PICK i \in heard : TRUE
  BY <1>1 DEF Snapshot, Health
<1>3. heard = {i}
  BY DEF ReadyInv, TypesOK, LogOK
<1>4. Snapshot = log[i]
  <2>1. heard \in SUBSET Nat
    BY DEF ReadyInv, TypesOK, LogOK
  <2>2. Min(heard) = i
    BY <1>2, <1>3, <2>1, LeastOf
  <2> QED BY <1>2, <2>2 DEF Snapshot
<1>5. /\ ConfigBlockers(file, keys) = {} /\ judged.why \in Found /\ Snapshot.why = judged.why
  BY <1>1, <1>2, <1>4 DEF ReadyInv, Reported
<1>6. judged.why = {}
  <2>1. "stale" \notin Snapshot.why /\ "reconcile" \notin Snapshot.why
    BY DEF CanSubmit, Present
  <2> QED BY <1>5, <2>1 DEF Found
<1>7. file.mode = "live" /\ file.enabled
  BY DEF CanSubmit, Shown
<1> QED BY <1>5, <1>6, <1>7, NoBlockers DEF GatesClean

\* can_submit_live_orders is right when settings, health event and keys are the
\* present ones.
THEOREM ReadyIsRightInSync == DashboardSpec => []ReadyWhenInSync
  BY ReadyInit, ReadyPreserved, ReadyImplies, PTL DEF DashboardSpec

-----------------------------------------------------------------------------
(* The fuse *)

\* LostInARow for any log.
Row(l, i) ==
  {j \in i..Len(l) : Lost(l[j]) /\ \A k \in i..j : l[k].today /\ ~Taken(l[k])}

\* An order that the final guard or the safety check stopped is logged as rejected.
UnsafeRejected(e) == e.kind = "execution" /\ ~e.safe => e.status = "REJECTED"

\* e keeps no row up that f did not keep up.
Softer(e, f) ==
  /\ Lost(e) => Lost(f)
  /\ e.today => f.today
  /\ Taken(f) => Taken(e)
  /\ UnsafeRejected(f) => UnsafeRejected(e)
\* Behind its newest n events l has what r had, or softer events.
Shifts(l, r, n) ==
  \A j \in DOMAIN l : j > n => j - n \in DOMAIN r /\ Softer(l[j], r[j - n])

LEMMA RowFinite ==
  ASSUME NEW S, NEW l \in Seq(S), NEW i \in Nat
  PROVE  IsFiniteSet(Row(l, i)) /\ Cardinality(Row(l, i)) \in Nat
<1>1. IsFiniteSet(i..Len(l))
  BY FS_Interval
<1>2. Row(l, i) \in SUBSET (i..Len(l))
  BY DEF Row
<1> HIDE DEF Row
<1> QED BY <1>1, <1>2, FS_Subset, FS_CardinalityType

LEMMA RowShifts ==
  ASSUME NEW S, NEW l \in Seq(S), NEW r \in Seq(S), NEW n \in Nat, NEW i \in Nat, i > n,
         Shifts(l, r, n)
  PROVE  Cardinality(Row(l, i)) <= Cardinality(Row(r, i - n))
<1> DEFINE f == [j \in Row(l, i) |-> j - n]
<1>1. ASSUME NEW j \in Row(l, i) PROVE j - n \in Row(r, i - n)
  <2>1. j \in i..Len(l) /\ Lost(l[j]) /\ \A k \in i..j : l[k].today /\ ~Taken(l[k])
    BY <1>1 DEF Row
  <2>2. \A k \in i..j : k \in DOMAIN l /\ k > n
    BY <2>1
  <2>3. \A k \in i..j : k - n \in DOMAIN r /\ Softer(l[k], r[k - n])
    BY <2>2 DEF Shifts
  <2>4. j \in i..j /\ j - n \in (i - n)..Len(r) /\ Lost(r[j - n])
    BY <2>1, <2>3 DEF Softer
  <2>5. ASSUME NEW k \in (i - n)..(j - n) PROVE r[k].today /\ ~Taken(r[k])
    <3>1. k + n \in i..j /\ (k + n) - n = k
      BY <2>1
    <3>2. Softer(l[k + n], r[k])
      BY <2>3, <3>1
    <3> QED BY <2>1, <3>1, <3>2 DEF Softer
  <2> QED BY <2>4, <2>5 DEF Row
<1>2. Row(l, i) \in SUBSET Int
  BY DEF Row
<1> DEFINE A == Row(l, i)
           B == Row(r, i - n)
<1>3. IsFiniteSet(B)
  BY RowFinite
<1> HIDE DEF A, B
<1>4. f \in Injection(A, B)
  <2>1. \A j \in A : j \in Int /\ j - n \in B
    BY <1>1, <1>2 DEF A, B
  <2>2. f = [j \in A |-> j - n]
    BY DEF A
  <2> HIDE DEF f
  <2> QED BY <2>1, <2>2 DEF Injection, IsInjective
<1> HIDE DEF f
<1> QED BY <1>3, <1>4, FS_Injection DEF A, B

\* The event in front of a row adds itself at most, and ends it when it is a success.
LEMMA RowInFront ==
  ASSUME NEW S, NEW l \in Seq(S), NEW i \in Nat
  PROVE  /\ Row(l, i) \subseteq Row(l, i + 1) \cup {i}
         /\ i \in DOMAIN l /\ ~Lost(l[i]) => Row(l, i) \subseteq Row(l, i + 1)
         /\ i \in DOMAIN l /\ Taken(l[i]) => Row(l, i) = {}
         /\ ~(i <= Len(l)) => Row(l, i) = {}
<1>1. ASSUME NEW j \in Row(l, i), j # i PROVE j \in Row(l, i + 1)
  <2>1. j \in i..Len(l) /\ Lost(l[j]) /\ \A k \in i..j : l[k].today /\ ~Taken(l[k])
    BY DEF Row
  <2>2. j \in (i + 1)..Len(l) /\ \A k \in (i + 1)..j : k \in i..j
    BY <1>1, <2>1
  <2> QED BY <2>1, <2>2 DEF Row
<1>2. i \in Row(l, i) => Lost(l[i])
  BY DEF Row
<1>3. \A j \in Row(l, i) : i \in i..j /\ i <= Len(l) /\ ~Taken(l[i])
  BY DEF Row
<1> QED BY <1>1, <1>2, <1>3

QuietLog ==
  \E n \in Nat : /\ Shifts(log', log, n)
                 /\ \A i \in DOMAIN log' : i <= n => ~Lost(log'[i]) /\ UnsafeRejected(log'[i])

AllRejected == \A i \in DOMAIN log : UnsafeRejected(log[i])
Alone == \A v, w \in Workers : Busy(v) /\ Busy(w) => v = w
RowsShort == \A i \in Nat \ {0} : Cardinality(Row(log, i)) <= FailureLimit
SendersCount ==
  \A w \in Workers : pass[w].at = "sending" => Cardinality(Row(log, 1)) <= pass[w].failures

\* A pass that is sending knows of every lost order in the newest row, because no
\* other pass added one since it counted them.
FuseInv ==
  /\ TypesOK /\ AllRejected
  /\ ~shared => Alone /\ RowsShort /\ SendersCount

LEMMA QuietRows ==
  ASSUME LogOK(log), LogOK(log'), AllRejected, QuietLog
  PROVE  /\ AllRejected'
         /\ \A i \in Nat \ {0} :
              \E m \in Nat \ {0} : /\ Cardinality(Row(log', i)) <= Cardinality(Row(log, m))
                                   /\ i = 1 => m = 1
<1>1. PICK n \in Nat :
        /\ Shifts(log', log, n)
        /\ \A i \in DOMAIN log' : i <= n => ~Lost(log'[i]) /\ UnsafeRejected(log'[i])
  BY DEF QuietLog
<1>2. log \in Seq(Entry) /\ log' \in Seq(Entry)
  BY DEF LogOK
<1>3. AllRejected'
  <2> SUFFICES ASSUME NEW i \in DOMAIN log' PROVE UnsafeRejected(log'[i])
    BY DEF AllRejected
  <2>1. i \in Nat
    BY <1>2
  <2>2. CASE i <= n
    BY <1>1, <2>2
  <2>3. CASE i > n
    BY <1>1, <2>3 DEF Shifts, Softer, AllRejected
  <2> QED BY <2>1, <2>2, <2>3
<1>4. ASSUME NEW i \in Nat \ {0}, i > n
      PROVE  Cardinality(Row(log', i)) <= Cardinality(Row(log, i - n))
             /\ i - n \in Nat \ {0} /\ (i = 1 => i - n = 1)
  BY <1>1, <1>2, <1>4, RowShifts
<1>5. ASSUME NEW i \in Nat \ {0}, ~(i > n)
      PROVE  Cardinality(Row(log', i)) <= Cardinality(Row(log, 1))
  <2>1. Row(log', i) \subseteq Row(log', n + 1)
    <3> SUFFICES ASSUME NEW j \in Row(log', i) PROVE j \in Row(log', n + 1)
      OBVIOUS
    <3>1. /\ j \in i..Len(log') /\ Lost(log'[j])
          /\ \A k \in i..j : log'[k].today /\ ~Taken(log'[k])
      BY DEF Row
    <3>2. j \in DOMAIN log' /\ j > n
      BY <1>1, <1>2, <3>1
    <3>3. j \in (n + 1)..Len(log') /\ \A k \in (n + 1)..j : k \in i..j
      BY <1>5, <3>1, <3>2
    <3> QED BY <3>1, <3>3 DEF Row
  <2>2. IsFiniteSet(Row(log', n + 1)) /\ Cardinality(Row(log', i)) \in Nat
        /\ Cardinality(Row(log', n + 1)) \in Nat /\ Cardinality(Row(log, 1)) \in Nat
    <3>1. \A k \in Nat : /\ IsFiniteSet(Row(log', k)) /\ Cardinality(Row(log', k)) \in Nat
                         /\ Cardinality(Row(log, k)) \in Nat
      BY <1>2, RowFinite
    <3> QED BY <3>1
  <2>3. Cardinality(Row(log', i)) <= Cardinality(Row(log', n + 1))
    BY <2>1, <2>2, FS_Subset
  <2>4. Cardinality(Row(log', n + 1)) <= Cardinality(Row(log, (n + 1) - n))
    BY <1>1, <1>2, RowShifts
  <2> QED BY <2>2, <2>3, <2>4
<1> QED BY <1>3, <1>4, <1>5

LEMMA CountedRow ==
  ASSUME LogOK(log), AllRejected
  PROVE  ConsecutiveFailures(log) = Cardinality(Row(log, 1))
<1>1. log \in Seq(Entry) /\ DOMAIN log = 1..Len(log)
  BY DEF LogOK
<1>2. \A i \in DOMAIN log : (Failed(log[i]) <=> Lost(log[i])) /\ (Succeeded(log[i]) <=> Taken(log[i]))
  <2> TAKE i \in DOMAIN log
  <2>1. log[i] \in Entry /\ UnsafeRejected(log[i])
    BY <1>1 DEF AllRejected
  <2>2. log[i].kind = "execution" =>
          /\ log[i].safe \in BOOLEAN
          /\ log[i].status \in {"ACKNOWLEDGED", "REJECTED", "FAILED", "UNKNOWN"}
    BY <2>1, DashboardConstantsOK DEF Entry
  <2> QED BY <2>1, <2>2 DEF Failed, Lost, Succeeded, Taken, UnsafeRejected
<1> DEFINE F == {i \in DOMAIN log :
                   Failed(log[i]) /\ \A j \in 1..i : log[j].today /\ ~Succeeded(log[j])}
<1>3. F = Row(log, 1)
  BY <1>1, <1>2 DEF Row
<1> QED BY <1>3 DEF ConsecutiveFailures

LEMMA RecordShifts ==
  ASSUME LogOK(log), NEW e \in Entry, Record(<<e>>)
  PROVE  Shifts(log', log, 1) /\ \A i \in DOMAIN log' : i <= 1 => log'[i] = e
<1> DEFINE l == <<e>> \o log
<1>1. log \in Seq(Entry)
  BY DEF LogOK
<1>2. /\ l \in Seq(Entry) /\ DOMAIN l = 1..(Len(log) + 1) /\ DOMAIN log = 1..Len(log)
      /\ l[1] = e /\ \A i \in 2..(Len(log) + 1) : l[i] = log[i - 1]
  BY <1>1
<1>3. log' = Newest(l)
  BY DEF Record
<1> HIDE DEF l
<1>4. \A i \in DOMAIN log' : i \in DOMAIN l /\ log'[i] = l[i]
  BY <1>2, <1>3, NewestKept
<1>5. \A i \in DOMAIN log' : i > 1 => i - 1 \in DOMAIN log /\ log'[i] = log[i - 1]
  BY <1>1, <1>2, <1>4
<1>6. \A i \in DOMAIN log' : i <= 1 => log'[i] = e
  BY <1>1, <1>2, <1>4
<1> QED BY <1>5, <1>6 DEF Shifts, Softer

LEMMA QuietRecord ==
  ASSUME LogOK(log), NEW e \in Entry, ~Lost(e), UnsafeRejected(e), Record(<<e>>)
  PROVE  QuietLog
  BY RecordShifts DEF QuietLog

LEMMA Joined ==
  ASSUME NEW S, NEW t \in Seq(S), NEW u \in Seq(S), NEW r, r = t \o u
  PROVE  /\ r \in Seq(S) /\ Len(r) = Len(t) + Len(u)
         /\ \A i \in 1..Len(t) : r[i] = t[i]
         /\ \A i \in (Len(t) + 1)..Len(r) : r[i] = u[i - Len(t)]
  OBVIOUS

LEMMA QuietReport ==
  ASSUME LogOK(log), NEW w, NEW why \in Reasons, NEW orders \in BOOLEAN, NEW times,
         pass[w].config \in Config, Report(w, why, orders, times)
  PROVE  QuietLog
<1> DEFINE event == Health(pass[w].config.mode, why, orders)
           extra == IF times = 2 THEN <<Other>> ELSE <<>>
           n == 1 + Len(extra)
           l == <<event>> \o extra \o Hidden(log)
<1>1. event \in Entry /\ ~Lost(event) /\ UnsafeRejected(event)
  BY EventsTyped DEF Config, Health, Lost, UnsafeRejected
<1>2. log \in Seq(Entry)
  BY DEF LogOK
<1>3. /\ Hidden(log) \in Seq(Entry) /\ Len(Hidden(log)) = Len(log)
      /\ \A i \in 1..Len(log) : Softer(Hidden(log)[i], log[i])
  <2> DEFINE m == Len(log)
  <2>1. m \in Nat /\ DOMAIN log = 1..m
    BY <1>2
  <2>2. ASSUME NEW i \in 1..m
        PROVE  Hidden(log)[i] \in Entry /\ Softer(Hidden(log)[i], log[i])
    <3>1. log[i] \in Entry
      BY <1>2
    <3>2. Hidden(log)[i] = IF log[i].kind = "health" THEN [Other EXCEPT !.today = log[i].today]
                           ELSE log[i]
      BY <2>1 DEF Hidden
    <3> DEFINE g == [Other EXCEPT !.today = log[i].today]
    <3>3. g \in Entry /\ g.kind = "other" /\ g.today = log[i].today
      BY <3>1, AgedTyped DEF Other
    <3> HIDE DEF g
    <3>4. log[i].kind = "health" => Softer(g, log[i])
      BY <3>3 DEF Softer, Lost, Taken, UnsafeRejected
    <3>5. Softer(log[i], log[i])
      BY DEF Softer
    <3> QED BY <3>1, <3>2, <3>3, <3>4, <3>5 DEF g
  <2>3. Hidden(log) = [i \in 1..m |-> Hidden(log)[i]]
    BY <2>1 DEF Hidden
  <2> HIDE DEF m
  <2>4. Hidden(log) \in [1..m -> Entry]
    BY <2>2, <2>3
  <2>5. Hidden(log) \in Seq(Entry) /\ Len(Hidden(log)) = m
    BY <2>1, <2>4
  <2> QED BY <2>2, <2>5 DEF m
<1>4. /\ extra \in Seq(Entry) /\ Len(extra) \in Nat
      /\ \A i \in 1..Len(extra) : ~Lost(extra[i]) /\ UnsafeRejected(extra[i])
  <2>1. ~Lost(Other) /\ UnsafeRejected(Other)
    BY DEF Other, Lost, UnsafeRejected
  <2> QED BY <2>1, EventsTyped
<1>5. log' = Newest(l)
  BY DEF Report
<1> HIDE DEF event, extra
<1>6. /\ l \in Seq(Entry) /\ Len(l) = n + Len(log)
      /\ \A i \in 1..n : ~Lost(l[i]) /\ UnsafeRejected(l[i])
      /\ \A i \in (n + 1)..(n + Len(log)) : l[i] = Hidden(log)[i - n]
  <2> DEFINE r == extra \o Hidden(log)
  <2>1. /\ r \in Seq(Entry) /\ Len(r) = Len(extra) + Len(log)
        /\ \A i \in 1..Len(extra) : r[i] = extra[i]
        /\ \A i \in (Len(extra) + 1)..Len(r) : r[i] = Hidden(log)[i - Len(extra)]
    <3>1. extra \in Seq(Entry) /\ Hidden(log) \in Seq(Entry) /\ Len(Hidden(log)) = Len(log)
      BY <1>3, <1>4
    <3>2. r = extra \o Hidden(log)
      OBVIOUS
    <3> HIDE DEF n, r
    <3>3. r \in Seq(Entry) /\ Len(r) = Len(extra) + Len(Hidden(log))
      BY <3>1, <3>2, Joined
    <3>4. \A i \in 1..Len(extra) : r[i] = extra[i]
      BY <3>1, <3>2, Joined
    <3>5. \A i \in (Len(extra) + 1)..Len(r) : r[i] = Hidden(log)[i - Len(extra)]
      BY <3>1, <3>2, Joined
    <3> QED BY <3>1, <3>3, <3>4, <3>5
  <2>2. l = <<event>> \o r
    BY <1>1, <1>3, <1>4
  <2> HIDE DEF r, l
  <2>3. /\ l \in Seq(Entry) /\ Len(l) = 1 + Len(r) /\ l[1] = event
        /\ \A i \in 2..(Len(r) + 1) : l[i] = r[i - 1]
    BY <1>1, <2>1, <2>2
  <2>4. ASSUME NEW i \in 1..n PROVE ~Lost(l[i]) /\ UnsafeRejected(l[i])
    <3>1. CASE i = 1
      BY <1>1, <2>3, <3>1
    <3>2. CASE i # 1
      <4>1. i - 1 \in 1..Len(extra) /\ i \in 2..(Len(r) + 1)
        BY <1>2, <1>4, <2>1, <3>2
      <4> QED BY <1>4, <2>1, <2>3, <4>1
    <3> QED BY <3>1, <3>2
  <2>5. ASSUME NEW i \in (n + 1)..(n + Len(log)) PROVE l[i] = Hidden(log)[i - n]
    <3>1. i - 1 \in (Len(extra) + 1)..Len(r) /\ i \in 2..(Len(r) + 1)
          /\ (i - 1) - Len(extra) = i - n
      BY <1>2, <1>4, <2>1
    <3> QED BY <2>1, <2>3, <3>1
  <2> QED BY <1>2, <1>4, <2>1, <2>3, <2>4, <2>5
<1>7. n \in Nat /\ Len(log) \in Nat /\ DOMAIN log = 1..Len(log)
  BY <1>2, <1>4
<1> HIDE DEF l, n
<1>8. \A i \in DOMAIN log' : i \in 1..(n + Len(log)) /\ log'[i] = l[i]
  <2>1. DOMAIN l = 1..(n + Len(log))
    BY <1>6
  <2> QED BY <1>5, <1>6, <2>1, NewestKept
<1>9. \A i \in DOMAIN log' : i <= n => ~Lost(log'[i]) /\ UnsafeRejected(log'[i])
  BY <1>6, <1>7, <1>8
<1>10. ASSUME NEW i \in DOMAIN log', i > n
       PROVE  i - n \in DOMAIN log /\ Softer(log'[i], log[i - n])
  <2>1. i \in (n + 1)..(n + Len(log)) /\ i - n \in 1..Len(log)
    BY <1>7, <1>8, <1>10
  <2> QED BY <1>3, <1>6, <1>7, <1>8, <2>1
<1> QED BY <1>7, <1>9, <1>10 DEF QuietLog, Shifts

\* A step that loses no order leaves the fuse as it is.
LEMMA FuseKept ==
  ASSUME FuseInv, TypesOK', QuietLog, shared => shared',
         ~shared' => Alone',
         \A w \in Workers : pass'[w].at = "sending" =>
           \/ pass[w].at = "sending" /\ pass'[w].failures = pass[w].failures
           \/ pass'[w].failures = ConsecutiveFailures(log)
  PROVE  FuseInv'
<1>1. LogOK(log) /\ LogOK(log') /\ AllRejected /\ log \in Seq(Entry) /\ log' \in Seq(Entry)
  BY DEF FuseInv, TypesOK, LogOK
<1>2. /\ AllRejected'
      /\ \A i \in Nat \ {0} :
           \E m \in Nat \ {0} : /\ Cardinality(Row(log', i)) <= Cardinality(Row(log, m))
                                /\ i = 1 => m = 1
  BY <1>1, QuietRows
<1>3. \A i \in Nat : Cardinality(Row(log, i)) \in Nat /\ Cardinality(Row(log', i)) \in Nat
  BY <1>1, RowFinite
<1>4. FailureLimit \in Nat
  BY DashboardConstantsOK
<1> SUFFICES ASSUME ~shared' PROVE RowsShort' /\ SendersCount'
  BY <1>2 DEF FuseInv
<1>5. RowsShort /\ SendersCount
  BY DEF FuseInv
<1>6. RowsShort'
  BY <1>2, <1>3, <1>4, <1>5 DEF RowsShort
<1>7. ASSUME NEW w \in Workers, pass'[w].at = "sending"
      PROVE  Cardinality(Row(log', 1)) <= pass'[w].failures
  <2>1. Cardinality(Row(log', 1)) <= Cardinality(Row(log, 1))
    BY <1>2
  <2>2. Cardinality(Row(log, 1)) <= pass'[w].failures
    <3>1. CASE pass[w].at = "sending" /\ pass'[w].failures = pass[w].failures
      BY <1>5, <3>1 DEF SendersCount
    <3>2. CASE pass'[w].failures = ConsecutiveFailures(log)
      BY <1>1, <1>3, <3>2, CountedRow
    <3> QED BY <1>7, <3>1, <3>2
  <2>3. pass'[w].failures \in Nat
    BY <1>7 DEF TypesOK, StateOK, Pass
  <2> QED BY <1>3, <2>1, <2>2, <2>3
<1> QED BY <1>6, <1>7 DEF SendersCount

LEMMA FuseInit == DashboardInit => FuseInv
<1> SUFFICES ASSUME DashboardInit PROVE FuseInv
  OBVIOUS
<1>1. log = <<>> /\ FailureLimit \in Nat /\ \A w \in Workers : pass[w] = Idle
  BY DashboardConstantsOK DEF DashboardInit
<1>2. \A i \in Nat \ {0} : Row(log, i) = {}
  BY <1>1 DEF Row
<1>3. Cardinality({}) = 0
  BY FS_EmptySet
<1>4. RowsShort
  <2> SUFFICES ASSUME NEW i \in Nat \ {0} PROVE Cardinality(Row(log, i)) <= FailureLimit
    BY DEF RowsShort
  <2>1. Cardinality(Row(log, i)) = 0
    BY <1>2, <1>3, Zenon
  <2> QED BY <1>1, <2>1
<1>5. AllRejected /\ Alone /\ SendersCount
  BY <1>1 DEF AllRejected, Alone, SendersCount, Busy, Idle
<1> QED BY <1>4, <1>5, InitTypes DEF FuseInv

LEMMA FuseRequests ==
  ASSUME FuseInv, TypesOK',
         (\E p \in Payloads : SaveSettings(p)) \/ ApplyPilot \/ StopTrading \/ Restart \/ Tick
  PROVE  FuseInv'
<1>1. UNCHANGED <<log, shared>>
  BY DEF SaveSettings, ApplyPilot, StopTrading, Restart, Tick
<1>2. \A w \in Workers : pass'[w] = pass[w] \/ pass'[w] = Idle
  BY DEF SaveSettings, ApplyPilot, StopTrading, Restart, Tick
<1>3. QuietLog
  <2>1. \A j \in DOMAIN log : j - 0 = j /\ ~(j <= 0)
    BY DEF FuseInv, TypesOK, LogOK
  <2> QED BY <1>1, <2>1 DEF QuietLog, Shifts, Softer
<1>4. ~shared' => Alone'
  BY <1>1, <1>2 DEF FuseInv, Alone, Busy, Idle
<1>5. \A w \in Workers : pass'[w].at = "sending" => pass'[w] = pass[w]
  BY <1>2 DEF Idle
<1> QED BY <1>1, <1>3, <1>4, <1>5, FuseKept

LEMMA FuseBegins ==
  ASSUME FuseInv, TypesOK', LoopBegins \/ OnceBegins \/ SmokeTest
  PROVE  FuseInv'
<1>1. UNCHANGED log
  BY DEF LoopBegins, OnceBegins, SmokeTest
<1>2. shared => shared'
  BY DEF LoopBegins, OnceBegins, SmokeTest, BeginPass
<1>3. QuietLog
  <2>1. \A j \in DOMAIN log : j - 0 = j /\ ~(j <= 0)
    BY DEF FuseInv, TypesOK, LogOK
  <2> QED BY <1>1, <2>1 DEF QuietLog, Shifts, Softer
<1>4. StateOK
  BY DEF FuseInv, TypesOK
<1>5. CASE UNCHANGED pass
  <2>1. ~shared' => Alone'
    BY <1>2, <1>5 DEF FuseInv, Alone, Busy
  <2> QED BY <1>2, <1>3, <1>5, <2>1, FuseKept
<1>6. ASSUME NEW w \in Workers, NEW p \in Pass, Started(p), BeginPass(w, p)
      PROVE  FuseInv'
  <2>1. pass' = [pass EXCEPT ![w] = p] /\ p.at # "sending" /\ pass \in [Workers -> Pass]
    BY <1>4, <1>6 DEF BeginPass, Started, StateOK
  <2>2. ~shared' => \A v \in Workers : ~Busy(v)
    BY <1>6 DEF BeginPass
  <2>3. ~shared' => Alone'
    BY <2>1, <2>2 DEF Alone, Busy
  <2>4. \A v \in Workers : pass'[v].at = "sending" => pass'[v] = pass[v]
    BY <2>1
  <2> QED BY <1>2, <1>3, <2>3, <2>4, FuseKept
<1> QED BY <1>4, <1>5, <1>6, PassStarted

\* What a pass does without losing an order, whether it ends or goes on.
LEMMA FuseStep ==
  ASSUME FuseInv, TypesOK', QuietLog, UNCHANGED shared, NEW w \in Workers, NEW p,
         pass' = [pass EXCEPT ![w] = p], Busy(w) \/ p.at = "idle",
         p.at = "sending" => \/ pass[w].at = "sending" /\ p.failures = pass[w].failures
                             \/ p.failures = ConsecutiveFailures(log)
  PROVE  FuseInv'
<1>1. pass \in [Workers -> Pass]
  BY DEF FuseInv, TypesOK, StateOK
<1>2. ~shared' => Alone'
  BY <1>1 DEF FuseInv, Alone, Busy
<1>3. \A v \in Workers : pass'[v].at = "sending" =>
        \/ pass[v].at = "sending" /\ pass'[v].failures = pass[v].failures
        \/ pass'[v].failures = ConsecutiveFailures(log)
  BY <1>1
<1> QED BY <1>2, <1>3, FuseKept

LEMMA FuseBlocked ==
  ASSUME FuseInv, TypesOK', NEW w \in Workers, NEW why \in Reasons, Busy(w),
         ReturnBlocked(w, why)
  PROVE  FuseInv'
<1>1. pass[w].config \in Config /\ LogOK(log)
  BY DEF FuseInv, TypesOK, StateOK, Pass, Busy
<1>2. QuietLog
  BY <1>1, QuietReport DEF ReturnBlocked
<1>3. UNCHANGED shared /\ pass' = [pass EXCEPT ![w] = Idle] /\ Idle.at = "idle"
  BY DEF ReturnBlocked, After, Idle
<1> QED BY <1>2, <1>3, FuseStep

\* An order is lost only by a pass that counts fewer than the limit.
LEMMA FuseSubmit ==
  ASSUME FuseInv, TypesOK', NEW w \in Workers, NEW s \in Symbols, SubmitOrder(w, s)
  PROVE  FuseInv'
<1>0. /\ pass \in [Workers -> Pass] /\ LogOK(log) /\ LogOK(log') /\ pass[w].at = "sending"
      /\ pass[w] \in Pass /\ pass[w].failures \in Nat /\ UNCHANGED shared /\ Busy(w)
  BY DEF FuseInv, TypesOK, StateOK, SubmitOrder, Pass, Busy
<1>1. CASE pass' = [pass EXCEPT ![w].todo = @ \ {s}] /\ Record(<<Other>>)
  <2> DEFINE p == [pass[w] EXCEPT !.todo = @ \ {s}]
  <2>1. pass' = [pass EXCEPT ![w] = p] /\ p.failures = pass[w].failures
    BY <1>0, <1>1 DEF Pass
  <2>2. QuietLog
    BY <1>0, <1>1, EventsTyped, QuietRecord DEF Other, Lost, UnsafeRejected
  <2> HIDE DEF p
  <2> QED BY <1>0, <2>1, <2>2, FuseStep
<1>2. ASSUME NEW status \in Outcomes, NEW safe \in BOOLEAN,
             IF safe THEN ~FuseBlown(w) ELSE status = "REJECTED",
             pass' = [pass EXCEPT ![w].todo = @ \ {s},
                        ![w].failures = Tallied(@, Execution(status, safe))],
             Record(<<Execution(status, safe)>>)
      PROVE  FuseInv'
  <2> DEFINE event == Execution(status, safe)
             n == Tallied(pass[w].failures, event)
             p == [pass[w] EXCEPT !.todo = @ \ {s}, !.failures = n]
  <2>1. pass' = [pass EXCEPT ![w] = p] /\ p.failures = n /\ p.at = "sending"
    BY <1>0, <1>2 DEF Pass
  <2>2. /\ event \in Entry /\ UnsafeRejected(event) /\ event.today
        /\ event.safe = safe /\ event.status = status /\ event.kind = "execution"
    BY <1>2, EventsTyped DEF Execution, UnsafeRejected
  <2>3. Record(<<event>>)
    BY <1>2
  <2> HIDE DEF event, p
  <2>4. CASE ~safe
    <3>1. ~Lost(event) /\ n = pass[w].failures
      <4>1. status = "REJECTED"
        BY <1>2, <2>4
      <4> QED BY <2>2, <2>4, <4>1 DEF Lost, Tallied, Succeeded
    <3>2. QuietLog
      BY <1>0, <2>2, <2>3, <3>1, QuietRecord
    <3> QED BY <1>0, <2>1, <3>1, <3>2, FuseStep
  <2>5. CASE safe
    <3>1. log \in Seq(Entry) /\ log' \in Seq(Entry) /\ AllRejected /\ FailureLimit \in Nat
      BY <1>0, DashboardConstantsOK DEF LogOK, FuseInv
    <3>2. Shifts(log', log, 1) /\ \A i \in DOMAIN log' : i <= 1 => log'[i] = event
      BY <1>0, <2>2, <2>3, RecordShifts
    <3>3. AllRejected'
      <4> SUFFICES ASSUME NEW i \in DOMAIN log' PROVE UnsafeRejected(log'[i])
        BY DEF AllRejected
      <4>1. i \in Nat
        BY <3>1
      <4>2. CASE i <= 1
        BY <2>2, <3>2, <4>2
      <4>3. CASE i > 1
        BY <3>1, <3>2, <4>3 DEF Shifts, Softer, AllRejected
      <4> QED BY <4>1, <4>2, <4>3
    <3> SUFFICES ASSUME ~shared' PROVE Alone' /\ RowsShort' /\ SendersCount'
      BY <3>3 DEF FuseInv
    <3>4. Alone /\ RowsShort /\ SendersCount
      BY <1>0 DEF FuseInv
    <3>5. Alone'
      BY <1>0, <2>1, <3>4 DEF Alone, Busy
    <3>6. \A i \in Nat : /\ Cardinality(Row(log, i)) \in Nat /\ IsFiniteSet(Row(log', i))
                         /\ Cardinality(Row(log', i)) \in Nat
      BY <3>1, RowFinite
    <3>7. ASSUME NEW i \in Nat \ {0, 1}
          PROVE  Cardinality(Row(log', i)) <= FailureLimit
      <4>1. i > 1 /\ i - 1 \in Nat \ {0}
        BY <3>7
      <4>2. Cardinality(Row(log', i)) <= Cardinality(Row(log, i - 1))
        BY <3>1, <3>2, <4>1, RowShifts
      <4> QED BY <3>1, <3>4, <3>6, <4>1, <4>2 DEF RowsShort
    <3>8. Cardinality(Row(log', 1)) <= n /\ Cardinality(Row(log', 1)) <= FailureLimit
      <4>1. CASE status = "ACKNOWLEDGED"
        <5>1. Taken(event) /\ n = 0
          BY <2>2, <4>1 DEF Taken, Succeeded, Tallied
        <5>2. Row(log', 1) = {}
          <6>1. 1 \in DOMAIN log' => Taken(log'[1])
            BY <3>2, <5>1
          <6>2. 1 \in DOMAIN log' \/ ~(1 <= Len(log'))
            BY <3>1
          <6> QED BY <3>1, <6>1, <6>2, RowInFront
        <5>3. Cardinality({}) = 0
          BY FS_EmptySet
        <5>4. Cardinality(Row(log', 1)) = 0
          BY <5>2, <5>3, Zenon
        <5> HIDE DEF n
        <5> QED BY <3>1, <5>1, <5>4
      <4>2. CASE status # "ACKNOWLEDGED"
        <5>1. n = pass[w].failures + 1 /\ pass[w].failures < FailureLimit
          <6>1. ~(pass[w].failures >= FailureLimit)
            BY <1>2, <2>5 DEF FuseBlown
          <6> QED BY <1>0, <2>2, <2>5, <3>1, <4>2, <6>1 DEF Succeeded, Tallied
        <5>2. Cardinality(Row(log', 2)) <= pass[w].failures
          <6>1. Cardinality(Row(log', 2)) <= Cardinality(Row(log, 2 - 1))
            BY <3>1, <3>2, RowShifts
          <6>2. Cardinality(Row(log, 1)) <= pass[w].failures
            BY <1>0, <3>4 DEF SendersCount
          <6> QED BY <1>0, <3>6, <6>1, <6>2
        <5>3. Cardinality(Row(log', 1)) <= Cardinality(Row(log', 2)) + 1
          <6>1. Row(log', 1) \subseteq Row(log', 2) \cup {1}
            BY <3>1, RowInFront
          <6>2. /\ IsFiniteSet(Row(log', 2) \cup {1})
                /\ Cardinality(Row(log', 2) \cup {1}) <= Cardinality(Row(log', 2)) + 1
                /\ Cardinality(Row(log', 2) \cup {1}) \in Nat
            <7>1. IsFiniteSet(Row(log', 2)) /\ Cardinality(Row(log', 2)) \in Nat
              BY <3>6
            <7>2. /\ IsFiniteSet(Row(log', 2) \cup {1})
                  /\ Cardinality(Row(log', 2) \cup {1}) =
                       IF 1 \in Row(log', 2) THEN Cardinality(Row(log', 2))
                       ELSE Cardinality(Row(log', 2)) + 1
              BY <7>1, FS_AddElement
            <7> QED BY <7>1, <7>2
          <6>3. Cardinality(Row(log', 1)) <= Cardinality(Row(log', 2) \cup {1})
            BY <6>1, <6>2, FS_Subset
          <6> QED BY <3>6, <6>2, <6>3
        <5> HIDE DEF n
        <5>4. Cardinality(Row(log', 1)) \in Nat /\ Cardinality(Row(log', 2)) \in Nat
          BY <3>6
        <5> QED BY <1>0, <3>1, <5>1, <5>2, <5>3, <5>4
      <4> QED BY <4>1, <4>2
    <3>9. RowsShort'
      BY <3>7, <3>8 DEF RowsShort
    <3>10. SendersCount'
      <4> SUFFICES ASSUME NEW v \in Workers, pass'[v].at = "sending"
                   PROVE  Cardinality(Row(log', 1)) <= pass'[v].failures
        BY DEF SendersCount
      <4>1. v = w
        BY <1>0, <2>1, <3>5 DEF Alone, Busy
      <4> QED BY <1>0, <2>1, <3>8, <4>1
    <3> QED BY <3>5, <3>9, <3>10
  <2> QED BY <2>4, <2>5
<1> QED BY <1>1, <1>2 DEF SubmitOrder

LEMMA FusePasses ==
  ASSUME FuseInv, TypesOK', NEW w \in Workers,
         Blocked(w) \/ Evaluate(w) \/ CountFailures(w) \/ EndPass(w) \/ PassFails(w)
  PROVE  FuseInv'
<1>0. /\ pass \in [Workers -> Pass] /\ StateOK /\ LogOK(log) /\ Idle.at = "idle"
      /\ Other \in Entry /\ ~Lost(Other) /\ UnsafeRejected(Other)
  BY EventsTyped DEF FuseInv, TypesOK, StateOK, Idle, Other, Lost, UnsafeRejected
<1>1. UNCHANGED log => QuietLog
  <2>1. \A j \in DOMAIN log : j - 0 = j /\ ~(j <= 0)
    BY <1>0 DEF LogOK
  <2> QED BY <2>1 DEF QuietLog, Shifts, Softer
<1>2. ASSUME Blocked(w) PROVE FuseInv'
  BY <1>2, BlockersTyped, FuseBlocked DEF Blocked, Busy
<1>3. ASSUME Evaluate(w) PROVE FuseInv'
  <2>1. Busy(w) /\ {"universe"} \in Reasons /\ \A verdict : SessionBlockers(verdict) \in Reasons
    BY <1>3 DEF Evaluate, Busy, Reasons, SessionBlockers
  <2>2. ASSUME NEW why \in Reasons, ReturnBlocked(w, why) PROVE FuseInv'
    BY <2>1, <2>2, FuseBlocked
  <2>3. ASSUME RunOnce(w), UNCHANGED <<log, shared>> PROVE FuseInv'
    <3>1. PICK p \in Pass : p.at \in {"ran", "done"} /\ pass' = [pass EXCEPT ![w] = p]
      BY <1>0, <1>3, <2>3, RanTyped DEF Evaluate
    <3> QED BY <1>1, <2>1, <2>3, <3>1, FuseStep
  <2> QED BY <1>3, <2>1, <2>2, <2>3 DEF Evaluate
<1>4. ASSUME CountFailures(w) PROVE FuseInv'
  <2> DEFINE p == [pass[w] EXCEPT !.at = "sending", !.failures = ConsecutiveFailures(log)]
  <2>1. /\ pass' = [pass EXCEPT ![w] = p] /\ p.failures = ConsecutiveFailures(log)
        /\ Busy(w) /\ UNCHANGED shared
    BY <1>0, <1>4 DEF CountFailures, Pass, Busy
  <2>2. QuietLog
    BY <1>0, <1>4, QuietRecord DEF CountFailures
  <2> HIDE DEF p
  <2> QED BY <2>1, <2>2, FuseStep
<1>5. ASSUME EndPass(w) PROVE FuseInv'
  <2>1. /\ Busy(w) /\ pass[w] \in Pass /\ pass' = [pass EXCEPT ![w] = Idle]
        /\ UNCHANGED shared
    BY <1>0, <1>5 DEF EndPass, Busy, After
  <2>2. /\ pass[w].why \in Reasons /\ pass[w].orders \in BOOLEAN /\ pass[w].config \in Config
    BY <2>1 DEF Pass, Found, Reasons, Busy
  <2>3. QuietLog
    BY <1>0, <1>1, <1>5, <2>2, QuietReport DEF EndPass
  <2> QED BY <1>0, <2>1, <2>3, FuseStep
<1>6. ASSUME PassFails(w) PROVE FuseInv'
  <2>1. QuietLog
    BY <1>0, <1>1, <1>6, QuietRecord DEF PassFails
  <2> QED BY <1>0, <1>6, <2>1, FuseStep DEF PassFails
<1> QED BY <1>2, <1>3, <1>4, <1>5, <1>6

\* Another day leaves no row; a pass that goes on over midnight counts as shared.
LEMMA FuseNextDay ==
  ASSUME FuseInv, TypesOK', NextDay
  PROVE  FuseInv'
<1>1. /\ log \in Seq(Entry) /\ log' \in Seq(Entry) /\ pass' = pass
      /\ shared' = (\E w \in Workers : Busy(w)) /\ FailureLimit \in Nat
  BY DashboardConstantsOK DEF FuseInv, TypesOK, LogOK, NextDay
<1>2. \A i \in DOMAIN log' : /\ i \in DOMAIN log /\ log[i] \in Entry
                             /\ log'[i] = [log[i] EXCEPT !.today = FALSE]
  BY <1>1 DEF NextDay
<1>3. \A i \in DOMAIN log' : ~log'[i].today /\ UnsafeRejected(log'[i])
  <2> TAKE i \in DOMAIN log'
  <2>1. UnsafeRejected(log[i]) /\ log[i] \in Entry /\ log'[i] = [log[i] EXCEPT !.today = FALSE]
    BY <1>2 DEF FuseInv, AllRejected
  <2> QED BY <2>1 DEF Entry, UnsafeRejected
<1>4. \A i \in Nat \ {0} : Row(log', i) = {}
  BY <1>1, <1>3 DEF Row
<1>5. ~shared' => \A w \in Workers : pass'[w].at = "idle"
  BY <1>1 DEF Busy
<1>6. AllRejected'
  BY <1>3 DEF AllRejected
<1>7. Cardinality({}) = 0
  BY FS_EmptySet
<1>8. RowsShort'
  <2> SUFFICES ASSUME NEW i \in Nat \ {0} PROVE Cardinality(Row(log', i)) <= FailureLimit
    BY DEF RowsShort
  <2>1. Cardinality(Row(log', i)) = 0
    BY <1>4, <1>7, Zenon
  <2> QED BY <1>1, <2>1
<1>9. ~shared' => Alone' /\ SendersCount'
  BY <1>5 DEF Alone, SendersCount, Busy
<1> QED BY <1>6, <1>8, <1>9 DEF FuseInv

LEMMA FusePreserved == FuseInv /\ [DashboardNext]_dashboardVars => FuseInv'
<1>1. ASSUME FuseInv, LoopEnds, TypesOK' PROVE FuseInv'
  <2>1. /\ LogOK(log) /\ Other \in Entry /\ ~Lost(Other) /\ UnsafeRejected(Other)
        /\ UNCHANGED <<pass, shared>>
    BY <1>1, EventsTyped DEF FuseInv, TypesOK, Other, Lost, UnsafeRejected, LoopEnds
  <2>2. QuietLog
    BY <1>1, <2>1, QuietRecord DEF LoopEnds
  <2>3. ~shared' => Alone'
    BY <1>1, <2>1 DEF FuseInv, Alone, Busy
  <2> QED BY <1>1, <2>1, <2>2, <2>3, FuseKept
<1>2. ASSUME FuseInv, DashboardNext, TypesOK' PROVE FuseInv'
  BY <1>1, <1>2, FuseRequests, FuseBegins, FusePasses, FuseSubmit, FuseNextDay DEF DashboardNext
<1>3. ASSUME FuseInv, UNCHANGED dashboardVars, TypesOK' PROVE FuseInv'
  BY <1>3 DEF dashboardVars, FuseInv, AllRejected, Alone, RowsShort, SendersCount, Busy
<1> QED BY <1>2, <1>3, TypesPreserved DEF FuseInv

\* While one pass runs at a time, no reading of the events ever shows more lost
\* orders of a day in a row than the fuse allows.
THEOREM FuseAlwaysHolds == DashboardSpec => []FuseHolds
<1>1. FuseInv => FuseHolds
  <2> SUFFICES ASSUME FuseInv, ~shared, NEW i \in DOMAIN log
               PROVE  Cardinality(LostInARow(i)) <= FailureLimit
    BY DEF FuseHolds
  <2>1. i \in Nat \ {0}
    BY DEF FuseInv, TypesOK, LogOK
  <2>2. LostInARow(i) = Row(log, i)
    BY DEF LostInARow, Row
  <2> QED BY <2>1, <2>2 DEF FuseInv, RowsShort
<1> QED BY FuseInit, FusePreserved, <1>1, PTL DEF DashboardSpec

-----------------------------------------------------------------------------
(* The market calendar *)

\* No session of the answer ends after a later listed one starts.  That is how the
\* broker lists its day; the code does not look.
Chronological(a) ==
  LET called == SessionNames(Market)
  IN \A i, j \in Offered(a, Market) :
       i < j => a.today[called[i]].to <= a.today[called[j]].from

\* The sessions have different names.
LEMMA NamesDiffer ==
  /\ DOMAIN SessionNames(Market) \in SUBSET Nat
  /\ \A i, j \in DOMAIN SessionNames(Market) : SessionNames(Market)[i] = SessionNames(Market)[j] => i = j
  /\ Range(SessionNames(Market)) = {SessionNames(Market)[i] : i \in DOMAIN SessionNames(Market)}
  BY DEF SessionNames, Range

LEMMA VerdictsExact ==
  ASSUME NEW a \in Answers, a.kind = "official", Chronological(a), NEW now \in Nat \ {0},
         NEW hours
  PROVE  LET offered == Range(SessionNames(Market)) \cap DOMAIN a.today
             on == {n \in offered : a.today[n].from \in 1..now /\ a.today[n].to >= now}
             tradable == on \cap AllowedNames(hours)
             verdict == Verdict(a, Market, hours, now)
         IN /\ verdict.open => tradable # {}
            /\ tradable # {} /\ ~verdict.open => \E n \in on \ tradable : a.today[n].to = now
<1> DEFINE called == SessionNames(Market)
           offered == Range(called) \cap DOMAIN a.today
           on == {n \in offered : a.today[n].from \in 1..now /\ a.today[n].to >= now}
           tradable == on \cap AllowedNames(hours)
           verdict == Verdict(a, Market, hours, now)
           current == {i \in Offered(a, Market) : Within(a.today[called[i]], now)}
           first == Min(current)
<1>1. \A n \in DOMAIN a.today : a.today[n].from \in Nat /\ a.today[n].to \in Nat
  BY DashboardConstantsOK
<1>2. current \in SUBSET Nat
  BY NamesDiffer DEF Offered
<1>3. \A i \in current : called[i] \in on
  <2> TAKE i \in current
  <2>1. i \in DOMAIN called /\ called[i] \in DOMAIN a.today /\ Within(a.today[called[i]], now)
    BY DEF Offered
  <2>2. called[i] \in offered
    BY <2>1, NamesDiffer
  <2> QED BY <1>1, <2>1, <2>2 DEF Within
<1>4. \A n \in on : \E i \in current : called[i] = n
  <2> TAKE n \in on
  <2>1. n \in DOMAIN a.today /\ n \in Range(called) /\ a.today[n].from \in 1..now
        /\ a.today[n].to >= now
    OBVIOUS
  <2>2. PICK i \in DOMAIN called : called[i] = n
    BY <2>1, NamesDiffer
  <2>3. i \in Offered(a, Market) /\ Within(a.today[called[i]], now)
    BY <1>1, <2>1, <2>2 DEF Offered, Within
  <2> QED BY <2>2, <2>3
<1>5. verdict.open <=> current # {} /\ called[first] \in AllowedNames(hours)
  <2>1. verdict = IF Offered(a, Market) = {} THEN Closed("HOLIDAY")
                  ELSE IF current = {} THEN Closed("CLOSED")
                  ELSE [open |-> called[first] \in AllowedNames(hours), known |-> TRUE,
                        status |-> called[first]]
    BY DEF Verdict, OfficialVerdict
  <2>2. Offered(a, Market) = {} => current = {}
    OBVIOUS
  <2>3. ~Closed("HOLIDAY").open /\ ~Closed("CLOSED").open
    BY DEF Closed
  <2> HIDE DEF verdict, current, first
  <2>4. CASE current = {}
    BY <2>1, <2>2, <2>3, <2>4, Zenon
  <2>5. CASE current # {}
    <3>1. verdict.open = (called[first] \in AllowedNames(hours))
      BY <2>1, <2>2, <2>5
    <3> QED BY <2>5, <3>1
  <2> QED BY <2>4, <2>5
<1>6. current # {} => first \in current /\ \A i \in current : first <= i
  BY <1>2, LeastOf
<1> HIDE DEF verdict, current, first
<1>7. verdict.open => tradable # {}
  BY <1>3, <1>5, <1>6
<1>8. ASSUME tradable # {}, ~verdict.open PROVE \E n \in on \ tradable : a.today[n].to = now
  <2>1. PICK n \in tradable : TRUE
    BY <1>8
  <2>2. PICK i \in current : called[i] = n
    BY <1>4
  <2>3. first \in current /\ first <= i /\ called[first] \notin AllowedNames(hours)
    BY <1>5, <1>6, <1>8
  <2>4. called[first] \in on \ tradable
    BY <1>3, <2>3
  <2>5. first < i /\ first \in Offered(a, Market) /\ i \in Offered(a, Market)
    BY <1>2, <2>1, <2>2, <2>3 DEF current
  <2>6. a.today[called[first]].to <= a.today[n].from
    BY <2>2, <2>5 DEF Chronological
  <2>7. a.today[n].from <= now /\ a.today[called[first]].to >= now
        /\ a.today[n].from \in Nat /\ a.today[called[first]].to \in Nat
    BY <1>1, <2>1, <2>4
  <2>8. a.today[called[first]].to = now
    BY <2>6, <2>7
  <2> QED BY <2>4, <2>8
<1> QED BY <1>7, <1>8 DEF verdict

\* When the sessions of every answer come in order of time, the market is open
\* exactly while a session that the bot may trade in is on, except at the instant
\* where such a session starts and another one ends.
THEOREM CalendarIsExact ==
  (\A a \in Answers : a.kind = "official" => Chronological(a)) => (DashboardSpec => []VerdictExact)
<1> SUFFICES ASSUME \A a \in Answers : a.kind = "official" => Chronological(a)
             PROVE  DashboardSpec => []VerdictExact
  OBVIOUS
<1>1. TypesOK => VerdictExact
  <2> SUFFICES ASSUME TypesOK, answer.kind = "official",
                      NEW hours \in {{}, {"regularMarket"}, {"dayMarket", "regularMarket"}}
               PROVE  LET offered == Range(SessionNames(Market)) \cap DOMAIN answer.today
                          on == {n \in offered : answer.today[n].from \in 1..clock
                                                /\ answer.today[n].to >= clock}
                          tradable == on \cap AllowedNames(hours)
                          verdict == Verdict(answer, Market, hours, clock)
                      IN /\ verdict.open => tradable # {}
                         /\ tradable # {} /\ ~verdict.open =>
                              \E n \in on \ tradable : answer.today[n].to = clock
    BY DEF VerdictExact
  <2>1. clock \in Nat \ {0} /\ answer \in Answers /\ Chronological(answer)
    BY DashboardConstantsOK DEF TypesOK, StateOK
  <2> QED BY <2>1, VerdictsExact
<1> QED BY TypesAlways, <1>1, PTL
=============================================================================
