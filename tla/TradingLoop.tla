----------------------------- MODULE TradingLoop -----------------------------
(***************************************************************************)
(* The dashboard's control of the live trading loop (build_dashboard_      *)
(* server, run_paper_service, apply_safe_pilot_settings and stop_live_     *)
(* trading_settings in operations.py): the buttons start, stop and run     *)
(* once, the loop thread, the threading.Event that stops it, and the       *)
(* config file, which is the kill switch.                                  *)
(*                                                                         *)
(* The HTTP server of the dashboard is single-threaded (health.py), so it  *)
(* handles one request at a time; the loop threads run beside it.  The     *)
(* file is truncated and then written, and a loop that reads it between    *)
(* the two reads an empty file, which means: every default.                *)
(***************************************************************************)
EXTENDS Naturals

CONSTANTS
  Loops,      \* loop threads, one for each time a loop is started
  Dashboard,  \* the server thread, which runs a live-once iteration itself
  NoLoop,     \* loop_thread is None
  BatchMax    \* the most orders one iteration may submit

ASSUME LoopConstantsOK ==
  /\ Dashboard \notin Loops
  /\ NoLoop \notin Loops
  /\ BatchMax \in Nat

VARIABLES
  config,   \* what load_config would return now
  server,   \* the request the server thread is handling
  draft,    \* the content it is about to write to the file
  phase,    \* where a loop thread, or a live-once iteration, is
  again,    \* run_paper_service's next iteration follows without a sleep
  left,     \* orders the iteration under way may still submit
  event,    \* loop_stop_event of a loop thread
  current,  \* loop_thread
  wanted,   \* history: start was answered last, stop was not requested since
  halted,   \* history: stop was answered last, start was not requested since
  late      \* history: the orders submitted since stop was answered

files == <<config, draft>>
threads == <<phase, again, left>>
history == <<wanted, halted, late>>
loopVars == <<config, server, draft, phase, again, left, event, current, history>>

Runners == Loops \cup {Dashboard}

\* live: runtime.mode is live and toss.live_enabled; stop: live.emergency_stop;
\* account: toss.account_seq is set.
Config == [live: BOOLEAN, stop: BOOLEAN, account: BOOLEAN]
Template == [live |-> FALSE, stop |-> TRUE, account |-> TRUE]
EmptyFile == [live |-> FALSE, stop |-> TRUE, account |-> FALSE]

Request == {"none", "start", "stop", "save", "once"}
Server == [request: Request, written: BOOLEAN]
Idle == [request |-> "none", written |-> FALSE]

\* over: stopped by DashboardTradingLoopStopped; dead: ended by an exception
\* or with the process.
Alive == {"deciding", "iterating", "waiting", "woken"}
Phase == Alive \cup {"unborn", "over", "dead"}

LoopTypeOK ==
  /\ config \in Config /\ draft \in Config
  /\ server \in Server
  /\ phase \in [Runners -> Phase]
  /\ again \in [Runners -> BOOLEAN]
  /\ left \in [Runners -> 0..BatchMax]
  /\ event \in [Loops -> BOOLEAN]
  /\ current \in Loops \cup {NoLoop}
  /\ wanted \in BOOLEAN /\ halted \in BOOLEAN
  /\ late \in Nat

LoopInit ==
  /\ config = Template /\ draft = Template
  /\ server = Idle
  /\ phase = [r \in Runners |-> "unborn"]
  /\ again = [r \in Runners |-> FALSE]
  /\ left = [r \in Runners |-> 0]
  /\ event = [l \in Loops |-> FALSE]
  /\ current = NoLoop
  /\ wanted = FALSE /\ halted = FALSE
  /\ late = 0

-----------------------------------------------------------------------------
(* The server thread *)

Changed(request) ==
  CASE request = "start" -> {[config EXCEPT !.live = TRUE, !.stop = FALSE]}
    [] request = "stop" -> {[config EXCEPT !.stop = TRUE]}
    [] request = "save" -> {config, [config EXCEPT !.account = TRUE]}

\* The handler reads the file and opens it for writing, which empties it.
OpenFile(request) ==
  /\ server = Idle
  /\ request = "start" => \E l \in Loops : phase[l] = "unborn"
  /\ server' = [request |-> request, written |-> FALSE]
  /\ draft' \in Changed(request)
  /\ config' = EmptyFile
  /\ wanted' = (wanted /\ request # "stop")
  /\ halted' = (halted /\ request # "start")
  /\ UNCHANGED <<threads, event, current, late>>

WriteFile ==
  /\ server.request \in {"start", "stop", "save"} /\ ~server.written
  /\ server' = [server EXCEPT !.written = TRUE]
  /\ config' = draft
  /\ UNCHANGED <<draft, threads, event, current, history>>

Answers(request) ==
  /\ server.request = request /\ server.written
  /\ server' = Idle

\* Mutant: a loop that has been told to stop counts as gone.
LoopThreadUntold == \E l \in Loops : l = current /\ phase[l] \in Alive /\ ~event[l]

LoopThreadAlive == \E l \in Loops : l = current /\ phase[l] \in Alive

\* start_dashboard_trading_loop
AnswerStart ==
  /\ Answers("start")
  /\ wanted' = TRUE
  /\ \/ /\ LoopThreadAlive
        /\ UNCHANGED <<threads, event, current>>
     \/ /\ ~LoopThreadAlive
        /\ \E l \in Loops :
             /\ phase[l] = "unborn"
             /\ phase' = [phase EXCEPT ![l] = "deciding"]
             /\ again' = [again EXCEPT ![l] = TRUE]
             /\ event' = [event EXCEPT ![l] = FALSE]
             /\ current' = l
        /\ UNCHANGED left
  /\ UNCHANGED <<files, halted, late>>

AnswerStop ==
  /\ Answers("stop")
  /\ event' = [l \in Loops |-> event[l] \/ l = current]
  /\ halted' = TRUE
  /\ late' = 0
  /\ UNCHANGED <<files, threads, current, wanted>>

AnswerSave ==
  /\ Answers("save")
  /\ UNCHANGED <<files, threads, event, current, history>>

\* live-once: the server thread runs one iteration before it answers.  The
\* smoke test is the same to this module: a batch of one.
RunOnce ==
  /\ server = Idle
  /\ server' = [request |-> "once", written |-> FALSE]
  /\ phase' = [phase EXCEPT ![Dashboard] = "deciding"]
  /\ UNCHANGED <<files, again, left, event, current, history>>

-----------------------------------------------------------------------------
(* run_paper_service *)

\* _paper_service_config_blockers finds none, and run_once may yield intents.
Trades(c) == c.live /\ ~c.stop /\ c.account

\* Mutant: the loop goes by the config it was started with.
LoadNothing(r) ==
  /\ phase[r] = "deciding"
  /\ phase' = [phase EXCEPT ![r] = "iterating"]
  /\ \E n \in 0..BatchMax : left' = [left EXCEPT ![r] = n]
  /\ UNCHANGED <<files, server, again, event, current, history>>

\* An iteration loads the config once and decides on that copy throughout.
LoadConfig(r) ==
  /\ phase[r] = "deciding"
  /\ phase' = [phase EXCEPT ![r] = "iterating"]
  /\ \E n \in 0..BatchMax :
       /\ ~Trades(config) => n = 0
       /\ left' = [left EXCEPT ![r] = n]
  /\ UNCHANGED <<files, server, again, event, current, history>>

\* Mutant: one order more than the batch holds.
SubmitOrderTooMany(r) ==
  /\ phase[r] = "iterating" /\ left[r] >= 0
  /\ left' = [left EXCEPT ![r] = @ - 1]
  /\ late' = IF halted THEN late + 1 ELSE late
  /\ UNCHANGED <<files, server, phase, again, event, current, wanted, halted>>

SubmitOrder(r) ==
  /\ phase[r] = "iterating" /\ left[r] > 0
  /\ left' = [left EXCEPT ![r] = @ - 1]
  /\ late' = IF halted THEN late + 1 ELSE late
  /\ UNCHANGED <<files, server, phase, again, event, current, wanted, halted>>

\* The first iteration stands before the loop and is not followed by a sleep.
EndIteration(r) ==
  /\ phase[r] = "iterating"
  /\ left' = [left EXCEPT ![r] = 0]
  /\ IF r = Dashboard
     THEN /\ phase' = [phase EXCEPT ![r] = "unborn"]
          /\ server' = Idle
          /\ UNCHANGED again
     ELSE /\ phase' = [phase EXCEPT ![r] = IF again[r] THEN "deciding" ELSE "waiting"]
          /\ again' = [again EXCEPT ![r] = FALSE]
          /\ UNCHANGED server
  /\ UNCHANGED <<files, event, current, history>>

\* Mutant: time.sleep in place of Event.wait.
SleepThrough(l) ==
  /\ phase[l] = "waiting"
  /\ phase' = [phase EXCEPT ![l] = "woken"]
  /\ UNCHANGED <<files, server, again, left, event, current, history>>

\* interruptible_sleep: the event ends the loop, or the interval passes.
Sleep(l) ==
  /\ phase[l] = "waiting"
  /\ phase' = [phase EXCEPT ![l] = IF event[l] THEN "over" ELSE "woken"]
  /\ UNCHANGED <<files, server, again, left, event, current, history>>

\* _dashboard_loop_should_stop
ShouldStop(c) == c.live /\ c.stop

WakeUp(l) ==
  /\ phase[l] = "woken"
  /\ phase' = [phase EXCEPT ![l] = IF ShouldStop(config) THEN "over" ELSE "deciding"]
  /\ UNCHANGED <<files, server, again, left, event, current, history>>

\* An exception of an iteration ends the loop thread, or fails the request.
Fails(r) ==
  /\ phase[r] \in {"deciding", "iterating"}
  /\ left' = [left EXCEPT ![r] = 0]
  /\ phase' = [phase EXCEPT ![r] = IF r = Dashboard THEN "unborn" ELSE "dead"]
  /\ server' = IF r = Dashboard THEN Idle ELSE server
  /\ UNCHANGED <<files, again, event, current, history>>

\* The dashboard process dies and is started anew; its threads are daemons.
\* The file stays as it is, possibly empty.
Crash ==
  /\ phase' = [r \in Runners |->
                 IF phase[r] \notin Alive THEN phase[r]
                 ELSE IF r = Dashboard THEN "unborn" ELSE "dead"]
  /\ left' = [r \in Runners |-> 0]
  /\ server' = Idle
  /\ current' = NoLoop
  /\ wanted' = FALSE
  /\ UNCHANGED <<files, again, event, halted, late>>

-----------------------------------------------------------------------------
ServerStep == WriteFile \/ AnswerStart \/ AnswerStop \/ AnswerSave

Iteration(r) == LoadConfig(r) \/ SubmitOrder(r) \/ EndIteration(r)

LoopStep(l) == Iteration(l) \/ Sleep(l) \/ WakeUp(l)

LoopNext ==
  \/ \E request \in {"start", "stop", "save"} : OpenFile(request)
  \/ RunOnce
  \/ ServerStep
  \/ Iteration(Dashboard)
  \/ \E l \in Loops : LoopStep(l)
  \/ \E r \in Runners : Fails(r)
  \/ Crash

\* Threads go on with what they have begun: HTTP requests of an iteration time
\* out, the sleep is bounded, file writes return.  Nobody has to press a button.
LoopSpec ==
  /\ LoopInit /\ [][LoopNext]_loopVars
  /\ WF_loopVars(ServerStep)
  /\ \A l \in Loops : WF_loopVars(LoopStep(l))

-----------------------------------------------------------------------------
(* Properties *)

\* Whatever order start, stop, failures and restarts come in, there is never a
\* second loop thread over the same account, not even while a stopped one is
\* still at work.
AtMostOneLoop ==
  \A k, l \in Loops : phase[k] \in Alive /\ phase[l] \in Alive => k = l

\* After stop has answered, and until start is pressed, no more orders go out
\* than the iteration under way had left: a torn read of the file, a second
\* iteration without a sleep, a save or a restart adds none.
LateOrdersAreOneBatch == late <= BatchMax

\* A stop that was begun ends every loop thread (docs/setup.md:141): by the
\* event or by the file, even if the file reads as empty at every check.
StopEndsTrading ==
  server.request = "stop" ~> \A l \in Loops : phase[l] \notin Alive

\* The inductive invariant behind the two safety properties.
ServerOK ==
  /\ server.request = "once" <=> phase[Dashboard] \in Alive
  /\ server.request = "stop" => IF server.written THEN config.stop ELSE draft.stop
  /\ server.request = "start" => ~halted

ThreadsOK ==
  /\ \A l \in Loops : phase[l] \in Alive => l = current
  /\ \A r \in Runners : phase[r] # "iterating" => left[r] = 0

HaltOK ==
  halted =>
    /\ config.stop
    /\ server.request = "save" => draft.stop
    /\ left[Dashboard] = 0
    /\ \A l \in Loops : late + left[l] <= BatchMax

LoopInv == LoopTypeOK /\ ServerOK /\ ThreadsOK /\ HaltOK /\ late <= BatchMax

\* "Automatic trading is already running" (health.py:3812, the dashboard's
\* text for the answer already_running): a loop that start reported as running
\* is not one that a stop has already ended.
StartedLoopGoesOn ==
  wanted => \A l \in Loops : l = current => phase[l] # "over"
=============================================================================
