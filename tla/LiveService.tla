----------------------------- MODULE LiveService -----------------------------
(***************************************************************************)
(* The callers of the order path: a live iteration (_paper_service_        *)
(* iteration and _submit_live_intents) and the dashboard's smoke test      *)
(* (run_live_smoke_test), both in operations.py.  They reconcile with the  *)
(* broker, sync the unresolved rows, read the daily counters of the ledger *)
(* and hand PreTradeSafety.validate (live_safety.py) the context on which  *)
(* it decides.  Every value of that context is a snapshot: it is read once *)
(* per pass and used for every intent of the batch.                        *)
(*                                                                         *)
(* Every action is one of LiveExecution with a stronger guard and the      *)
(* caller's own variables, so LiveExecution!Spec holds of this module too. *)
(* Checks on data that is not modelled (symbol, market hours, quantity,    *)
(* cash, position, consecutive failures) can only refuse: Block stays      *)
(* possible for every intent.  One trading day; limit orders that buy.     *)
(***************************************************************************)
EXTENDS LiveExecution, FiniteSetsExt

CONSTANTS
  BatchMax,            \* intents one strategy run may produce
  Price,               \* the notional of an intent
  DailyCountLimit,     \* live.daily_order_count_limit
  DailyNotionalLimit,  \* live.daily_notional_limit
  BlockUnresolved,     \* live.block_unresolved_orders
  CleanSettings        \* what live.require_clean_reconcile may be set to

ASSUME ServiceConstantsOK ==
  /\ BatchMax \in Nat /\ BatchMax > 0
  /\ Price \in [Intents -> Nat]
  /\ DailyCountLimit \in Nat
  /\ DailyNotionalLimit \in Nat
  /\ BlockUnresolved \in BOOLEAN
  /\ CleanSettings \subseteq BOOLEAN

VARIABLES
  batch,    \* the intents of a worker's pass it has not yet submitted
  context,  \* the worker's PreTradeSafetyContext
  mine      \* history: the requests the worker sent in its current pass

serviceVars == <<batch, context, mine>>
allVars == <<vars, serviceVars>>

NoContext ==
  [kind |-> "none", clean |-> FALSE, required |-> TRUE, summarized |-> FALSE,
   count |-> 0, notional |-> 0, remaining |-> 0]

ServiceInit ==
  /\ Init
  /\ batch = [w \in Workers |-> {}]
  /\ context = [w \in Workers |-> NoContext]
  /\ mine = [w \in Workers |-> {}]

-----------------------------------------------------------------------------
(* What a pass reads *)

\* reconcile_positions on live state: holdings were just copied into the local
\* positions, so only orders of GET /orders?status=OPEN can make it unclean.
ReconcileClean == \A b \in BrokerIds : book[b].state \notin OpenOrder

\* execution_summary_since: REJECTED and FAILED rows do not count, and a
\* notional counts only while the row's raw still holds the request.
Counted == {i \in Recorded : rows[i].status \notin {"REJECTED", "FAILED"}}
SummaryCount == Cardinality(Counted)
SummaryNotional == MapThenSumSet(LAMBDA i : Price[i], {i \in Counted : rows[i].priced})

\* Mutant: an order within the notional limit passes, unresolved rows or not.
PassesUnresolved(w, i) ==
  /\ context[w].required => context[w].clean
  /\ context[w].count < DailyCountLimit
  /\ context[w].notional + Price[i] <= DailyNotionalLimit

\* Mutant: the daily count may reach the limit before an order is refused.
PassesAtLimit(w, i) ==
  /\ context[w].required => context[w].clean
  /\ BlockUnresolved => context[w].remaining = 0
  /\ context[w].count <= DailyCountLimit
  /\ context[w].notional + Price[i] <= DailyNotionalLimit

\* The checks of PreTradeSafety.validate whose data is modelled.
Passes(w, i) ==
  /\ context[w].required => context[w].clean
  /\ BlockUnresolved => context[w].remaining = 0
  /\ context[w].count < DailyCountLimit
  /\ context[w].notional + Price[i] <= DailyNotionalLimit

-----------------------------------------------------------------------------
(* The steps of a pass *)

\* A strategy run draws fresh intent ids.
Unused == {i \in Intents : submits[i] = 0} \ UNION {batch[v] : v \in Workers}

Begin(w, kind, clean, required) ==
  context' = [context EXCEPT ![w] =
    [NoContext EXCEPT !.kind = kind, !.clean = clean, !.required = required]]

\* run_once of a live iteration returns no intents unless the reconcile is clean,
\* whatever live.require_clean_reconcile says, and without intents
\* _submit_live_intents returns at once: no sync.
Iterate(w) ==
  /\ context[w].kind = "none"
  /\ ReconcileClean
  /\ \E B \in SUBSET Unused :
       /\ B # {} /\ Cardinality(B) <= BatchMax
       /\ batch' = [batch EXCEPT ![w] = B]
  /\ Begin(w, "iteration", TRUE, TRUE)
  /\ UNCHANGED <<vars, mine>>

\* The smoke test goes on with an unclean reconcile; validate refuses it later,
\* if live.require_clean_reconcile is set in the config file of this pass.
SmokeTest(w) ==
  /\ CancelAfterAck
  /\ context[w].kind = "none"
  /\ \E i \in Unused : batch' = [batch EXCEPT ![w] = {i}]
  /\ \E required \in CleanSettings :
       Begin(w, "smoke_test", ReconcileClean, required)
  /\ UNCHANGED <<vars, mine>>

\* The smoke test reads the daily summary before its sync, an iteration after.
PassSummarized(w) ==
  /\ ~context[w].summarized
  /\ \/ context[w].kind = "smoke_test" /\ pc[w] = "idle"
     \/ context[w].kind = "iteration" /\ pc[w] = "ready"
  /\ context' = [context EXCEPT ![w].count = SummaryCount,
                                ![w].notional = SummaryNotional,
                                ![w].summarized = TRUE]
  /\ UNCHANGED <<vars, batch, mine>>

PassStarts(w) ==
  /\ context[w].kind # "none"
  /\ context[w].kind = "smoke_test" => context[w].summarized
  /\ StartPass(w)
  /\ UNCHANGED serviceVars

\* remaining_unresolved is counted when the sync ends.
PassSynced(w) ==
  /\ EndSync(w)
  /\ context' = [context EXCEPT ![w].remaining = Cardinality(ListUnresolvedExecutionOrders)]
  /\ UNCHANGED <<batch, mine>>

PassChecksKey(w, i) ==
  /\ context[w].summarized
  /\ i \in batch[w]
  /\ CheckKey(w, i)
  /\ batch' = [batch EXCEPT ![w] = @ \ {i}]
  /\ UNCHANGED <<context, mine>>

\* _live_final_guard_blockers: the intent is skipped and the ledger untouched.
FinalGuardBlocks(w, i) ==
  /\ context[w].kind = "iteration"
  /\ pc[w] = "ready" /\ context[w].summarized
  /\ i \in batch[w]
  /\ batch' = [batch EXCEPT ![w] = @ \ {i}]
  /\ UNCHANGED <<vars, context, mine>>

PassClaims(w) ==
  /\ Claim(w)
  /\ Passes(w, cur[w])
  /\ UNCHANGED serviceVars

PassSends(w) ==
  /\ Send(w) \/ Resend(w)
  /\ mine' = [mine EXCEPT ![w] = @ \cup {wire'[w].order}]
  /\ UNCHANGED <<batch, context>>

\* The counters of the pass move only for an accepted execution.
PassAcked(w) ==
  /\ RecordAck(w)
  /\ context' = [context EXCEPT ![w].count = @ + 1,
                                ![w].notional = @ + Price[cur[w]]]
  /\ UNCHANGED <<batch, mine>>

PassOver(w) ==
  /\ batch' = [batch EXCEPT ![w] = {}]
  /\ context' = [context EXCEPT ![w] = NoContext]
  /\ mine' = [mine EXCEPT ![w] = {}]

PassEnds(w) ==
  /\ batch[w] = {}
  /\ context[w].summarized
  /\ EndPass(w)
  /\ PassOver(w)

PassAborts(w) ==
  /\ context[w].kind # "none"
  /\ IF pc[w] = "idle" THEN UNCHANGED vars ELSE Abort(w)
  /\ PassOver(w)

\* Steps that neither read nor change what the caller keeps.
PassContinues(w) ==
  /\ \/ \E i \in Intents : QueryOrder(w, i) \/ QueryFails(w, i)
     \/ RecordSync(w)
     \/ Block(w)
     \/ Unauthorized(w) \/ RenewFails(w)
     \/ PlaceOrderReturns(w)
     \/ RecordUnsent(w) \/ RecordPlaceError(w)
     \/ Cancel(w)
  /\ UNCHANGED serviceVars

ServiceNext ==
  \/ \E w \in Workers :
       \/ Iterate(w) \/ SmokeTest(w)
       \/ PassSummarized(w) \/ PassStarts(w) \/ PassSynced(w)
       \/ \E i \in Intents : PassChecksKey(w, i) \/ FinalGuardBlocks(w, i)
       \/ PassClaims(w) \/ PassSends(w) \/ PassAcked(w)
       \/ PassContinues(w)
       \/ PassEnds(w) \/ PassAborts(w)
  \/ Broker /\ UNCHANGED serviceVars

ServiceSpec == ServiceInit /\ [][ServiceNext]_allVars

-----------------------------------------------------------------------------
(* Properties *)

\* With a single worker, while a pass has an order on the wire, whatever else may
\* still be filled is the pass's own: no crash, lost answer, late arrival or resend
\* lets an order out beside one of an earlier pass that is open or of unknown fate.
\* The one exception is a smoke test of a config that does not require a clean
\* reconcile: it may meet an order whose cancel failed, and no other.
NoOrderWhileInDoubt ==
  Cardinality(Workers) = 1 =>
    \A w \in Workers : pc[w] \in Sending =>
      \A b \in BrokerIds :
        Live(b) => \/ b \in mine[w]
                   \/ GivenUp(b) /\ context[w].kind = "smoke_test" /\ ~context[w].required

\* With a single worker the ledger's own count of the day exceeds the limit
\* only by rows that name no order: a batch counts what was acknowledged, so
\* orders of unknown fate let the rest of it pass, and nothing else does.
CountExceedsByUnknown ==
  Cardinality(Workers) = 1 =>
    SummaryCount <= DailyCountLimit + Cardinality({i \in Counted : rows[i].bid = NoId})
=============================================================================
