---------------------------- MODULE LiveExecution ----------------------------
(***************************************************************************)
(* The live order path of turtle_bot: LiveOrderOrchestrator                *)
(* (live_execution.py) over TossLiveBrokerAdapter (toss_live_adapter.py),  *)
(* the execution_orders table of SQLiteStateStore (state_store.py) and     *)
(* _sync_unresolved_live_execution_orders (operations.py).                 *)
(*                                                                         *)
(* A worker is a process or a thread that runs order passes over one state *)
(* database: the trading loop, a dashboard request that runs one live      *)
(* iteration or the smoke test, the launchd service.  A pass first syncs   *)
(* the unresolved rows with the broker and then submits intents one by     *)
(* one.  Each store transaction and each HTTP exchange is a step of its    *)
(* own, so workers, the broker and the network interleave between them.    *)
(*                                                                         *)
(* The broker and the network are external: a request may reach the broker *)
(* after its sender has given up, and an answer may be lost.               *)
(*                                                                         *)
(* The verdict of PreTradeSafety.validate is an input here (its context is *)
(* an argument of submit): Claim and Block are both possible.  LiveService *)
(* computes it.                                                            *)
(***************************************************************************)
EXTENDS Naturals, FiniteSets

CONSTANTS
  Workers,         \* processes and threads over one state database
  Intents,         \* order intent ids; an intent's idempotency key is its id
  BrokerIds,       \* order ids the broker may assign
  NoId, NoIntent,  \* SQL NULL, and no intent
  SyncLimit,       \* the LIMIT of the rows one sync looks at
  MaxSubmits,      \* how often callers submit one intent id; 1 in production
  CancelAfterAck   \* live.cancel_after_ack

ASSUME ConstantsOK ==
  /\ NoId \notin [order: BrokerIds, cancel: BOOLEAN]
  /\ NoIntent \notin Intents
  /\ SyncLimit \in Nat
  /\ MaxSubmits \in Nat
  /\ CancelAfterAck \in BOOLEAN

VARIABLES
  rows,     \* execution_orders: the row of an intent, status "NONE" if absent
  older,    \* ORDER BY updated_at: older[i] are the rows updated before i's
  submits,  \* how often submit() was called for an intent
  pc,       \* where a worker is in its pass
  cur,      \* the intent a worker is working on
  wire,     \* the request or broker order a worker is waiting for
  answer,   \* the answer a worker has received and not yet recorded
  listed,   \* listed[w][i]: the id under which w's sync still has to query i
  book      \* the broker: requests on the wire and orders

ledger == <<rows, older>>
locals == <<pc, cur, wire, answer, listed>>
vars == <<rows, older, submits, pc, cur, wire, answer, listed, book>>

-----------------------------------------------------------------------------
(* Vocabulary *)

\* The members of ExecutionStatus a row can have.  SENT is only written to
\* events, and nothing here replaces an order.
ExecutionStatus ==
  {"PENDING", "ACKNOWLEDGED", "PENDING_CANCEL", "PARTIAL_FILLED", "FILLED",
   "CANCELLED", "CANCEL_REJECTED", "REJECTED", "FAILED", "UNKNOWN"}

UnresolvedExecutionStatuses ==
  {"PENDING", "PENDING_CANCEL", "ACKNOWLEDGED", "PARTIAL_FILLED", "UNKNOWN"}

\* What the broker has under an id.  WIRE: a create request that is still on
\* its way.  REFUSED: a request that never became an order.
OpenOrder == {"PENDING", "PARTIAL_FILLED", "PENDING_CANCEL"}
ClosedOrder == {"FILLED", "CANCELED", "REJECTED", "EXPIRED"}
Accepted == OpenOrder \cup ClosedOrder
BookState == Accepted \cup {"ABSENT", "WIRE", "REFUSED"}

\* An order is known by the id its creation returned, or by the one its
\* cancellation returned: the cancel response carries an order id of its own.
Id == [order: BrokerIds, cancel: BOOLEAN]

\* cancel: what became of the cancel request whose id the ledger may hold.
Book == [intent: Intents \cup {NoIntent}, state: BookState,
         cancel: {"none", "asked", "refused"}]

Row == [status: ExecutionStatus \cup {"NONE"},
        bid: Id \cup {NoId},      \* broker_order_id
        priced: BOOLEAN]   \* raw still carries request.notional

\* sending: the create request is out; resending: it is out once more, after a
\* 401 and a new token.
Sending == {"sending", "resending"}
PC == {"idle", "syncing", "queried", "ready", "checked", "claimed", "renewing",
       "answered", "acked", "cancel_answered"} \cup Sending

TypeOK ==
  /\ rows \in [Intents -> Row]
  /\ older \in [Intents -> SUBSET Intents]
  /\ submits \in [Intents -> 0..MaxSubmits]
  /\ pc \in [Workers -> PC]
  /\ cur \in [Workers -> Intents \cup {NoIntent}]
  /\ wire \in [Workers -> Id \cup {NoId}]
  /\ answer \in [Workers -> ExecutionStatus \cup {"none", "ack", "known", "unknown"}]
  /\ listed \in [Workers -> [Intents -> Id \cup {NoId}]]
  /\ book \in [BrokerIds -> Book]

Init ==
  /\ rows = [i \in Intents |-> [status |-> "NONE", bid |-> NoId, priced |-> FALSE]]
  /\ older = [i \in Intents |-> {}]
  /\ submits = [i \in Intents |-> 0]
  /\ pc = [w \in Workers |-> "idle"]
  /\ cur = [w \in Workers |-> NoIntent]
  /\ wire = [w \in Workers |-> NoId]
  /\ answer = [w \in Workers |-> "none"]
  /\ listed = [w \in Workers |-> [i \in Intents |-> NoId]]
  /\ book = [b \in BrokerIds |-> [intent |-> NoIntent, state |-> "ABSENT", cancel |-> "none"]]

-----------------------------------------------------------------------------
(* The ledger *)

Recorded == {i \in Intents : rows[i].status # "NONE"}
Unresolved == {i \in Intents : rows[i].status \in UnresolvedExecutionStatuses}

\* INSERT ... ON CONFLICT(intent_id) DO UPDATE: every column is overwritten,
\* broker_order_id and raw included.
RecordExecutionOrder(i, status, bid, priced) ==
  /\ rows' = [rows EXCEPT ![i] = [status |-> status, bid |-> bid, priced |-> priced]]
  /\ older' = [j \in Intents |-> IF j = i THEN Recorded \ {i} ELSE older[j] \ {i}]

HasUnresolvedExecutionKey(i) == i \in Unresolved

\* SELECT ... WHERE status IN (...) ORDER BY updated_at ASC LIMIT SyncLimit.
ListUnresolvedExecutionOrders ==
  {i \in Unresolved : Cardinality(older[i] \cap Unresolved) < SyncLimit}

-----------------------------------------------------------------------------
(* _sync_unresolved_live_execution_orders *)

\* The rows are read once; those without broker_order_id are skipped.
StartPass(w) ==
  /\ pc[w] = "idle"
  /\ pc' = [pc EXCEPT ![w] = "syncing"]
  /\ listed' = [listed EXCEPT ![w] =
       [i \in Intents |-> IF i \in ListUnresolvedExecutionOrders THEN rows[i].bid ELSE NoId]]
  /\ UNCHANGED <<ledger, submits, cur, wire, answer, book>>

\* Mutant: the broker's status is stored as it came.
RawTossStatus(state) == IF state = "CANCELED" THEN "CANCELLED" ELSE state

\* Mutant: an order that has lapsed is taken for a cancelled one.
LapsedIsCancelled(state) ==
  CASE state \in {"CANCELED", "EXPIRED"} -> "CANCELLED"
    [] state \in ExecutionStatus -> state
    [] OTHER -> "UNKNOWN"

\* ExecutionStatus(raw) or UNKNOWN; "CANCELED" is spelled "CANCELLED" locally.
MapTossStatus(state) ==
  CASE state = "CANCELED" -> "CANCELLED"
    [] state \in ExecutionStatus -> state
    [] OTHER -> "UNKNOWN"

\* Under the id of a refused cancel the broker reports the cancel's own end.
Reported(id) ==
  IF id.cancel /\ book[id.order].cancel = "refused"
  THEN "CANCEL_REJECTED"
  ELSE book[id.order].state

QueryOrder(w, i) ==
  /\ pc[w] = "syncing"
  /\ listed[w][i] # NoId
  /\ pc' = [pc EXCEPT ![w] = "queried"]
  /\ cur' = [cur EXCEPT ![w] = i]
  /\ wire' = [wire EXCEPT ![w] = listed[w][i]]
  /\ answer' = [answer EXCEPT ![w] = MapTossStatus(Reported(listed[w][i]))]
  /\ UNCHANGED <<ledger, submits, listed, book>>

\* Any exception of the query is caught and the row is left as it is.
QueryFails(w, i) ==
  /\ pc[w] = "syncing"
  /\ listed[w][i] # NoId
  /\ listed' = [listed EXCEPT ![w][i] = NoId]
  /\ UNCHANGED <<ledger, submits, pc, cur, wire, answer, book>>

Finished(w, next) ==
  /\ pc' = [pc EXCEPT ![w] = next]
  /\ cur' = [cur EXCEPT ![w] = NoIntent]
  /\ wire' = [wire EXCEPT ![w] = NoId]
  /\ answer' = [answer EXCEPT ![w] = "none"]

\* The new raw is {order_state, previous_status, previous_raw}: the request,
\* and with it the notional, is no longer where execution_summary_since looks.
\* The id written is the orderId of the answer, else the one that was asked for.
RecordSync(w) ==
  /\ pc[w] = "queried"
  /\ \E id \in {wire[w], [order |-> wire[w].order, cancel |-> FALSE]} :
       RecordExecutionOrder(cur[w], answer[w], id, FALSE)
  /\ listed' = [listed EXCEPT ![w][cur[w]] = NoId]
  /\ Finished(w, "syncing")
  /\ UNCHANGED <<submits, book>>

EndSync(w) ==
  /\ pc[w] = "syncing"
  /\ \A i \in Intents : listed[w][i] = NoId
  /\ pc' = [pc EXCEPT ![w] = "ready"]
  /\ UNCHANGED <<ledger, submits, cur, wire, answer, listed, book>>

-----------------------------------------------------------------------------
(* LiveOrderOrchestrator.submit *)

\* has_unresolved_execution_key, and _record_rejection if it says duplicate.
CheckKey(w, i) ==
  /\ pc[w] = "ready"
  /\ submits[i] < MaxSubmits
  /\ submits' = [submits EXCEPT ![i] = @ + 1]
  /\ \/ /\ HasUnresolvedExecutionKey(i)
        /\ RecordExecutionOrder(i, "REJECTED", NoId, FALSE)
        /\ UNCHANGED <<pc, cur>>
     \/ /\ ~HasUnresolvedExecutionKey(i)
        /\ pc' = [pc EXCEPT ![w] = "checked"]
        /\ cur' = [cur EXCEPT ![w] = i]
        /\ UNCHANGED ledger
  /\ UNCHANGED <<wire, answer, listed, book>>

\* safety.validate did not pass: _record_rejection.
Block(w) ==
  /\ pc[w] = "checked"
  /\ RecordExecutionOrder(cur[w], "REJECTED", NoId, FALSE)
  /\ Finished(w, "ready")
  /\ UNCHANGED <<submits, listed, book>>

\* safety.validate passed: the row is PENDING before anything is sent.
Claim(w) ==
  /\ pc[w] = "checked"
  /\ RecordExecutionOrder(cur[w], "PENDING", NoId, FALSE)
  /\ pc' = [pc EXCEPT ![w] = "claimed"]
  /\ UNCHANGED <<submits, cur, wire, answer, listed, book>>

\* Mutant: every error of the broker is a failed order.
AnyErrorFailed(a) == "FAILED"

\* The status a LiveBrokerError is recorded with.
ErrorStatus(a) == IF a = "unknown" THEN "UNKNOWN" ELSE "FAILED"

\* Nothing is sent: _order_payload raises (a fractional quantity), or no token
\* is to be had, which may well be an error of unknown state.
RecordUnsent(w) ==
  /\ pc[w] = "claimed"
  /\ \E a \in {"known", "unknown"} :
       RecordExecutionOrder(cur[w], ErrorStatus(a), NoId, FALSE)
  /\ Finished(w, "ready")
  /\ UNCHANGED <<submits, listed, book>>

\* POST /api/v1/orders leaves the process.
Post(w, from, to) ==
  /\ pc[w] = from
  /\ \E b \in BrokerIds :
       /\ book[b].state = "ABSENT"
       /\ book' = [book EXCEPT ![b] = [intent |-> cur[w], state |-> "WIRE", cancel |-> "none"]]
       /\ wire' = [wire EXCEPT ![w] = [order |-> b, cancel |-> FALSE]]
  /\ pc' = [pc EXCEPT ![w] = to]
  /\ UNCHANGED <<ledger, submits, cur, answer, listed>>

Send(w) == Post(w, "claimed", "sending")

\* A 401 answers a request that created no order: the token was refused.
Unauthorized(w) ==
  /\ pc[w] = "sending"
  /\ book[wire[w].order].state = "REFUSED"
  /\ pc' = [pc EXCEPT ![w] = "renewing"]
  /\ UNCHANGED <<ledger, submits, cur, wire, answer, listed, book>>

\* The new token is there: the same payload, under the same clientOrderId, is
\* sent a second time, and the row stays as it is.
Resend(w) == Post(w, "renewing", "resending")

\* issue_token is answered with an error, which becomes that of the order.
RenewFails(w) ==
  /\ pc[w] = "renewing"
  /\ \E a \in {"known", "unknown"} : answer' = [answer EXCEPT ![w] = a]
  /\ pc' = [pc EXCEPT ![w] = "answered"]
  /\ UNCHANGED <<ledger, submits, cur, wire, listed, book>>

\* What place_order returns or raises: a ticket with the order id, an error
\* that settles that there is no order, or an error that leaves it open (5xx,
\* 429, no code, a body without orderId).
PlaceAnswers(b) ==
  {"unknown"} \cup (IF book[b].state \in Accepted THEN {"ack"} ELSE {})
              \cup (IF book[b].state = "REFUSED" THEN {"known"} ELSE {})

\* Mutant: any answer that does not say what happened is followed by a resend.
PlaceOrderRetries(w) ==
  /\ pc[w] \in Sending
  /\ \E a \in PlaceAnswers(wire[w].order) :
       /\ answer' = [answer EXCEPT ![w] = a]
       /\ pc' = [pc EXCEPT ![w] =
            IF a = "unknown" /\ pc[w] = "sending" THEN "renewing" ELSE "answered"]
  /\ UNCHANGED <<ledger, submits, cur, wire, listed, book>>

\* A second 401 is an error like any other.
PlaceOrderReturns(w) ==
  /\ pc[w] \in Sending
  /\ \E a \in PlaceAnswers(wire[w].order) : answer' = [answer EXCEPT ![w] = a]
  /\ pc' = [pc EXCEPT ![w] = "answered"]
  /\ UNCHANGED <<ledger, submits, cur, wire, listed, book>>

RecordAck(w) ==
  /\ pc[w] = "answered"
  /\ answer[w] = "ack"
  /\ RecordExecutionOrder(cur[w], "ACKNOWLEDGED", wire[w], TRUE)
  /\ answer' = [answer EXCEPT ![w] = "none"]
  /\ \/ /\ CancelAfterAck
        /\ pc' = [pc EXCEPT ![w] = "acked"]
        /\ UNCHANGED <<cur, wire>>
     \/ /\ ~CancelAfterAck
        /\ pc' = [pc EXCEPT ![w] = "ready"]
        /\ cur' = [cur EXCEPT ![w] = NoIntent]
        /\ wire' = [wire EXCEPT ![w] = NoId]
  /\ UNCHANGED <<submits, listed, book>>

RecordPlaceError(w) ==
  /\ pc[w] = "answered"
  /\ answer[w] # "ack"
  /\ RecordExecutionOrder(cur[w], ErrorStatus(answer[w]), NoId, FALSE)
  /\ Finished(w, "ready")
  /\ UNCHANGED <<submits, listed, book>>

-----------------------------------------------------------------------------
(* LiveOrderOrchestrator.cancel_acknowledged *)

\* The cancel request reaches the broker, or does not, and its answer arrives,
\* or does not.  A refused cancel (already filled, cancel-restricted, any 4xx)
\* says nothing about the order being closed.  A cancel answered with 401 had no
\* effect, and the one sent again is the one here.
CancelOrder(w) ==
  /\ pc[w] = "acked"
  /\ pc' = [pc EXCEPT ![w] = "cancel_answered"]
  /\ \/ /\ book[wire[w].order].state \in OpenOrder
        /\ book' = [book EXCEPT ![wire[w].order].state = "PENDING_CANCEL",
                                ![wire[w].order].cancel = "asked"]
        /\ \/ /\ answer' = [answer EXCEPT ![w] = "ack"]
              /\ wire' = [wire EXCEPT ![w].cancel = TRUE]
           \/ /\ answer' = [answer EXCEPT ![w] = "unknown"]
              /\ UNCHANGED wire
     \/ /\ \E a \in {"known", "unknown"} : answer' = [answer EXCEPT ![w] = a]
        /\ UNCHANGED <<wire, book>>
  /\ UNCHANGED <<ledger, submits, cur, listed>>

\* Mutant: an accepted cancel request is taken for a cancelled order.
AcceptedIsCancelled(a) == IF a = "ack" THEN "CANCELLED" ELSE ErrorStatus(a)

\* The ticket of an accepted cancel holds the cancel's id.
CancelStatus(a) == IF a = "ack" THEN "PENDING_CANCEL" ELSE ErrorStatus(a)

\* Mutant: the row of a failed cancel is written without broker_order_id.
RecordCancelAnonymous(w) ==
  /\ pc[w] = "cancel_answered"
  /\ RecordExecutionOrder(cur[w], CancelStatus(answer[w]),
                          IF answer[w] = "ack" THEN wire[w] ELSE NoId, FALSE)
  /\ Finished(w, "ready")
  /\ UNCHANGED <<submits, listed, book>>

RecordCancel(w) ==
  /\ pc[w] = "cancel_answered"
  /\ RecordExecutionOrder(cur[w], CancelStatus(answer[w]), wire[w], FALSE)
  /\ Finished(w, "ready")
  /\ UNCHANGED <<submits, listed, book>>

EndPass(w) ==
  /\ pc[w] = "ready"
  /\ pc' = [pc EXCEPT ![w] = "idle"]
  /\ UNCHANGED <<ledger, submits, cur, wire, answer, listed, book>>

\* The process dies, or an exception that is no LiveBrokerError (a socket
\* timeout, a URLError) unwinds the pass.  What was not recorded is lost.
Abort(w) ==
  /\ pc[w] # "idle"
  /\ Finished(w, "idle")
  /\ listed' = [listed EXCEPT ![w] = [i \in Intents |-> NoId]]
  /\ UNCHANGED <<ledger, submits, book>>

-----------------------------------------------------------------------------
(* The broker and the network: external *)

Arrives(b) ==
  /\ book[b].state = "WIRE"
  /\ \E s \in {"PENDING", "REFUSED"} : book' = [book EXCEPT ![b].state = s]
  /\ UNCHANGED <<ledger, submits, locals>>

Later(state) ==
  CASE state = "PENDING" -> {"PARTIAL_FILLED", "PENDING_CANCEL", "FILLED", "REJECTED", "EXPIRED"}
    [] state = "PARTIAL_FILLED" -> {"PENDING_CANCEL", "FILLED", "EXPIRED"}
    [] state = "PENDING_CANCEL" -> {"CANCELED", "FILLED"}
    [] OTHER -> {}

Progresses(b) ==
  /\ \E s \in Later(book[b].state) : book' = [book EXCEPT ![b].state = s]
  /\ UNCHANGED <<ledger, submits, locals>>

\* An accepted cancel is refused at the exchange: the order lives on, or was
\* filled first.
CancelLoses(b) ==
  /\ book[b].state = "PENDING_CANCEL"
  /\ book[b].cancel = "asked"
  /\ \E s \in {"PENDING", "FILLED"} :
       book' = [book EXCEPT ![b].state = s, ![b].cancel = "refused"]
  /\ UNCHANGED <<ledger, submits, locals>>

-----------------------------------------------------------------------------
Sync(w) ==
  \/ StartPass(w)
  \/ \E i \in Intents : QueryOrder(w, i) \/ QueryFails(w, i)
  \/ RecordSync(w)
  \/ EndSync(w)

Submit(w) ==
  \/ \E i \in Intents : CheckKey(w, i)
  \/ Block(w)
  \/ Claim(w)
  \/ RecordUnsent(w)
  \/ Send(w) \/ Unauthorized(w) \/ Resend(w) \/ RenewFails(w)
  \/ PlaceOrderReturns(w)
  \/ RecordAck(w)
  \/ RecordPlaceError(w)

Cancel(w) == CancelOrder(w) \/ RecordCancel(w)

Broker == \E b \in BrokerIds : Arrives(b) \/ Progresses(b) \/ CancelLoses(b)

Next ==
  \/ \E w \in Workers : Sync(w) \/ Submit(w) \/ Cancel(w) \/ EndPass(w) \/ Abort(w)
  \/ Broker

Spec == Init /\ [][Next]_vars

-----------------------------------------------------------------------------
(* Properties *)

Own(i) == {b \in BrokerIds : book[b].intent = i}
Live(b) == book[b].state \in OpenOrder \cup {"WIRE"}

\* The request is under way or became an order.
Stands(b) == book[b].state \notin {"ABSENT", "REFUSED"}

\* An intent may have several requests at the broker, since a 401 makes the
\* adapter send the order again; at most one of them is under way or became an
\* order, whatever is lost, late or aborted in between ("Prevent duplicate submit
\* for the same idempotency key", docs/phase-7-live-order-architecture.md:90).
OneOrderPerKey ==
  MaxSubmits = 1 =>
    \A i \in Intents : \A b, c \in Own(i) : Stands(b) /\ Stands(c) => b = c

\* The ledger keeps the order's id but no longer treats it as unresolved: its
\* cancel failed.
GivenUp(b) ==
  LET row == rows[book[b].intent]
  IN  /\ row.bid # NoId /\ row.bid.order = b
      /\ row.status \in {"FAILED", "CANCEL_REJECTED"}

\* A request on the wire or an open order is always behind an unresolved row,
\* so it blocks further orders; the one exception is an order whose cancel
\* failed.  A crash, a late arrival or a stale sync never hides an order.
LiveOrderTracked ==
  \A b \in BrokerIds :
    Live(b) => book[b].intent \in Unresolved \/ GivenUp(b)

\* A row that says how an order ended says what the broker says: with a broker
\* id, FILLED, CANCELLED and REJECTED are that order's own end; without one,
\* REJECTED and FAILED mean that no order exists.
EndedRowsTruthful ==
  \A i \in Intents :
    LET row == rows[i]
    IN  IF row.bid = NoId
        THEN /\ row.status \notin {"FILLED", "CANCELLED"}
             /\ row.status = "REJECTED" => Own(i) = {}
             /\ row.status = "FAILED" => \A b \in Own(i) : book[b].state = "REFUSED"
        ELSE /\ row.bid.order \in Own(i)
             /\ book[row.bid.order].state \in Accepted
             /\ row.status = "FILLED" => book[row.bid.order].state = "FILLED"
             /\ row.status = "CANCELLED" => book[row.bid.order].state = "CANCELED"
             /\ row.status = "REJECTED" => book[row.bid.order].state = "REJECTED"

\* Once a row names a broker order it never forgets it or names another: a
\* row without the id is skipped by every later sync.
BrokerOrderKept ==
  [][\A i \in Intents :
       rows[i].bid # NoId =>
         rows'[i].bid # NoId /\ rows'[i].bid.order = rows[i].bid.order]_vars

\* A row that recorded one end of an order is never rewritten to another end:
\* a second worker's stale answer can reopen it for the next sync, and a
\* failed cancel can mark it FAILED, but FILLED never turns into CANCELLED.
Ended == {"FILLED", "CANCELLED", "REJECTED"}
EndNeverContradicted ==
  [][\A i \in Intents :
       rows[i].status \in Ended /\ rows'[i].status \in Ended
         => rows'[i].status = rows[i].status]_vars

-----------------------------------------------------------------------------
(* The contract of an intent that is submitted once: OrderClaim *)

ClaimOf(row) ==
  IF row.status = "NONE" THEN "none"
  ELSE IF row.status \in UnresolvedExecutionStatuses THEN "held"
  ELSE IF row.bid = NoId THEN "refused"
  ELSE IF row.status \in {"FAILED", "CANCEL_REJECTED"} THEN "abandoned"
  ELSE "settled"

OrderOf(i) ==
  IF \E b \in Own(i) : book[b].state \in OpenOrder THEN "open"
  ELSE IF \E b \in Own(i) : book[b].state \in ClosedOrder THEN "done"
  ELSE "none"

claims == [i \in Intents |-> ClaimOf(rows[i])]
orders == [i \in Intents |-> OrderOf(i)]

Contract == INSTANCE OrderClaim WITH claim <- claims, order <- orders

\* Whatever workers, broker and network do, an order comes into being only
\* under a held claim, and the ledger settles a claim only when the order is
\* over: each step of this module is one step of OrderClaim, or none (for
\* MaxSubmits = 1).
KeepsContract == Contract!ClaimSpec

-----------------------------------------------------------------------------
(* The inductive invariant behind the properties, for MaxSubmits = 1 *)

Placing == Sending \cup {"renewing", "answered"}
Waiting == Placing \cup {"acked", "cancel_answered"}
Submitting == {"checked", "claimed"} \cup Waiting

LocalsOK ==
  \A w \in Workers :
    /\ pc[w] \in Submitting \cup {"queried"} => cur[w] \in Intents
    /\ pc[w] \in Waiting \cup {"queried"} => wire[w] \in Id
    /\ pc[w] \in Placing => ~wire[w].cancel
    /\ pc[w] = "queried" => answer[w] \in ExecutionStatus \ {"FAILED"}

\* An intent is in the hands of one worker, and nobody else's before that.
SubmittedOnce ==
  /\ \A w \in Workers : pc[w] \in Submitting => submits[cur[w]] = 1
  /\ \A v, w \in Workers :
       pc[v] \in Submitting /\ pc[w] \in Submitting /\ cur[v] = cur[w] => v = w
  /\ \A i \in Intents : submits[i] = 0 => rows[i].status = "NONE"

BookOK ==
  /\ \A b \in BrokerIds : book[b].state = "ABSENT" <=> book[b].intent = NoIntent
  /\ \A b, c \in BrokerIds :
       book[b].intent = book[c].intent /\ Stands(b) /\ Stands(c) => b = c

\* A row that names no order: what its status says about the broker.
UnnamedRowsOK ==
  \A i \in Intents : rows[i].bid = NoId =>
    /\ rows[i].status \in {"NONE", "PENDING", "UNKNOWN", "REJECTED", "FAILED"}
    /\ rows[i].status \in {"NONE", "REJECTED"} => \A b \in BrokerIds : book[b].intent # i
    /\ rows[i].status = "FAILED" =>
         \A b \in BrokerIds : book[b].intent = i => book[b].state = "REFUSED"

\* status says of order b no end that b has not come to.
TrueOf(status, b) ==
  /\ status = "FILLED" => book[b].state = "FILLED"
  /\ status = "CANCELLED" => book[b].state = "CANCELED"
  /\ status = "REJECTED" => book[b].state = "REJECTED"

NamedRowsOK ==
  \A i \in Intents : rows[i].bid # NoId =>
    /\ rows[i].status # "NONE"
    /\ book[rows[i].bid.order].intent = i
    /\ book[rows[i].bid.order].state \in Accepted
    /\ TrueOf(rows[i].status, rows[i].bid.order)

Names(i, id) == rows[i].bid # NoId /\ rows[i].bid.order = id.order

SyncOK ==
  \A w \in Workers :
    /\ \A i \in Intents : listed[w][i] # NoId => Names(i, listed[w][i])
    /\ pc[w] = "queried" =>
         /\ Names(cur[w], wire[w])
         /\ TrueOf(answer[w], wire[w].order)

\* What worker w knows of the intent it is submitting.
HandOK(w) ==
  /\ pc[w] = "checked" => rows[cur[w]].status = "NONE"
  /\ pc[w] \in {"claimed"} \cup Placing =>
       rows[cur[w]].status = "PENDING" /\ rows[cur[w]].bid = NoId
  /\ pc[w] = "claimed" => \A b \in BrokerIds : book[b].intent # cur[w]
  /\ pc[w] \in Placing =>
       /\ book[wire[w].order].intent = cur[w]
       /\ \A b \in BrokerIds :
            book[b].intent = cur[w] /\ b # wire[w].order => book[b].state = "REFUSED"
  /\ pc[w] = "renewing" => book[wire[w].order].state = "REFUSED"
  /\ pc[w] = "answered" =>
       \/ answer[w] = "ack" /\ book[wire[w].order].state \in Accepted
       \/ answer[w] = "known" /\ book[wire[w].order].state = "REFUSED"
       \/ answer[w] = "unknown"
  /\ pc[w] \in {"acked", "cancel_answered"} => Names(cur[w], wire[w])

SubmitOK == \A w \in Workers : HandOK(w)

OrderInv ==
  /\ TypeOK /\ LocalsOK /\ SubmittedOnce /\ BookOK
  /\ UnnamedRowsOK /\ NamedRowsOK /\ SyncOK /\ SubmitOK
=============================================================================
