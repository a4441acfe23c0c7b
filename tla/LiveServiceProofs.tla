-------------------------- MODULE LiveServiceProofs --------------------------
(***************************************************************************)
(* Proofs about the live order path.  LiveExecution, for any number of     *)
(* workers, intents and broker ids: an intent has one order at most, a row *)
(* tells the truth about it, and the module implements the contract        *)
(* OrderClaim.  LiveService: what its callers do to orders are steps of    *)
(* LiveExecution, so its theorems hold of them too; a single worker never  *)
(* sends an order while one of an earlier pass is in doubt, and exceeds    *)
(* the daily count only by orders of unknown fate.                         *)
(***************************************************************************)
EXTENDS LiveService, TLAPS, FiniteSetTheorems, WellFoundedInduction

TypeInv == TypeOK /\ LocalsOK

LEMMA TypeInit == Init => TypeInv
BY ConstantsOK DEF Init, TypeInv, TypeOK, LocalsOK, Row, Book, BookState, PC, Waiting, Placing, Sending, Submitting

\* What a worker's own step writes where, as far as types go.
LEMMA RecordTyped ==
  ASSUME TypeOK, NEW i \in Intents, NEW s \in ExecutionStatus,
         NEW id \in Id \cup {NoId}, NEW p \in BOOLEAN,
         RecordExecutionOrder(i, s, id, p)
  PROVE  rows' \in [Intents -> Row] /\ older' \in [Intents -> SUBSET Intents]
BY DEF TypeOK, RecordExecutionOrder, Row, Recorded

\* The id a sync writes is the one it asked for, or the plain one of its order.
LEMMA SyncedId ==
  ASSUME NEW d \in Id, NEW id \in {d, [order |-> d.order, cancel |-> FALSE]}
  PROVE  id \in Id /\ id # NoId /\ id.order = d.order
<1>1. d.order \in BrokerIds
  BY DEF Id
<1>2. [order |-> d.order, cancel |-> FALSE] \in Id
  BY <1>1 DEF Id
<1>3. NoId \notin Id
  BY ConstantsOK DEF Id
<1>4. CASE id = d
  BY <1>3, <1>4
<1>5. CASE id = [order |-> d.order, cancel |-> FALSE]
  BY <1>2, <1>3, <1>5
<1> QED BY <1>4, <1>5

LEMMA StateTyped ==
  ASSUME book \in [BrokerIds -> Book], NEW b \in BrokerIds, NEW s \in BookState
  PROVE  [book EXCEPT ![b].state = s] \in [BrokerIds -> Book]
<1>1. [book[b] EXCEPT !.state = s] \in Book
  BY DEF Book
<1> QED BY <1>1

LEMMA StateAndCancelTyped ==
  ASSUME book \in [BrokerIds -> Book], NEW b \in BrokerIds, NEW s \in BookState,
         NEW c \in {"none", "asked", "refused"}
  PROVE  [book EXCEPT ![b].state = s, ![b].cancel = c] \in [BrokerIds -> Book]
<1>1. [book[b] EXCEPT !.state = s, !.cancel = c] \in Book
  BY DEF Book
<1>2. [book EXCEPT ![b].state = s, ![b].cancel = c]
        = [book EXCEPT ![b] = [book[b] EXCEPT !.state = s, !.cancel = c]]
  BY DEF Book
<1> QED BY <1>1, <1>2

LEMMA TypeSync ==
  ASSUME TypeInv, NEW w \in Workers, Sync(w)
  PROVE  TypeInv'
<1> USE DEF TypeInv, TypeOK, LocalsOK, ledger, PC, Waiting, Placing, Sending, Submitting
<1>1. ASSUME StartPass(w) PROVE TypeInv'
  <2>1. \A i \in Intents : rows[i].bid \in Id \cup {NoId}
    BY DEF Row
  <2> QED BY <1>1, <2>1 DEF StartPass
<1>2. ASSUME NEW i \in Intents, QueryOrder(w, i) PROVE TypeInv'
  <2>1. listed[w][i] \in Id
    BY <1>2 DEF QueryOrder
  <2>2. Reported(listed[w][i]) # "FAILED"
    BY <2>1 DEF Reported, Id, Book, BookState, Accepted, OpenOrder, ClosedOrder
  <2>3. MapTossStatus(Reported(listed[w][i])) \in ExecutionStatus \ {"FAILED"}
    BY <2>2 DEF MapTossStatus, ExecutionStatus
  <2> QED BY <1>2, <2>1, <2>3 DEF QueryOrder
<1>3. ASSUME NEW i \in Intents, QueryFails(w, i) PROVE TypeInv'
  BY <1>3 DEF QueryFails
<1>4. ASSUME RecordSync(w) PROVE TypeInv'
  <2>1. cur[w] \in Intents /\ answer[w] \in ExecutionStatus /\ wire[w] \in Id
    BY <1>4 DEF RecordSync
  <2>2. PICK id \in {wire[w], [order |-> wire[w].order, cancel |-> FALSE]} :
          RecordExecutionOrder(cur[w], answer[w], id, FALSE)
    BY <1>4 DEF RecordSync
  <2>3. id \in Id
    BY <2>1, SyncedId
  <2>4. rows' \in [Intents -> Row] /\ older' \in [Intents -> SUBSET Intents]
    BY <2>1, <2>2, <2>3, RecordTyped
  <2> QED BY <1>4, <2>4 DEF RecordSync, Finished
<1>5. ASSUME EndSync(w) PROVE TypeInv'
  BY <1>5 DEF EndSync
<1> QED BY <1>1, <1>2, <1>3, <1>4, <1>5 DEF Sync

LEMMA TypeSubmit ==
  ASSUME TypeInv, NEW w \in Workers, Submit(w)
  PROVE  TypeInv'
<1> USE DEF TypeInv, TypeOK, LocalsOK, ledger, PC, Waiting, Placing, Sending, Submitting
<1> USE DEF RecordExecutionOrder, Row, Recorded, ExecutionStatus
<1>1. ASSUME NEW i \in Intents, CheckKey(w, i) PROVE TypeInv'
  <2>1. submits' \in [Intents -> 0..MaxSubmits]
    <3>1. submits[i] \in 0..MaxSubmits /\ submits[i] < MaxSubmits
      BY <1>1 DEF CheckKey
    <3>2. submits[i] + 1 \in 0..MaxSubmits
      BY <3>1, ConstantsOK
    <3> QED BY <1>1, <3>2 DEF CheckKey
  <2>2. UNCHANGED <<wire, answer, listed, book>>
    BY <1>1 DEF CheckKey
  <2>3. \/ RecordExecutionOrder(i, "REJECTED", NoId, FALSE) /\ UNCHANGED <<pc, cur>>
        \/ /\ pc' = [pc EXCEPT ![w] = "checked"]
           /\ cur' = [cur EXCEPT ![w] = i]
           /\ UNCHANGED <<rows, older>>
    BY <1>1 DEF CheckKey
  <2>4. CASE RecordExecutionOrder(i, "REJECTED", NoId, FALSE) /\ UNCHANGED <<pc, cur>>
    BY <2>1, <2>2, <2>4
  <2>5. CASE /\ pc' = [pc EXCEPT ![w] = "checked"]
             /\ cur' = [cur EXCEPT ![w] = i]
             /\ UNCHANGED <<rows, older>>
    BY <2>1, <2>2, <2>5
  <2> QED BY <2>3, <2>4, <2>5
<1>2. ASSUME Block(w) PROVE TypeInv'
  BY <1>2 DEF Block, Finished
<1>3. ASSUME Claim(w) PROVE TypeInv'
  BY <1>3 DEF Claim
<1>4. ASSUME RecordUnsent(w) PROVE TypeInv'
  BY <1>4 DEF RecordUnsent, ErrorStatus, Finished
<1>5. ASSUME NEW from \in {"claimed", "renewing"}, NEW to \in Sending, Post(w, from, to)
      PROVE  TypeInv'
  <2>1. PICK b \in BrokerIds :
          /\ book' = [book EXCEPT ![b] = [intent |-> cur[w], state |-> "WIRE", cancel |-> "none"]]
          /\ wire' = [wire EXCEPT ![w] = [order |-> b, cancel |-> FALSE]]
    BY <1>5 DEF Post
  <2>2. [intent |-> cur[w], state |-> "WIRE", cancel |-> "none"] \in Book
    BY DEF Book, BookState
  <2>3. [order |-> b, cancel |-> FALSE] \in Id
    BY DEF Id
  <2>4. pc[w] = from /\ pc' = [pc EXCEPT ![w] = to] /\ UNCHANGED <<rows, older, submits, cur, answer, listed>>
    BY <1>5 DEF Post
  <2>5. book' \in [BrokerIds -> Book] /\ wire' \in [Workers -> Id \cup {NoId}]
        /\ pc' \in [Workers -> PC]
    BY <2>1, <2>2, <2>3, <2>4
  <2>6. cur[w] \in Intents
    BY <2>4
  <2> QED BY <2>1, <2>3, <2>4, <2>5, <2>6
<1>9. ASSUME Unauthorized(w) \/ RenewFails(w) PROVE TypeInv'
  BY <1>9 DEF Unauthorized, RenewFails
<1>6. ASSUME PlaceOrderReturns(w) PROVE TypeInv'
  BY <1>6 DEF PlaceOrderReturns, PlaceAnswers
<1>7. ASSUME RecordAck(w) PROVE TypeInv'
  <2>1. cur[w] \in Intents /\ wire[w] \in Id
    BY <1>7 DEF RecordAck
  <2>2. RecordExecutionOrder(cur[w], "ACKNOWLEDGED", wire[w], TRUE)
    BY <1>7 DEF RecordAck
  <2>3. rows' \in [Intents -> Row] /\ older' \in [Intents -> SUBSET Intents]
    BY <2>1, <2>2, RecordTyped
  <2>4. answer' = [answer EXCEPT ![w] = "none"] /\ UNCHANGED <<submits, listed, book>>
    BY <1>7 DEF RecordAck
  <2>5. CASE pc' = [pc EXCEPT ![w] = "acked"] /\ UNCHANGED <<cur, wire>>
    BY <2>1, <2>3, <2>4, <2>5
  <2>6. CASE /\ pc' = [pc EXCEPT ![w] = "ready"]
             /\ cur' = [cur EXCEPT ![w] = NoIntent]
             /\ wire' = [wire EXCEPT ![w] = NoId]
    BY <2>3, <2>4, <2>6
  <2> QED BY <1>7, <2>5, <2>6 DEF RecordAck
<1>8. ASSUME RecordPlaceError(w) PROVE TypeInv'
  BY <1>8 DEF RecordPlaceError, ErrorStatus, Finished
<1> QED BY <1>1, <1>2, <1>3, <1>4, <1>5, <1>6, <1>7, <1>8, <1>9 DEF Submit, Send, Resend

LEMMA TypeCancel ==
  ASSUME TypeInv, NEW w \in Workers, Cancel(w)
  PROVE  TypeInv'
<1> USE DEF TypeInv, TypeOK, LocalsOK, ledger, PC, Waiting, Placing, Sending, Submitting
<1>1. ASSUME CancelOrder(w) PROVE TypeInv'
  <2>1. wire[w] \in Id /\ wire[w].order \in BrokerIds
    BY <1>1 DEF CancelOrder, Id
  <2>2. book' \in [BrokerIds -> Book]
    <3>1. "PENDING_CANCEL" \in BookState
      BY DEF BookState, Accepted, OpenOrder
    <3>2. CASE book' = book
      BY <3>2
    <3>3. [book EXCEPT ![wire[w].order].state = "PENDING_CANCEL",
                       ![wire[w].order].cancel = "asked"] \in [BrokerIds -> Book]
      BY <2>1, <3>1, StateAndCancelTyped
    <3> QED BY <1>1, <3>2, <3>3 DEF CancelOrder
  <2>3. [wire[w] EXCEPT !.cancel = TRUE] \in Id
    BY <2>1 DEF Id
  <2>4. \/ wire' = [wire EXCEPT ![w] = [wire[w] EXCEPT !.cancel = TRUE]]
        \/ wire' = wire
    BY <1>1 DEF CancelOrder
  <2>5. wire' \in [Workers -> Id \cup {NoId}] /\ wire'[w] \in Id
    BY <2>1, <2>3, <2>4
  <2>6. answer' \in [Workers -> ExecutionStatus \cup {"none", "ack", "known", "unknown"}]
    BY <1>1 DEF CancelOrder
  <2> QED BY <1>1, <2>2, <2>4, <2>5, <2>6 DEF CancelOrder
<1>2. ASSUME RecordCancel(w) PROVE TypeInv'
  BY <1>2 DEF RecordCancel, CancelStatus, ErrorStatus, Finished,
              RecordExecutionOrder, Row, Recorded, ExecutionStatus
<1> QED BY <1>1, <1>2 DEF Cancel

LEMMA TypeRest ==
  ASSUME TypeInv,
         \/ \E w \in Workers : EndPass(w) \/ Abort(w)
         \/ Broker
         \/ UNCHANGED vars
  PROVE  TypeInv'
<1> USE DEF TypeInv, TypeOK, LocalsOK, ledger, locals, PC, Waiting, Placing, Sending, Submitting
<1>1. ASSUME NEW w \in Workers, EndPass(w) PROVE TypeInv'
  BY <1>1 DEF EndPass
<1>2. ASSUME NEW w \in Workers, Abort(w) PROVE TypeInv'
  BY <1>2 DEF Abort, Finished
<1>3. ASSUME NEW b \in BrokerIds, Arrives(b) PROVE TypeInv'
  <2>1. book' \in [BrokerIds -> Book]
    <3>1. PICK s \in {"PENDING", "REFUSED"} : book' = [book EXCEPT ![b].state = s]
      BY <1>3 DEF Arrives
    <3>2. s \in BookState
      BY DEF BookState, Accepted, OpenOrder
    <3> QED BY <3>1, <3>2, StateTyped
  <2> QED BY <1>3, <2>1 DEF Arrives
<1>4. ASSUME NEW b \in BrokerIds, Progresses(b) PROVE TypeInv'
  <2>1. Later(book[b].state) \subseteq BookState
    BY DEF Later, BookState, Accepted, OpenOrder, ClosedOrder
  <2>2. book' \in [BrokerIds -> Book]
    <3>1. PICK s \in Later(book[b].state) : book' = [book EXCEPT ![b].state = s]
      BY <1>4 DEF Progresses
    <3> QED BY <2>1, <3>1, StateTyped
  <2> QED BY <1>4, <2>2 DEF Progresses
<1>5. ASSUME NEW b \in BrokerIds, CancelLoses(b) PROVE TypeInv'
  <2>1. book' \in [BrokerIds -> Book]
    <3>1. PICK s \in {"PENDING", "FILLED"} :
            book' = [book EXCEPT ![b].state = s, ![b].cancel = "refused"]
      BY <1>5 DEF CancelLoses
    <3>2. s \in BookState
      BY DEF BookState, Accepted, OpenOrder, ClosedOrder
    <3> QED BY <3>1, <3>2, StateAndCancelTyped
  <2> QED BY <1>5, <2>1 DEF CancelLoses
<1>6. ASSUME UNCHANGED vars PROVE TypeInv'
  BY <1>6 DEF vars
<1> QED BY <1>1, <1>2, <1>3, <1>4, <1>5, <1>6 DEF Broker

\* Every reachable state is well typed, whatever the constants: in particular
\* a worker that waits for the broker holds an id to record.
THEOREM TypeCorrect == Spec => []TypeOK
<1>1. TypeInv /\ [Next]_vars => TypeInv'
  BY TypeSync, TypeSubmit, TypeCancel, TypeRest DEF Next
<1> QED BY TypeInit, <1>1, PTL DEF Spec, TypeInv

-----------------------------------------------------------------------------
(* The inductive invariant *)

LEMMA OrderInit == MaxSubmits = 1 /\ Init => OrderInv
BY TypeInit, ConstantsOK
   DEF Init, OrderInv, TypeInv, SubmittedOnce, BookOK, UnnamedRowsOK, NamedRowsOK,
       SyncOK, SubmitOK, HandOK, Submitting, Waiting, Placing, Sending, Names, Stands

\* What has to be shown of a write to the row of intent i: the other rows stay,
\* and an order that a row names is never unnamed or exchanged.
LEMMA RowWritten ==
  ASSUME TypeOK, BookOK, UnnamedRowsOK, NamedRowsOK, UNCHANGED book,
         NEW i \in Intents, NEW s \in ExecutionStatus, NEW id \in Id \cup {NoId},
         NEW p \in BOOLEAN, RecordExecutionOrder(i, s, id, p),
         id = NoId =>
           /\ rows[i].bid = NoId
           /\ s \in {"PENDING", "UNKNOWN", "REJECTED", "FAILED"}
           /\ s = "REJECTED" => \A b \in BrokerIds : book[b].intent # i
           /\ s = "FAILED" =>
                \A b \in BrokerIds : book[b].intent = i => book[b].state = "REFUSED",
         id # NoId =>
           /\ book[id.order].intent = i
           /\ book[id.order].state \in Accepted
           /\ TrueOf(s, id.order)
  PROVE  /\ rows'[i].status = s /\ rows'[i].bid = id
         /\ \A j \in Intents : j # i => rows'[j] = rows[j]
         /\ \A j \in Intents : rows[j].bid # NoId =>
              rows'[j].bid # NoId /\ rows'[j].bid.order = rows[j].bid.order
         /\ UnnamedRowsOK' /\ NamedRowsOK'
<1>1. rows'[i].status = s /\ rows'[i].bid = id
  BY DEF TypeOK, RecordExecutionOrder
<1>2. \A j \in Intents : j # i => rows'[j] = rows[j]
  BY DEF TypeOK, RecordExecutionOrder
<1>3. \A j \in Intents : rows[j].bid # NoId =>
        rows'[j].bid # NoId /\ rows'[j].bid.order = rows[j].bid.order
  <2>1. ASSUME rows[i].bid # NoId PROVE id # NoId /\ id.order = rows[i].bid.order
    <3>1. rows[i].bid.order \in BrokerIds /\ book[rows[i].bid.order].intent = i
      BY <2>1 DEF TypeOK, Row, Id, NamedRowsOK
    <3>2. id # NoId /\ id.order \in BrokerIds /\ book[id.order].intent = i
      BY <2>1 DEF Id
    <3>3. Stands(rows[i].bid.order) /\ Stands(id.order)
      BY <2>1, <3>2 DEF NamedRowsOK, Stands, Accepted, OpenOrder, ClosedOrder
    <3> QED BY <3>1, <3>2, <3>3 DEF BookOK
  <2> QED BY <1>1, <1>2, <2>1
<1>4. UnnamedRowsOK'
  BY <1>1, <1>2 DEF UnnamedRowsOK
<1>5. NamedRowsOK'
  BY <1>1, <1>2 DEF NamedRowsOK, TrueOf, ExecutionStatus
<1> QED BY <1>1, <1>2, <1>3, <1>4, <1>5

LEMMA AnswerTrue ==
  ASSUME TypeOK, NEW id \in Id
  PROVE  TrueOf(MapTossStatus(Reported(id)), id.order)
<1>1. book[id.order].state \in BookState
  BY DEF TypeOK, Id, Book
<1>2. Reported(id) = "CANCEL_REJECTED" \/ Reported(id) = book[id.order].state
  BY DEF Reported
<1>3. Reported(id) # "CANCELLED"
  BY <1>1, <1>2 DEF BookState, Accepted, OpenOrder, ClosedOrder
<1> QED BY <1>2, <1>3 DEF MapTossStatus, TrueOf

LEMMA OrderSync ==
  ASSUME OrderInv, TypeInv', MaxSubmits = 1, NEW w \in Workers, Sync(w)
  PROVE  OrderInv'
<1> USE DEF OrderInv, TypeInv, TypeOK, LocalsOK, PC, Waiting, Placing, Sending, Submitting, ledger, locals, Names, TrueOf
<1>1. ASSUME StartPass(w) PROVE OrderInv'
  <2>1. SubmittedOnce'
    BY <1>1 DEF SubmittedOnce, StartPass
  <2>2. BookOK'
    BY <1>1 DEF BookOK, Stands, StartPass
  <2>3. UnnamedRowsOK'
    BY <1>1 DEF UnnamedRowsOK, StartPass
  <2>4. NamedRowsOK'
    BY <1>1 DEF NamedRowsOK, StartPass
  <2>5. SyncOK'
    BY <1>1 DEF SyncOK, StartPass
  <2>6. SubmitOK'
    BY <1>1 DEF SubmitOK, HandOK, StartPass
  <2> QED BY <2>1, <2>2, <2>3, <2>4, <2>5, <2>6
<1>2. ASSUME NEW i \in Intents, QueryOrder(w, i) PROVE OrderInv'
  <2>1. SubmittedOnce'
    BY <1>2 DEF SubmittedOnce, QueryOrder, Reported, MapTossStatus, TrueOf
  <2>2. BookOK'
    BY <1>2 DEF BookOK, Stands, QueryOrder, Reported, MapTossStatus, TrueOf
  <2>3. UnnamedRowsOK'
    BY <1>2 DEF UnnamedRowsOK, QueryOrder, Reported, MapTossStatus, TrueOf
  <2>4. NamedRowsOK'
    BY <1>2 DEF NamedRowsOK, QueryOrder, Reported, MapTossStatus, TrueOf
  <2>5. SyncOK'
    <3>1. listed[w][i] \in Id /\ Names(i, listed[w][i])
      BY <1>2 DEF QueryOrder, SyncOK
    <3>2. TrueOf(MapTossStatus(Reported(listed[w][i])), listed[w][i].order)
      BY <3>1, AnswerTrue
    <3> QED BY <1>2, <3>1, <3>2 DEF SyncOK, QueryOrder
  <2>6. SubmitOK'
    <3>1. HandOK(w)'
      <4>1. pc'[w] = "queried"
        BY <1>2 DEF QueryOrder
      <4> QED BY <4>1 DEF HandOK
    <3>2. ASSUME NEW v \in Workers, v # w PROVE HandOK(v)'
      <4>1. /\ pc'[v] = pc[v] /\ cur'[v] = cur[v]
            /\ wire'[v] = wire[v] /\ answer'[v] = answer[v]
        BY <1>2, <3>2 DEF QueryOrder
      <4>2. UNCHANGED <<rows, book>>
        BY <1>2 DEF QueryOrder
      <4>3. HandOK(v)
        BY <3>2 DEF SubmitOK
      <4> QED BY <4>1, <4>2, <4>3 DEF HandOK
    <3> QED BY <3>1, <3>2 DEF SubmitOK
  <2> QED BY <2>1, <2>2, <2>3, <2>4, <2>5, <2>6
<1>3. ASSUME NEW i \in Intents, QueryFails(w, i) PROVE OrderInv'
  <2>1. SubmittedOnce'
    BY <1>3 DEF SubmittedOnce, QueryFails
  <2>2. BookOK'
    BY <1>3 DEF BookOK, Stands, QueryFails
  <2>3. UnnamedRowsOK'
    BY <1>3 DEF UnnamedRowsOK, QueryFails
  <2>4. NamedRowsOK'
    BY <1>3 DEF NamedRowsOK, QueryFails
  <2>5. SyncOK'
    BY <1>3 DEF SyncOK, QueryFails
  <2>6. SubmitOK'
    BY <1>3 DEF SubmitOK, HandOK, QueryFails
  <2> QED BY <2>1, <2>2, <2>3, <2>4, <2>5, <2>6
<1>4. ASSUME EndSync(w) PROVE OrderInv'
  <2>1. SubmittedOnce'
    BY <1>4 DEF SubmittedOnce, EndSync
  <2>2. BookOK'
    BY <1>4 DEF BookOK, Stands, EndSync
  <2>3. UnnamedRowsOK'
    BY <1>4 DEF UnnamedRowsOK, EndSync
  <2>4. NamedRowsOK'
    BY <1>4 DEF NamedRowsOK, EndSync
  <2>5. SyncOK'
    BY <1>4 DEF SyncOK, EndSync
  <2>6. SubmitOK'
    BY <1>4 DEF SubmitOK, HandOK, EndSync
  <2> QED BY <2>1, <2>2, <2>3, <2>4, <2>5, <2>6
<1>5. ASSUME RecordSync(w) PROVE OrderInv'
  <2>a. PICK id \in {wire[w], [order |-> wire[w].order, cancel |-> FALSE]} :
          RecordExecutionOrder(cur[w], answer[w], id, FALSE)
    BY <1>5 DEF RecordSync
  <2>0. /\ cur[w] \in Intents /\ answer[w] \in ExecutionStatus \ {"FAILED"} /\ wire[w] \in Id
        /\ id \in Id /\ id.order = wire[w].order
        /\ Names(cur[w], wire[w]) /\ TrueOf(answer[w], wire[w].order)
        /\ rows[cur[w]].bid # NoId /\ rows[cur[w]].status # "NONE"
        /\ UNCHANGED <<submits, book>>
    <3>1. cur[w] \in Intents /\ wire[w] \in Id
      BY <1>5 DEF RecordSync
    <3>2. id \in Id /\ id.order = wire[w].order
      BY <3>1, SyncedId
    <3> QED BY <1>5, <3>1, <3>2 DEF RecordSync, SyncOK, NamedRowsOK, Names
  <2>1. /\ rows'[cur[w]].status = answer[w] /\ rows'[cur[w]].bid = id
        /\ \A j \in Intents : j # cur[w] => rows'[j] = rows[j]
        /\ \A j \in Intents : rows[j].bid # NoId =>
             rows'[j].bid # NoId /\ rows'[j].bid.order = rows[j].bid.order
        /\ UnnamedRowsOK' /\ NamedRowsOK'
    <3>1. id # NoId
      BY <2>0, ConstantsOK DEF Id
    <3>2. /\ book[id.order].intent = cur[w]
          /\ book[id.order].state \in Accepted
      BY <2>0 DEF NamedRowsOK
    <3> QED BY <2>a, <2>0, <3>1, <3>2, RowWritten
  <2>2. \A v \in Workers : v # w => pc'[v] = pc[v] /\ cur'[v] = cur[v] /\ wire'[v] = wire[v]
                                   /\ answer'[v] = answer[v] /\ listed'[v] = listed[v]
    BY <1>5 DEF RecordSync, Finished
  <2>3. pc'[w] = "syncing"
    BY <1>5 DEF RecordSync, Finished
  <2>4. SubmittedOnce'
    <3>1. \A v \in Workers : pc'[v] \in Submitting => pc[v] \in Submitting /\ cur'[v] = cur[v]
      BY <2>2, <2>3
    <3>2. \A j \in Intents : submits[j] = 0 => rows'[j].status = "NONE"
      BY <2>0, <2>1 DEF SubmittedOnce
    <3> QED BY <2>0, <3>1, <3>2 DEF SubmittedOnce
  <2>5. SyncOK'
    BY <1>5, <2>0, <2>1, <2>2, <2>3 DEF SyncOK, RecordSync
  <2>6. SubmitOK'
    <3>1. ASSUME NEW v \in Workers, v # w,
                 pc[v] \in {"checked", "claimed"} \cup Placing
          PROVE  cur[v] # cur[w]
      BY <2>0, <3>1 DEF SubmitOK, HandOK
    <3>2. \A v \in Workers : v # w /\ pc[v] \in {"checked", "claimed"} \cup Placing
             => rows'[cur[v]] = rows[cur[v]]
      BY <2>1, <3>1
    <3>3. ASSUME NEW v \in Workers PROVE HandOK(v)'
      <4>1. CASE v = w
        BY <2>3, <4>1 DEF HandOK
      <4>2. CASE v # w
        BY <2>0, <2>1, <2>2, <3>2, <4>2 DEF SubmitOK, HandOK
      <4> QED BY <4>1, <4>2
    <3> QED BY <3>3 DEF SubmitOK
  <2> QED BY <2>0, <2>1, <2>4, <2>5, <2>6 DEF BookOK, Stands
<1> QED BY <1>1, <1>2, <1>3, <1>4, <1>5 DEF Sync

(* What keeps each part of the invariant. *)

LEMMA OnceKept ==
  ASSUME SubmittedOnce, UNCHANGED submits,
         \A v \in Workers : pc'[v] \in Submitting => pc[v] \in Submitting /\ cur'[v] = cur[v],
         \A j \in Intents : submits[j] = 0 => rows'[j].status = rows[j].status
  PROVE  SubmittedOnce'
BY DEF SubmittedOnce

LEMMA SyncKept ==
  ASSUME TypeOK, LocalsOK, SyncOK,
         \A v \in Workers, i \in Intents :
           listed'[v][i] # NoId => listed'[v][i] = listed[v][i],
         \A v \in Workers : pc'[v] = "queried" =>
           /\ pc[v] = "queried" /\ cur'[v] = cur[v]
           /\ wire'[v] = wire[v] /\ answer'[v] = answer[v],
         \A i \in Intents : rows[i].bid # NoId =>
           rows'[i].bid # NoId /\ rows'[i].bid.order = rows[i].bid.order,
         \A b \in BrokerIds :
           book[b].state \in ClosedOrder => book'[b].state = book[b].state
  PROVE  SyncOK'
<1>1. ASSUME NEW v \in Workers, NEW i \in Intents, listed'[v][i] # NoId
      PROVE  Names(i, listed[v][i])'
  BY <1>1 DEF SyncOK, Names
<1>2. ASSUME NEW v \in Workers, pc'[v] = "queried"
      PROVE  Names(cur[v], wire[v])' /\ TrueOf(answer[v], wire[v].order)'
  <2>1. /\ pc[v] = "queried" /\ cur'[v] = cur[v]
        /\ wire'[v] = wire[v] /\ answer'[v] = answer[v]
    BY <1>2
  <2>2. cur[v] \in Intents /\ wire[v].order \in BrokerIds
    BY <2>1 DEF LocalsOK, Id
  <2>3. Names(cur[v], wire[v])'
    BY <2>1, <2>2 DEF SyncOK, Names
  <2>4. TrueOf(answer[v], wire[v].order)'
    BY <2>1, <2>2 DEF SyncOK, TrueOf, ClosedOrder
  <2> QED BY <2>3, <2>4
<1> QED BY <1>1, <1>2 DEF SyncOK

\* The submitting worker writes the row of its intent: everything but what it
\* knows of the intent afterwards.
LEMMA SubmitterWrites ==
  ASSUME OrderInv, NEW w \in Workers, pc[w] \in Submitting,
         NEW s \in ExecutionStatus, NEW id \in Id \cup {NoId}, NEW p \in BOOLEAN,
         RecordExecutionOrder(cur[w], s, id, p),
         id = NoId =>
           /\ rows[cur[w]].bid = NoId
           /\ s \in {"PENDING", "UNKNOWN", "REJECTED", "FAILED"}
           /\ s = "REJECTED" => \A b \in BrokerIds : book[b].intent # cur[w]
           /\ s = "FAILED" =>
                \A b \in BrokerIds : book[b].intent = cur[w] => book[b].state = "REFUSED",
         id # NoId =>
           /\ book[id.order].intent = cur[w]
           /\ book[id.order].state \in Accepted
           /\ TrueOf(s, id.order),
         UNCHANGED <<submits, listed, book>>,
         \A v \in Workers : v # w =>
           /\ pc'[v] = pc[v] /\ cur'[v] = cur[v]
           /\ wire'[v] = wire[v] /\ answer'[v] = answer[v],
         pc'[w] \in Submitting => cur'[w] = cur[w],
         pc'[w] # "queried",
         TypeInv', HandOK(w)'
  PROVE  OrderInv' /\ rows'[cur[w]].status = s /\ rows'[cur[w]].bid = id
<1> USE DEF OrderInv, TypeInv, LocalsOK
<1>1. cur[w] \in Intents
  OBVIOUS
<1>2. /\ rows'[cur[w]].status = s /\ rows'[cur[w]].bid = id
      /\ \A j \in Intents : j # cur[w] => rows'[j] = rows[j]
      /\ \A j \in Intents : rows[j].bid # NoId =>
           rows'[j].bid # NoId /\ rows'[j].bid.order = rows[j].bid.order
      /\ UnnamedRowsOK' /\ NamedRowsOK'
  BY <1>1, RowWritten
<1>3. \A v \in Workers : v # w /\ pc[v] \in Submitting => cur[v] # cur[w]
  BY DEF SubmittedOnce
<1>4. SubmittedOnce'
  <2>1. \A v \in Workers : pc'[v] \in Submitting => pc[v] \in Submitting /\ cur'[v] = cur[v]
    OBVIOUS
  <2>2. submits[cur[w]] = 1
    BY DEF SubmittedOnce
  <2>3. \A j \in Intents : submits[j] = 0 => rows'[j].status = "NONE"
    BY <1>2, <2>2 DEF SubmittedOnce
  <2> QED BY <2>1, <2>3 DEF SubmittedOnce
<1>5. SyncOK'
  BY <1>2, SyncKept
<1>6. ASSUME NEW v \in Workers, v # w PROVE HandOK(v)'
  <2>1. HandOK(v)
    BY DEF SubmitOK
  <2>2. pc[v] \in Submitting => rows'[cur[v]] = rows[cur[v]]
    BY <1>2, <1>3, <1>6
  <2> QED BY <1>6, <2>1, <2>2 DEF HandOK, Names, Submitting, Waiting, Placing, Sending
<1> QED BY <1>2, <1>4, <1>5, <1>6 DEF SubmitOK, BookOK, Stands

LEMMA OrderSend ==
  ASSUME OrderInv, TypeInv', NEW w \in Workers, Send(w) \/ Resend(w)
  PROVE  OrderInv'
<1> USE DEF OrderInv, TypeInv
<1>1. PICK b \in BrokerIds :
        /\ book[b].state = "ABSENT"
        /\ book' = [book EXCEPT ![b] = [intent |-> cur[w], state |-> "WIRE", cancel |-> "none"]]
        /\ wire' = [wire EXCEPT ![w] = [order |-> b, cancel |-> FALSE]]
  BY DEF Send, Resend, Post
<1>2. /\ pc[w] \in {"claimed", "renewing"} /\ pc'[w] \in Sending
      /\ \A v \in Workers : v # w => pc'[v] = pc[v]
      /\ UNCHANGED <<rows, submits, cur, answer, listed>>
  BY DEF Send, Resend, Post, Sending, ledger, TypeOK
<1>3. /\ book'[b].intent = cur[w] /\ book'[b].state = "WIRE"
      /\ \A c \in BrokerIds : c # b => book'[c] = book[c]
  BY <1>1 DEF TypeOK
<1>4. /\ wire'[w] = [order |-> b, cancel |-> FALSE]
      /\ \A v \in Workers : v # w => wire'[v] = wire[v] /\ pc'[v] = pc[v]
  BY <1>1, <1>2 DEF TypeOK
<1>5. /\ cur[w] \in Intents
      /\ \A c \in BrokerIds : book[c].intent = cur[w] => book[c].state = "REFUSED"
      /\ rows[cur[w]].status = "PENDING" /\ rows[cur[w]].bid = NoId
  BY <1>2 DEF SubmitOK, HandOK, LocalsOK, Submitting, Waiting, Placing
<1>6. \A v \in Workers : v # w /\ pc[v] \in Submitting => cur[v] # cur[w]
  BY <1>2 DEF SubmittedOnce, Submitting, Waiting, Placing
<1>7. \A c \in BrokerIds : book[c].state # "ABSENT" => book'[c] = book[c]
  BY <1>1, <1>3
<1>8. BookOK'
  <2>1. \A c \in BrokerIds : c # b /\ book'[c].intent = cur[w] => ~Stands(c)'
    BY <1>3, <1>5 DEF Stands
  <2>2. \A c \in BrokerIds : c # b => (Stands(c)' <=> Stands(c))
    BY <1>3 DEF Stands
  <2> QED BY <1>3, <1>5, <2>1, <2>2, ConstantsOK DEF BookOK
<1>9. UnnamedRowsOK'
  <2>1. ASSUME NEW i \in Intents, i # cur[w], NEW c \in BrokerIds, book'[c].intent = i
        PROVE  book[c].intent = i /\ book'[c] = book[c]
    BY <1>3, <2>1
  <2> QED BY <1>2, <1>5, <2>1 DEF UnnamedRowsOK
<1>10. NamedRowsOK'
  <2>1. ASSUME NEW i \in Intents, rows[i].bid # NoId
        PROVE  book'[rows[i].bid.order] = book[rows[i].bid.order]
    <3>1. rows[i].bid.order \in BrokerIds
      BY <2>1 DEF TypeOK, Row, Id
    <3>2. book[rows[i].bid.order].state # "ABSENT"
      BY <2>1 DEF NamedRowsOK, Accepted, OpenOrder, ClosedOrder
    <3> QED BY <1>7, <3>1, <3>2
  <2> QED BY <1>2, <2>1 DEF NamedRowsOK, TrueOf
<1>11. SubmittedOnce'
  <2>1. \A v \in Workers : pc'[v] \in Submitting => pc[v] \in Submitting /\ cur'[v] = cur[v]
    BY <1>2, <1>4 DEF Submitting, Waiting, Placing, Sending
  <2> QED BY <1>2, <2>1, OnceKept
<1>12. SyncOK'
  <2>1. \A v \in Workers : pc'[v] = "queried" =>
          /\ pc[v] = "queried" /\ cur'[v] = cur[v]
          /\ wire'[v] = wire[v] /\ answer'[v] = answer[v]
    BY <1>2, <1>4 DEF Sending
  <2>2. \A c \in BrokerIds :
          book[c].state \in ClosedOrder => book'[c].state = book[c].state
    BY <1>7 DEF ClosedOrder
  <2> QED BY <1>2, <2>1, <2>2, SyncKept
<1>13. ASSUME NEW v \in Workers PROVE HandOK(v)'
  <2>1. CASE v = w
    <3>1. pc'[w] \in Sending /\ wire'[w].order = b /\ cur'[w] = cur[w] /\ rows' = rows
      BY <1>2, <1>4
    <3>2. \A c \in BrokerIds : book'[c].intent = cur[w] /\ c # b => book'[c].state = "REFUSED"
      BY <1>3, <1>5
    <3> QED BY <1>3, <1>5, <2>1, <3>1, <3>2 DEF HandOK, Placing, Sending
  <2>2. CASE v # w
    <3>1. HandOK(v)
      BY DEF SubmitOK
    <3>2. pc[v] \in Submitting => \A c \in BrokerIds : book[c].intent # cur[v] => book'[c].intent # cur[v]
      BY <1>3, <1>6, <2>2
    <3>3. pc[v] \in Waiting => wire[v].order \in BrokerIds /\ cur[v] \in Intents
      BY DEF LocalsOK, Id, Submitting
    <3>4. pc[v] \in Placing => book'[wire[v].order] = book[wire[v].order]
      BY <1>7, <3>1, <3>3, ConstantsOK DEF HandOK, BookOK, Waiting
    <3>5. pc[v] \in Placing => \A c \in BrokerIds :
            book'[c].intent = cur[v] => book[c].intent = cur[v] /\ book'[c] = book[c]
      BY <1>3, <1>6, <2>2 DEF Submitting, Waiting
    <3> QED BY <1>2, <1>4, <2>2, <3>1, <3>2, <3>4, <3>5 DEF HandOK, Names, Submitting, Waiting, Placing, Sending
  <2> QED BY <2>1, <2>2
<1> QED BY <1>8, <1>9, <1>10, <1>11, <1>12, <1>13 DEF SubmitOK

LEMMA OrderSubmit ==
  ASSUME OrderInv, TypeInv', MaxSubmits = 1, NEW w \in Workers, Submit(w)
  PROVE  OrderInv'
<1> USE DEF OrderInv, TypeInv, TypeOK, LocalsOK, PC, Waiting, Placing, Sending, Submitting
<1> DEFINE Others == \A v \in Workers : v # w =>
             /\ pc'[v] = pc[v] /\ cur'[v] = cur[v]
             /\ wire'[v] = wire[v] /\ answer'[v] = answer[v]
<1>h. HandOK(w)
  BY DEF SubmitOK
<1>1. ASSUME NEW i \in Intents, CheckKey(w, i) PROVE OrderInv'
  <2>1. submits[i] = 0 /\ submits' = [submits EXCEPT ![i] = 1]
    <3>1. submits[i] \in 0..1 /\ submits[i] < 1 /\ submits' = [submits EXCEPT ![i] = submits[i] + 1]
      BY <1>1 DEF CheckKey
    <3>2. submits[i] = 0
      BY <3>1
    <3> QED BY <3>1, <3>2
  <2>2. rows[i].status = "NONE" /\ ~HasUnresolvedExecutionKey(i)
    BY <2>1 DEF SubmittedOnce, HasUnresolvedExecutionKey, Unresolved, UnresolvedExecutionStatuses
  <2>3. /\ pc[w] = "ready"
        /\ pc' = [pc EXCEPT ![w] = "checked"]
        /\ cur' = [cur EXCEPT ![w] = i]
        /\ UNCHANGED <<rows, wire, answer, listed, book>>
    BY <1>1, <2>2 DEF CheckKey, ledger
  <2>4. \A v \in Workers : pc[v] \in Submitting => cur[v] # i
    BY <2>1 DEF SubmittedOnce
  <2>5. SubmittedOnce'
    BY <2>1, <2>3, <2>4 DEF SubmittedOnce
  <2>6. SyncOK'
    BY <2>3 DEF SyncOK, Names, TrueOf
  <2>7. SubmitOK'
    BY <2>2, <2>3 DEF SubmitOK, HandOK, Names
  <2> QED BY <2>3, <2>5, <2>6, <2>7 DEF BookOK, UnnamedRowsOK, NamedRowsOK, TrueOf, Stands
<1>2. ASSUME Block(w) PROVE OrderInv'
  <2>1. /\ pc[w] = "checked" /\ pc'[w] = "ready"
        /\ RecordExecutionOrder(cur[w], "REJECTED", NoId, FALSE)
        /\ Others /\ UNCHANGED <<submits, listed, book>>
    <3>1. /\ pc[w] = "checked"
          /\ RecordExecutionOrder(cur[w], "REJECTED", NoId, FALSE)
          /\ Finished(w, "ready")
          /\ UNCHANGED <<submits, listed, book>>
      BY <1>2 DEF Block
    <3>2. pc'[w] = "ready"
      BY <3>1 DEF Finished
    <3>3. Others
      BY <3>1 DEF Finished
    <3> QED BY <3>1, <3>2, <3>3
  <2>2. rows[cur[w]].bid = NoId /\ \A b \in BrokerIds : book[b].intent # cur[w]
    BY <1>h, <2>1 DEF HandOK, UnnamedRowsOK, NamedRowsOK
  <2>3. HandOK(w)'
    BY <2>1 DEF HandOK
  <2> QED BY <2>1, <2>2, <2>3, SubmitterWrites DEF ExecutionStatus
<1>3. ASSUME Claim(w) PROVE OrderInv'
  <2>1. /\ pc[w] = "checked" /\ pc'[w] = "claimed" /\ cur'[w] = cur[w]
        /\ RecordExecutionOrder(cur[w], "PENDING", NoId, FALSE)
        /\ Others /\ UNCHANGED <<submits, listed, book>>
    BY <1>3 DEF Claim
  <2>2. rows[cur[w]].bid = NoId /\ \A b \in BrokerIds : book[b].intent # cur[w]
    BY <1>h, <2>1 DEF HandOK, UnnamedRowsOK, NamedRowsOK
  <2>3. HandOK(w)'
    BY <2>1, <2>2 DEF HandOK, RecordExecutionOrder
  <2> QED BY <2>1, <2>2, <2>3, SubmitterWrites DEF ExecutionStatus
<1>4. ASSUME RecordUnsent(w) PROVE OrderInv'
  <2>0. PICK s \in {"FAILED", "UNKNOWN"} : RecordExecutionOrder(cur[w], s, NoId, FALSE)
    BY <1>4 DEF RecordUnsent, ErrorStatus
  <2>1. /\ pc[w] = "claimed" /\ pc'[w] = "ready"
        /\ Others /\ UNCHANGED <<submits, listed, book>>
    BY <1>4 DEF RecordUnsent, Finished
  <2>2. rows[cur[w]].bid = NoId /\ \A b \in BrokerIds : book[b].intent # cur[w]
    BY <1>h, <2>1 DEF HandOK
  <2>3. HandOK(w)'
    BY <2>1 DEF HandOK
  <2>4. s \in ExecutionStatus /\ s # "REJECTED" /\ NoId \in Id \cup {NoId}
    BY DEF ExecutionStatus
  <2>5. pc[w] \in Submitting /\ pc'[w] \notin Submitting /\ pc'[w] # "queried"
    BY <2>1
  <2> HIDE DEF HandOK
  <2> QED BY <2>0, <2>1, <2>2, <2>3, <2>4, <2>5, SubmitterWrites
<1>9. ASSUME Unauthorized(w) \/ RenewFails(w) PROVE OrderInv'
  <2>1. /\ pc[w] \in Placing /\ pc'[w] \in {"renewing", "answered"}
        /\ cur'[w] = cur[w] /\ wire'[w] = wire[w]
        /\ book[wire[w].order].state = "REFUSED"
        /\ pc'[w] = "answered" => answer'[w] \in {"known", "unknown"}
        /\ Others /\ UNCHANGED <<rows, submits, listed, book>>
    <3>1. CASE Unauthorized(w)
      BY <3>1 DEF Unauthorized, ledger
    <3>2. CASE RenewFails(w)
      <4>1. book[wire[w].order].state = "REFUSED"
        BY <1>h, <3>2 DEF HandOK, RenewFails
      <4> QED BY <3>2, <4>1 DEF RenewFails, ledger
    <3> QED BY <1>9, <3>1, <3>2
  <2>2. HandOK(w)'
    BY <1>h, <2>1 DEF HandOK
  <2>3. SubmitOK'
    BY <2>1, <2>2 DEF SubmitOK, HandOK, Names
  <2>4. SubmittedOnce'
    BY <2>1, OnceKept
  <2>5. SyncOK'
    BY <2>1 DEF SyncOK, Names, TrueOf
  <2> QED BY <2>1, <2>3, <2>4, <2>5 DEF BookOK, UnnamedRowsOK, NamedRowsOK, TrueOf, Stands
<1>6. ASSUME PlaceOrderReturns(w) PROVE OrderInv'
  <2>1. /\ pc[w] \in Sending /\ pc'[w] = "answered" /\ cur'[w] = cur[w] /\ wire'[w] = wire[w]
        /\ answer'[w] \in PlaceAnswers(wire[w].order)
        /\ Others /\ UNCHANGED <<rows, submits, listed, book>>
    BY <1>6 DEF PlaceOrderReturns, PlaceAnswers, ledger
  <2>2. HandOK(w)'
    BY <1>h, <2>1 DEF HandOK, PlaceAnswers
  <2>3. SubmitOK'
    BY <2>1, <2>2 DEF SubmitOK, HandOK, Names
  <2>4. SubmittedOnce'
    BY <2>1, OnceKept
  <2>5. SyncOK'
    BY <2>1 DEF SyncOK, Names, TrueOf
  <2> QED BY <2>1, <2>3, <2>4, <2>5 DEF BookOK, UnnamedRowsOK, NamedRowsOK, TrueOf, Stands
<1>7. ASSUME RecordAck(w) PROVE OrderInv'
  <2>1. /\ pc[w] = "answered" /\ answer[w] = "ack"
        /\ RecordExecutionOrder(cur[w], "ACKNOWLEDGED", wire[w], TRUE)
        /\ Others /\ UNCHANGED <<submits, listed, book>>
        /\ \/ pc'[w] = "acked" /\ cur'[w] = cur[w] /\ wire'[w] = wire[w]
           \/ pc'[w] = "ready"
    BY <1>7 DEF RecordAck
  <2>2. /\ wire[w] \in Id /\ wire[w] # NoId
        /\ book[wire[w].order].intent = cur[w] /\ book[wire[w].order].state \in Accepted
    BY <1>h, <2>1, ConstantsOK DEF HandOK, Id
  <2>3. rows'[cur[w]].bid = wire[w]
    BY <2>1 DEF RecordExecutionOrder
  <2>4. HandOK(w)'
    BY <2>1, <2>2, <2>3 DEF HandOK, Names
  <2> QED BY <2>1, <2>2, <2>4, SubmitterWrites DEF ExecutionStatus, TrueOf
<1>8. ASSUME RecordPlaceError(w) PROVE OrderInv'
  <2>1. /\ pc[w] = "answered" /\ answer[w] # "ack" /\ pc'[w] = "ready"
        /\ RecordExecutionOrder(cur[w], ErrorStatus(answer[w]), NoId, FALSE)
        /\ Others /\ UNCHANGED <<submits, listed, book>>
    BY <1>8 DEF RecordPlaceError, Finished
  <2>2. /\ rows[cur[w]].bid = NoId
        /\ ErrorStatus(answer[w]) = "FAILED" =>
             \A b \in BrokerIds : book[b].intent = cur[w] => book[b].state = "REFUSED"
    <3>1. /\ wire[w].order \in BrokerIds /\ book[wire[w].order].intent = cur[w]
          /\ cur[w] \in Intents /\ rows[cur[w]].bid = NoId
          /\ answer[w] = "unknown" \/ book[wire[w].order].state = "REFUSED"
      BY <1>h, <2>1 DEF HandOK, Id
    <3>2. \A b \in BrokerIds :
            book[b].intent = cur[w] => b = wire[w].order \/ book[b].state = "REFUSED"
      BY <1>h, <2>1 DEF HandOK
    <3> QED BY <3>1, <3>2 DEF ErrorStatus
  <2>3. HandOK(w)'
    BY <2>1 DEF HandOK
  <2> QED BY <2>1, <2>2, <2>3, SubmitterWrites DEF ExecutionStatus, ErrorStatus
<1>5. ASSUME Send(w) \/ Resend(w) PROVE OrderInv'
  BY <1>5, OrderSend
<1> QED BY <1>1, <1>2, <1>3, <1>4, <1>5, <1>6, <1>7, <1>8, <1>9 DEF Submit

\* The broker moves on: no order changes its intent, an accepted order stays
\* accepted, an ended one and a refused request stay as they are.
LEMMA BookMoves ==
  ASSUME OrderInv, UNCHANGED <<rows, submits, listed, cur>>,
         \A b \in BrokerIds :
           /\ book'[b].intent = book[b].intent
           /\ book'[b].state = "ABSENT" <=> book[b].state = "ABSENT"
           /\ book[b].state \in Accepted => book'[b].state \in Accepted
           /\ book[b].state \in ClosedOrder \cup {"REFUSED"} => book'[b].state = book[b].state
  PROVE  /\ BookOK' /\ UnnamedRowsOK' /\ NamedRowsOK'
         /\ \A v \in Workers :
              /\ pc'[v] = pc[v] /\ wire'[v] = wire[v] /\ answer'[v] = answer[v]
              => HandOK(v)'
<1> USE DEF OrderInv
<1>1. BookOK'
  BY DEF BookOK, Stands
<1>2. UnnamedRowsOK'
  BY DEF UnnamedRowsOK
<1>3. NamedRowsOK'
  <2>1. \A i \in Intents : rows[i].bid # NoId => rows[i].bid.order \in BrokerIds
    BY DEF TypeOK, Row, Id
  <2> QED BY <2>1 DEF NamedRowsOK, TrueOf, ClosedOrder
<1>4. ASSUME NEW v \in Workers,
             pc'[v] = pc[v], wire'[v] = wire[v], answer'[v] = answer[v]
      PROVE  HandOK(v)'
  <2>1. HandOK(v)
    BY DEF SubmitOK
  <2>2. pc[v] \in Waiting => wire[v].order \in BrokerIds
    BY DEF LocalsOK, Id
  <2> QED BY <1>4, <2>1, <2>2 DEF HandOK, Names, Waiting, Placing, Sending
<1> QED BY <1>1, <1>2, <1>3, <1>4

LEMMA OrderCancel ==
  ASSUME OrderInv, TypeInv', NEW w \in Workers, Cancel(w)
  PROVE  OrderInv'
<1> USE DEF OrderInv, TypeInv
<1>h. HandOK(w)
  BY DEF SubmitOK
<1>1. ASSUME CancelOrder(w) PROVE OrderInv'
  <2>1. /\ pc[w] = "acked" /\ pc' = [pc EXCEPT ![w] = "cancel_answered"]
        /\ UNCHANGED <<rows, submits, cur, listed>>
        /\ \A v \in Workers : v # w =>
             pc'[v] = pc[v] /\ wire'[v] = wire[v] /\ answer'[v] = answer[v]
    BY <1>1 DEF CancelOrder, ledger, TypeOK
  <2>2. wire[w] \in Id /\ Names(cur[w], wire[w])
    BY <1>h, <2>1 DEF LocalsOK, HandOK, Waiting, Placing, Sending
  <2>3. wire'[w].order = wire[w].order
    BY <1>1, <2>2 DEF CancelOrder, TypeOK, Id
  <2>4. \A b \in BrokerIds :
          /\ book'[b].intent = book[b].intent
          /\ book'[b].state = "ABSENT" <=> book[b].state = "ABSENT"
          /\ book[b].state \in Accepted => book'[b].state \in Accepted
          /\ book[b].state \in ClosedOrder \cup {"REFUSED"} => book'[b].state = book[b].state
    <3>1. CASE UNCHANGED book
      BY <3>1
    <3>2. CASE /\ book[wire[w].order].state \in OpenOrder
               /\ book' = [book EXCEPT ![wire[w].order].state = "PENDING_CANCEL",
                                       ![wire[w].order].cancel = "asked"]
      BY <2>2, <3>2 DEF TypeOK, Id, Book, Accepted, OpenOrder, ClosedOrder
    <3> QED BY <1>1, <3>1, <3>2 DEF CancelOrder
  <2>5. BookOK' /\ UnnamedRowsOK' /\ NamedRowsOK'
    BY <2>1, <2>4, BookMoves
  <2>6. ASSUME NEW v \in Workers PROVE HandOK(v)'
    <3>1. CASE v = w
      <4>1. pc'[w] = "cancel_answered"
        BY <2>1 DEF TypeOK
      <4> QED BY <2>1, <2>2, <2>3, <3>1, <4>1 DEF HandOK, Names, Placing, Sending
    <3>2. CASE v # w
      BY <2>1, <2>4, <3>2, BookMoves
    <3> QED BY <3>1, <3>2
  <2>7. \A v \in Workers : pc'[v] \in Submitting => pc[v] \in Submitting /\ cur'[v] = cur[v]
    BY <2>1 DEF TypeOK, Submitting, Waiting, Placing, Sending
  <2>8. \A v \in Workers : pc'[v] = "queried" => pc[v] = "queried" /\ v # w
    BY <2>1 DEF TypeOK
  <2>9. SubmittedOnce'
    BY <2>1, <2>7, OnceKept
  <2>10. SyncOK'
    BY <2>1, <2>4, <2>8, SyncKept
  <2> QED BY <2>5, <2>6, <2>9, <2>10 DEF SubmitOK
<1>2. ASSUME RecordCancel(w) PROVE OrderInv'
  <2>1. /\ pc[w] = "cancel_answered" /\ pc'[w] = "ready"
        /\ RecordExecutionOrder(cur[w], CancelStatus(answer[w]), wire[w], FALSE)
        /\ UNCHANGED <<submits, listed, book>>
        /\ \A v \in Workers : v # w =>
             /\ pc'[v] = pc[v] /\ cur'[v] = cur[v]
             /\ wire'[v] = wire[v] /\ answer'[v] = answer[v]
    BY <1>2 DEF RecordCancel, Finished, TypeOK
  <2>2. /\ wire[w] \in Id /\ wire[w] # NoId /\ cur[w] \in Intents
        /\ Names(cur[w], wire[w]) /\ pc[w] \in Submitting
    BY <1>h, <2>1, ConstantsOK DEF LocalsOK, HandOK, Submitting, Waiting, Placing, Sending, Id
  <2>3. book[wire[w].order].intent = cur[w] /\ book[wire[w].order].state \in Accepted
    BY <2>2 DEF NamedRowsOK, Names
  <2>4. CancelStatus(answer[w]) \in {"PENDING_CANCEL", "UNKNOWN", "FAILED"}
    BY DEF CancelStatus, ErrorStatus
  <2>5. TrueOf(CancelStatus(answer[w]), wire[w].order) /\ CancelStatus(answer[w]) \in ExecutionStatus
    BY <2>4 DEF TrueOf, ExecutionStatus
  <2>6. HandOK(w)' /\ pc'[w] \notin Submitting /\ pc'[w] # "queried"
    BY <2>1 DEF HandOK, Submitting, Waiting, Placing, Sending
  <2> QED BY <2>1, <2>2, <2>3, <2>5, <2>6, SubmitterWrites
<1> QED BY <1>1, <1>2 DEF Cancel

LEMMA OrderBroker ==
  ASSUME OrderInv, TypeInv', Broker
  PROVE  OrderInv'
<1> USE DEF OrderInv, TypeInv
<1>1. PICK b \in BrokerIds : Arrives(b) \/ Progresses(b) \/ CancelLoses(b)
  BY DEF Broker
<1>2. UNCHANGED <<rows, submits, pc, cur, wire, answer, listed>>
  BY <1>1 DEF Arrives, Progresses, CancelLoses, ledger, locals
<1>3. /\ \A c \in BrokerIds : c # b => book'[c] = book[c]
      /\ book'[b].intent = book[b].intent
      /\ \/ book[b].state = "WIRE" /\ book'[b].state \in {"PENDING", "REFUSED"}
         \/ book[b].state \in OpenOrder /\ book'[b].state \in Accepted
  <2>1. CASE Arrives(b)
    BY <2>1 DEF Arrives, TypeOK, Book
  <2>2. CASE Progresses(b)
    BY <2>2 DEF Progresses, Later, TypeOK, Book, Accepted, OpenOrder, ClosedOrder
  <2>3. CASE CancelLoses(b)
    BY <2>3 DEF CancelLoses, TypeOK, Book, Accepted, OpenOrder, ClosedOrder
  <2> QED BY <1>1, <2>1, <2>2, <2>3
<1>4. \A c \in BrokerIds :
        /\ book'[c].intent = book[c].intent
        /\ book'[c].state = "ABSENT" <=> book[c].state = "ABSENT"
        /\ book[c].state \in Accepted => book'[c].state \in Accepted
        /\ book[c].state \in ClosedOrder \cup {"REFUSED"} => book'[c].state = book[c].state
  BY <1>3 DEF Accepted, OpenOrder, ClosedOrder
<1>5. /\ BookOK' /\ UnnamedRowsOK' /\ NamedRowsOK'
      /\ \A v \in Workers : HandOK(v)'
  BY <1>2, <1>4, BookMoves
<1>6. SubmittedOnce'
  BY <1>2, OnceKept
<1>7. SyncOK'
  BY <1>2, <1>4, SyncKept
<1> QED BY <1>5, <1>6, <1>7 DEF SubmitOK

LEMMA OrderRest ==
  ASSUME OrderInv, TypeInv',
         (\E w \in Workers : EndPass(w) \/ Abort(w)) \/ UNCHANGED vars
  PROVE  OrderInv'
<1> USE DEF OrderInv, TypeInv
<1>1. /\ UNCHANGED <<rows, submits, book>>
      /\ \A v \in Workers :
           \/ /\ pc'[v] = pc[v] /\ cur'[v] = cur[v]
              /\ wire'[v] = wire[v] /\ answer'[v] = answer[v]
           \/ pc'[v] \in {"idle", "ready"}
      /\ \A v \in Workers, i \in Intents :
           listed'[v][i] # NoId => listed'[v][i] = listed[v][i]
  <2>1. CASE \E w \in Workers : EndPass(w)
    BY <2>1 DEF EndPass, ledger, TypeOK
  <2>2. CASE \E w \in Workers : Abort(w)
    BY <2>2 DEF Abort, Finished, ledger, TypeOK
  <2>3. CASE UNCHANGED vars
    BY <2>3 DEF vars
  <2> QED BY <2>1, <2>2, <2>3
<1>2. BookOK' /\ UnnamedRowsOK' /\ NamedRowsOK'
  BY <1>1 DEF BookOK, UnnamedRowsOK, NamedRowsOK, TrueOf, Stands
<1>3. \A v \in Workers : pc'[v] \in Submitting => pc[v] \in Submitting /\ cur'[v] = cur[v]
  BY <1>1 DEF Submitting, Waiting, Placing, Sending
<1>4. SubmittedOnce'
  BY <1>1, <1>3, OnceKept
<1>5. SyncOK'
  BY <1>1, SyncKept
<1>6. ASSUME NEW v \in Workers PROVE HandOK(v)'
  <2>1. HandOK(v)
    BY DEF SubmitOK
  <2> QED BY <1>1, <2>1 DEF HandOK, Names, Submitting, Waiting, Placing, Sending
<1> QED BY <1>2, <1>4, <1>5, <1>6 DEF SubmitOK

LEMMA OrderStep == MaxSubmits = 1 /\ OrderInv /\ [Next]_vars => OrderInv'
<1> SUFFICES ASSUME MaxSubmits = 1, OrderInv, [Next]_vars PROVE OrderInv'
  OBVIOUS
<1>1. TypeInv'
  BY TypeSync, TypeSubmit, TypeCancel, TypeRest DEF Next, OrderInv, TypeInv
<1> QED
  BY <1>1, OrderSync, OrderSubmit, OrderCancel, OrderBroker, OrderRest DEF Next

-----------------------------------------------------------------------------
(* What follows from it *)

LEMMA OrderInvariant ==
  ASSUME MaxSubmits = 1
  PROVE  Spec => []OrderInv
<1>1. Init => OrderInv
  BY OrderInit
<1>2. OrderInv /\ [Next]_vars => OrderInv'
  BY OrderStep
<1> QED BY <1>1, <1>2, PTL DEF Spec

\* However many workers share the ledger and whatever is lost, late or crashed:
\* of the requests for an intent that is submitted once, the resend after a 401
\* included, at most one is under way or became an order.
THEOREM AtMostOneOrder ==
  ASSUME MaxSubmits = 1
  PROVE  Spec => []OneOrderPerKey
<1>1. OrderInv => OneOrderPerKey
  BY DEF OrderInv, BookOK, OneOrderPerKey, Own
<1> QED BY <1>1, OrderInvariant, PTL

\* The argument: the row of a live order is unresolved, or names it and says
\* that its cancel failed.
LEMMA LiveTracked == OrderInv => LiveOrderTracked
<1>1. ASSUME OrderInv, NEW b \in BrokerIds, Live(b)
      PROVE  book[b].intent \in Unresolved \/ GivenUp(b)
  <2> DEFINE i == book[b].intent
             row == rows[i]
  <2> USE DEF OrderInv, Live, OpenOrder
  <2>1. i \in Intents
    BY <1>1 DEF TypeOK, Book, BookOK
  <2>2. row.status \in ExecutionStatus \cup {"NONE"} /\ (row.bid = NoId \/ row.bid.order \in BrokerIds)
    BY <1>1, <2>1 DEF TypeOK, Row, Id
  <2>3. CASE row.bid = NoId
    BY <1>1, <2>1, <2>3 DEF UnnamedRowsOK, Unresolved, UnresolvedExecutionStatuses
  <2>4. CASE row.bid # NoId
    <3>0. Stands(b) /\ Stands(row.bid.order) /\ book[row.bid.order].intent = i
      BY <1>1, <2>1, <2>4 DEF NamedRowsOK, Stands, Accepted, ClosedOrder
    <3>1. row.bid.order = b
      <4>1. BookOK /\ row.bid.order \in BrokerIds
        BY <1>1, <2>2, <2>4, ConstantsOK
      <4> QED BY <3>0, <4>1 DEF BookOK
    <3>2. row.status \notin {"NONE", "FILLED", "CANCELLED", "REJECTED"}
      BY <1>1, <2>1, <2>4, <3>1 DEF NamedRowsOK, TrueOf
    <3> QED BY <2>1, <2>2, <2>4, <3>1, <3>2
            DEF GivenUp, Unresolved, UnresolvedExecutionStatuses, ExecutionStatus
  <2> QED BY <2>3, <2>4
<1> QED BY <1>1 DEF LiveOrderTracked

\* A request on the wire or an open order has an unresolved row, unless its
\* cancel failed.
THEOREM LiveOrdersAreTracked ==
  ASSUME MaxSubmits = 1
  PROVE  Spec => []LiveOrderTracked
BY LiveTracked, OrderInvariant, PTL

\* A row that tells how an order ended, or that there is none, is right.
THEOREM EndsAreTrue ==
  ASSUME MaxSubmits = 1
  PROVE  Spec => []EndedRowsTruthful
<1>1. ASSUME OrderInv, NEW i \in Intents, rows[i].bid = NoId
      PROVE  /\ rows[i].status \notin {"FILLED", "CANCELLED"}
             /\ rows[i].status = "REJECTED" => Own(i) = {}
             /\ rows[i].status = "FAILED" => \A b \in Own(i) : book[b].state = "REFUSED"
  BY <1>1 DEF OrderInv, UnnamedRowsOK, Own
<1>2. ASSUME OrderInv, NEW i \in Intents, rows[i].bid # NoId
      PROVE  /\ rows[i].bid.order \in Own(i)
             /\ book[rows[i].bid.order].state \in Accepted
             /\ TrueOf(rows[i].status, rows[i].bid.order)
  BY <1>2 DEF OrderInv, NamedRowsOK, Own, TypeOK, Row, Id
<1>3. OrderInv => EndedRowsTruthful
  BY <1>1, <1>2 DEF EndedRowsTruthful, TrueOf
<1> QED BY <1>3, OrderInvariant, PTL

\* A step that writes row i: from nothing, a claim, or a named row, to a row
\* that names an order if it did before.
RowRewritten(i) ==
  /\ \A j \in Intents : j # i => rows'[j] = rows[j]
  /\ rows[i].bid # NoId \/ rows[i].status \in {"NONE", "PENDING"}
  /\ rows'[i].status # "NONE"
  /\ rows[i].bid # NoId => rows'[i].bid # NoId

\* No step changes the ledger and the broker at once.
LEMMA RowSteps ==
  ASSUME MaxSubmits = 1, OrderInv, [Next]_vars
  PROVE  UNCHANGED rows \/ (UNCHANGED book /\ \E i \in Intents : RowRewritten(i))
<1> USE DEF OrderInv, ledger, locals
<1> DEFINE Goal == UNCHANGED rows \/ (UNCHANGED book /\ \E i \in Intents : RowRewritten(i))
<1>0. ASSUME NEW w \in Workers, NEW s \in ExecutionStatus, NEW id \in Id \cup {NoId},
             NEW p \in BOOLEAN, RecordExecutionOrder(cur[w], s, id, p), UNCHANGED book,
             pc[w] \in Submitting \cup {"queried"},
             id = NoId => pc[w] \in {"checked", "claimed", "answered"}
      PROVE  Goal
  <2>1. cur[w] \in Intents
    BY <1>0 DEF LocalsOK
  <2>2. /\ rows'[cur[w]].status = s /\ rows'[cur[w]].bid = id
        /\ \A j \in Intents : j # cur[w] => rows'[j] = rows[j]
    BY <1>0, <2>1 DEF RecordExecutionOrder, TypeOK
  <2>3. pc[w] \in {"checked", "claimed", "answered"} => rows[cur[w]].bid = NoId
    BY <2>1 DEF SubmitOK, HandOK, NamedRowsOK, Placing, Sending
  <2>4. rows[cur[w]].bid # NoId \/ rows[cur[w]].status \in {"NONE", "PENDING"}
    BY <1>0, <2>1 DEF SubmitOK, HandOK, SyncOK, Names, Submitting, Waiting, Placing, Sending
  <2>5. s # "NONE"
    BY DEF ExecutionStatus
  <2>6. RowRewritten(cur[w])
    BY <1>0, <2>2, <2>3, <2>4, <2>5 DEF RowRewritten
  <2> QED BY <1>0, <2>1, <2>6
<1>1. ASSUME NEW w \in Workers, Sync(w) PROVE Goal
  <2>1. CASE RecordSync(w)
    <3>1. PICK id \in {wire[w], [order |-> wire[w].order, cancel |-> FALSE]} :
            RecordExecutionOrder(cur[w], answer[w], id, FALSE)
      BY <2>1 DEF RecordSync
    <3>2. answer[w] \in ExecutionStatus /\ pc[w] = "queried" /\ UNCHANGED book
      BY <2>1 DEF RecordSync, LocalsOK
    <3>3. id \in Id \cup {NoId} /\ id # NoId
      BY <3>1, <3>2, SyncedId DEF LocalsOK
    <3> QED BY <1>0, <3>1, <3>2, <3>3
  <2> QED BY <1>1, <2>1 DEF Sync, StartPass, QueryOrder, QueryFails, EndSync
<1>2. ASSUME NEW w \in Workers, Submit(w) PROVE Goal
  <2>1. ASSUME NEW i \in Intents, CheckKey(w, i) PROVE UNCHANGED rows
    <3>1. submits[i] \in 0..1 /\ submits[i] < 1
      BY <2>1 DEF CheckKey, TypeOK
    <3>2. submits[i] = 0
      BY <3>1
    <3> QED BY <2>1, <3>2 DEF CheckKey, SubmittedOnce, HasUnresolvedExecutionKey,
                              Unresolved, UnresolvedExecutionStatuses
  <2>2. CASE Block(w) \/ Claim(w) \/ RecordUnsent(w) \/ RecordPlaceError(w)
    <3>1. PICK s \in ExecutionStatus : RecordExecutionOrder(cur[w], s, NoId, FALSE)
      BY <2>2 DEF Block, Claim, RecordUnsent, RecordPlaceError, ErrorStatus, ExecutionStatus
    <3>2. pc[w] \in {"checked", "claimed", "answered"} /\ UNCHANGED book
      BY <2>2 DEF Block, Claim, RecordUnsent, RecordPlaceError
    <3> QED BY <1>0, <3>1, <3>2 DEF Submitting, Waiting, Placing, Sending
  <2>3. CASE RecordAck(w)
    <3>1. /\ "ACKNOWLEDGED" \in ExecutionStatus /\ wire[w] \in Id \cup {NoId} /\ wire[w] # NoId
          /\ RecordExecutionOrder(cur[w], "ACKNOWLEDGED", wire[w], TRUE)
          /\ pc[w] \in Submitting /\ UNCHANGED book
      BY <2>3, ConstantsOK DEF RecordAck, LocalsOK, Submitting, Waiting, Placing, Sending, Id, ExecutionStatus
    <3> QED BY <1>0, <3>1
  <2> QED BY <1>2, <2>1, <2>2, <2>3
          DEF Submit, Send, Resend, Post, Unauthorized, RenewFails, PlaceOrderReturns
<1>3. ASSUME NEW w \in Workers, Cancel(w) PROVE Goal
  <2>1. CASE RecordCancel(w)
    <3>1. CancelStatus(answer[w]) \in ExecutionStatus
      BY DEF CancelStatus, ErrorStatus, ExecutionStatus
    <3>2. /\ wire[w] \in Id \cup {NoId} /\ wire[w] # NoId
          /\ RecordExecutionOrder(cur[w], CancelStatus(answer[w]), wire[w], FALSE)
          /\ pc[w] \in Submitting /\ UNCHANGED book
      BY <2>1, ConstantsOK DEF RecordCancel, LocalsOK, Submitting, Waiting, Placing, Sending, Id
    <3> QED BY <1>0, <3>1, <3>2
  <2> QED BY <1>3, <2>1 DEF Cancel, CancelOrder
<1>4. ASSUME Broker PROVE Goal
  BY <1>4 DEF Broker, Arrives, Progresses, CancelLoses
<1>5. ASSUME NEW w \in Workers, EndPass(w) \/ Abort(w) PROVE Goal
  BY <1>5 DEF EndPass, Abort
<1>6. CASE UNCHANGED vars
  BY <1>6 DEF vars
<1> QED BY <1>1, <1>2, <1>3, <1>4, <1>5, <1>6 DEF Next

\* The same order, in a step that keeps the broker as it is.
LEMMA OrderNamed ==
  ASSUME MaxSubmits = 1, OrderInv, OrderInv', [Next]_vars,
         NEW i \in Intents, rows[i].bid # NoId
  PROVE  /\ rows'[i].bid # NoId /\ rows'[i].bid.order = rows[i].bid.order
         /\ UNCHANGED rows \/ UNCHANGED book
<1>1. CASE UNCHANGED rows
  BY <1>1
<1>2. CASE UNCHANGED book /\ \E j \in Intents : RowRewritten(j)
  <2>0. rows'[i].bid # NoId
    BY <1>2 DEF RowRewritten
  <2>1. /\ rows[i].bid.order \in BrokerIds /\ book[rows[i].bid.order].intent = i
        /\ rows'[i].bid.order \in BrokerIds /\ book[rows'[i].bid.order].intent = i
    BY <1>2, <2>0 DEF OrderInv, NamedRowsOK, TypeOK, Row, Id
  <2>2. Stands(rows[i].bid.order) /\ Stands(rows'[i].bid.order)
    BY <1>2, <2>0 DEF OrderInv, NamedRowsOK, Stands, Accepted, OpenOrder, ClosedOrder
  <2> QED BY <1>2, <2>0, <2>1, <2>2 DEF OrderInv, BookOK
<1> QED BY <1>1, <1>2, RowSteps

\* A row never forgets its order and never names another.
THEOREM RowsKeepTheirOrder ==
  ASSUME MaxSubmits = 1
  PROVE  Spec => BrokerOrderKept
<1>1. OrderInv /\ OrderInv' /\ [Next]_vars =>
        [\A i \in Intents :
           rows[i].bid # NoId =>
             rows'[i].bid # NoId /\ rows'[i].bid.order = rows[i].bid.order]_vars
  BY OrderNamed
<1> QED BY <1>1, OrderInvariant, PTL DEF Spec, BrokerOrderKept

\* FILLED, CANCELLED and REJECTED never turn into one another.
THEOREM EndsAreFinal ==
  ASSUME MaxSubmits = 1
  PROVE  Spec => EndNeverContradicted
<1>1. ASSUME OrderInv, OrderInv', [Next]_vars, NEW i \in Intents,
             rows[i].status \in Ended, rows'[i].status \in Ended
      PROVE  rows'[i].status = rows[i].status
  <2> USE DEF OrderInv, Ended
  <2>1. CASE UNCHANGED rows
    BY <2>1
  <2>2. CASE rows[i].bid # NoId /\ UNCHANGED book
    <3>1. rows'[i].bid # NoId /\ rows'[i].bid.order = rows[i].bid.order
      BY <1>1, <2>2, OrderNamed
    <3> QED BY <1>1, <2>2, <3>1 DEF NamedRowsOK, TrueOf
  <2>3. CASE rows[i].bid = NoId /\ UNCHANGED book
    <3>1. rows[i].status = "REJECTED" /\ \A b \in BrokerIds : book[b].intent # i
      BY <1>1, <2>3 DEF UnnamedRowsOK
    <3>2. rows'[i].bid = NoId
      BY <1>1, <2>3, <3>1 DEF NamedRowsOK, TypeOK, Row, Id
    <3> QED BY <1>1, <3>1, <3>2 DEF UnnamedRowsOK
  <2> QED BY <1>1, <2>1, <2>2, <2>3, RowSteps
<1>2. OrderInv /\ OrderInv' /\ [Next]_vars =>
        [\A i \in Intents :
           rows[i].status \in Ended /\ rows'[i].status \in Ended
             => rows'[i].status = rows[i].status]_vars
  BY <1>1
<1> QED BY <1>2, OrderInvariant, PTL DEF Spec, EndNeverContradicted

-----------------------------------------------------------------------------
(* LiveExecution implements OrderClaim when an intent is submitted once *)

LEMMA ContractInit == Init => Contract!ClaimInit
<1> SUFFICES ASSUME Init PROVE Contract!ClaimInit
  OBVIOUS
<1>1. \A i \in Intents : ClaimOf(rows[i]) = "none"
  BY DEF Init, ClaimOf
<1>2. \A i \in Intents : Own(i) = {}
  BY ConstantsOK DEF Init, Own
<1>3. \A i \in Intents : OrderOf(i) = "none"
  BY <1>2 DEF OrderOf
<1> QED BY <1>1, <1>3 DEF Contract!ClaimInit, claims, orders

\* The order of an intent whose row names one, and of one that has none.
LEMMA OrderOfNamed ==
  ASSUME OrderInv, NEW i \in Intents, rows[i].bid # NoId
  PROVE  /\ OrderOf(i) \in {"open", "done"}
         /\ ClaimOf(rows[i]) \in {"held", "settled", "abandoned"}
         /\ ClaimOf(rows[i]) = "settled" => OrderOf(i) = "done"
<1> DEFINE b == rows[i].bid.order
<1>1. /\ b \in BrokerIds /\ book[b].intent = i /\ book[b].state \in Accepted
      /\ TrueOf(rows[i].status, b)
      /\ rows[i].status \in ExecutionStatus /\ rows[i].status # "NONE"
  BY DEF OrderInv, TypeOK, Row, Id, NamedRowsOK
<1>2. Stands(b)
  BY <1>1 DEF Stands, Accepted, OpenOrder, ClosedOrder
<1>3. \A c \in Own(i) : c # b => book[c].state \notin Accepted
  BY <1>1, <1>2 DEF OrderInv, BookOK, Stands, Own, Accepted, OpenOrder, ClosedOrder
<1>4. OrderOf(i) = IF book[b].state \in OpenOrder THEN "open" ELSE "done"
  BY <1>1, <1>3 DEF OrderOf, Own, Accepted
<1>5. ClaimOf(rows[i]) \in {"held", "settled", "abandoned"}
  BY <1>1 DEF ClaimOf
<1>6. ClaimOf(rows[i]) = "settled" => rows[i].status \in {"FILLED", "CANCELLED", "REJECTED"}
  BY <1>1 DEF ClaimOf, ExecutionStatus, UnresolvedExecutionStatuses
<1> QED BY <1>1, <1>4, <1>5, <1>6 DEF TrueOf, OpenOrder

LEMMA OrderOfUnnamed ==
  ASSUME OrderInv, NEW i \in Intents, rows[i].bid = NoId
  PROVE  /\ ClaimOf(rows[i]) \in {"none", "held", "refused"}
         /\ ClaimOf(rows[i]) \in {"none", "refused"} => OrderOf(i) = "none"
         /\ ClaimOf(rows[i]) = "none" <=> rows[i].status = "NONE"
<1>1. rows[i].status \in {"NONE", "PENDING", "UNKNOWN", "REJECTED", "FAILED"}
  BY DEF OrderInv, UnnamedRowsOK
<1>2. /\ ClaimOf(rows[i]) \in {"none", "held", "refused"}
      /\ ClaimOf(rows[i]) = "refused" => rows[i].status \in {"REJECTED", "FAILED"}
      /\ ClaimOf(rows[i]) = "none" <=> rows[i].status = "NONE"
  BY <1>1 DEF ClaimOf, UnresolvedExecutionStatuses
<1>3. rows[i].status \in {"NONE", "REJECTED", "FAILED"} =>
        \A b \in Own(i) : book[b].state = "REFUSED"
  BY DEF OrderInv, UnnamedRowsOK, Own
<1>4. (\A b \in Own(i) : book[b].state = "REFUSED") => OrderOf(i) = "none"
  BY DEF OrderOf, OpenOrder, ClosedOrder
<1> QED BY <1>2, <1>3, <1>4

NamedFacts(i) ==
  /\ OrderOf(i) \in {"open", "done"}
  /\ ClaimOf(rows[i]) \in {"held", "settled", "abandoned"}
  /\ ClaimOf(rows[i]) = "settled" => OrderOf(i) = "done"

UnnamedFacts(i) ==
  /\ ClaimOf(rows[i]) \in {"none", "held", "refused"}
  /\ ClaimOf(rows[i]) \in {"none", "refused"} => OrderOf(i) = "none"
  /\ ClaimOf(rows[i]) = "none" <=> rows[i].status = "NONE"

LEMMA RowFacts ==
  OrderInv =>
    \A i \in Intents : IF rows[i].bid # NoId THEN NamedFacts(i) ELSE UnnamedFacts(i)
BY OrderOfNamed, OrderOfUnnamed DEF NamedFacts, UnnamedFacts

LEMMA RowFactsNext ==
  (OrderInv =>
    \A i \in Intents : IF rows[i].bid # NoId THEN NamedFacts(i) ELSE UnnamedFacts(i))'
BY RowFacts, PTL

\* A write to the ledger is a step of the claim, or none.
LEMMA RowStepMaps ==
  ASSUME OrderInv, OrderInv', UNCHANGED book,
         NEW i \in Intents, RowRewritten(i)
  PROVE  Contract!ClaimNext \/ UNCHANGED <<claims, orders>>
<1> DEFINE from == ClaimOf(rows[i])
           to == ClaimOf(rows'[i])
<1>1. /\ claims' = [claims EXCEPT ![i] = to] /\ claims[i] = from
      /\ UNCHANGED orders /\ orders[i] = OrderOf(i) /\ OrderOf(i)' = OrderOf(i)
  <2>1. \A j \in Intents : Own(j)' = Own(j) /\ OrderOf(j)' = OrderOf(j)
    BY DEF Own, OrderOf
  <2>2. \A j \in Intents : ClaimOf(rows[j])' = ClaimOf(rows'[j])
    BY DEF ClaimOf
  <2>3. \A j \in Intents : j # i => rows'[j] = rows[j]
    BY DEF RowRewritten
  <2> QED BY <2>1, <2>2, <2>3 DEF claims, orders
<1>0. ClaimOf(rows[i])' = to
  BY DEF ClaimOf
<1>a. IF rows[i].bid # NoId THEN NamedFacts(i) ELSE UnnamedFacts(i)
  BY RowFacts
<1>b. (IF rows[i].bid # NoId THEN NamedFacts(i) ELSE UnnamedFacts(i))'
  BY RowFactsNext
<1>2. from = to \/ Contract!Take(i) \/ Contract!Refuse(i) \/ Contract!Settle(i)
        \/ Contract!Abandon(i) \/ Contract!Reopen(i)
  <2>1. CASE rows'[i].bid # NoId
    <3>1. /\ OrderOf(i) \in {"open", "done"} /\ to \in {"held", "settled", "abandoned"}
          /\ to = "settled" => OrderOf(i) = "done"
      BY <1>0, <1>1, <1>b, <2>1 DEF NamedFacts
    <3>2. from \in {"held", "settled", "abandoned"}
      BY <1>a, <3>1 DEF NamedFacts, UnnamedFacts
    <3> QED
      BY <1>1, <3>1, <3>2 DEF Contract!Settle, Contract!Abandon, Contract!Reopen, Contract!Move
  <2>2. CASE rows'[i].bid = NoId
    <3>1. rows[i].bid = NoId /\ rows[i].status \in {"NONE", "PENDING"} /\ rows'[i].status # "NONE"
      BY <2>2 DEF RowRewritten
    <3>2. from \in {"none", "held"}
      BY <3>1 DEF ClaimOf, UnresolvedExecutionStatuses
    <3>3. to \in {"held", "refused"} /\ (to = "refused" => OrderOf(i) = "none")
      BY <1>0, <1>1, <1>b, <2>2, <3>1 DEF UnnamedFacts
    <3> QED
      BY <1>1, <3>2, <3>3 DEF Contract!Take, Contract!Refuse, Contract!Move
  <2> QED BY <2>1, <2>2
<1>3. from = to => UNCHANGED claims
  BY <1>1 DEF claims
<1>4. claims'[i] = to
  BY <1>1 DEF claims
<1>5. from # to => <<claims[i], orders[i]>>' # <<claims[i], orders[i]>>
  BY <1>1, <1>4
<1> QED BY <1>1, <1>2, <1>3, <1>5 DEF Contract!ClaimNext

\* What a step does to the broker's side.
LEMMA BookSteps ==
  ASSUME OrderInv, [Next]_vars
  PROVE  \/ UNCHANGED book
         \/ /\ UNCHANGED rows
            /\ \E b \in BrokerIds :
                 /\ \A c \in BrokerIds : c # b => book'[c] = book[c]
                 /\ \/ book[b].state = "ABSENT" /\ book'[b].state = "WIRE"
                    \/ /\ book'[b].intent = book[b].intent
                       /\ \/ book[b].state = "WIRE" /\ book'[b].state \in {"PENDING", "REFUSED"}
                          \/ book[b].state \in OpenOrder /\ book'[b].state \in Accepted
<1> USE DEF OrderInv, ledger, locals
<1> DEFINE Moves(b) ==
             /\ \A c \in BrokerIds : c # b => book'[c] = book[c]
             /\ \/ book[b].state = "ABSENT" /\ book'[b].state = "WIRE"
                \/ /\ book'[b].intent = book[b].intent
                   /\ \/ book[b].state = "WIRE" /\ book'[b].state \in {"PENDING", "REFUSED"}
                      \/ book[b].state \in OpenOrder /\ book'[b].state \in Accepted
<1>1. ASSUME NEW w \in Workers, Send(w) \/ Resend(w)
      PROVE  (UNCHANGED rows) /\ \E b \in BrokerIds : Moves(b)
  <2>1. PICK b \in BrokerIds :
          /\ book[b].state = "ABSENT"
          /\ book' = [book EXCEPT ![b] = [intent |-> cur[w], state |-> "WIRE", cancel |-> "none"]]
    BY <1>1 DEF Send, Resend, Post
  <2>2. Moves(b)
    BY <2>1 DEF TypeOK
  <2> QED BY <1>1, <2>2 DEF Send, Resend, Post
<1>2. ASSUME NEW w \in Workers, CancelOrder(w)
      PROVE  (UNCHANGED book) \/ ((UNCHANGED rows) /\ \E b \in BrokerIds : Moves(b))
  <2>1. wire[w].order \in BrokerIds
    BY <1>2 DEF CancelOrder, LocalsOK, Waiting, Placing, Sending, Id
  <2>2. CASE /\ book[wire[w].order].state \in OpenOrder
             /\ book' = [book EXCEPT ![wire[w].order].state = "PENDING_CANCEL",
                                     ![wire[w].order].cancel = "asked"]
    <3>1. Moves(wire[w].order)
      BY <2>1, <2>2 DEF TypeOK, Book, Accepted, OpenOrder
    <3> QED BY <1>2, <2>1, <3>1 DEF CancelOrder
  <2>3. CASE UNCHANGED book
    BY <2>3
  <2> QED BY <1>2, <2>2, <2>3 DEF CancelOrder
<1>3. ASSUME Broker
      PROVE  (UNCHANGED rows) /\ \E b \in BrokerIds : Moves(b)
  <2>1. PICK b \in BrokerIds : Arrives(b) \/ Progresses(b) \/ CancelLoses(b)
    BY <1>3 DEF Broker
  <2>2. CASE Arrives(b)
    BY <2>2 DEF Arrives, TypeOK, Book
  <2>3. CASE Progresses(b)
    BY <2>3 DEF Progresses, Later, TypeOK, Book, Accepted, OpenOrder, ClosedOrder
  <2>4. CASE CancelLoses(b)
    BY <2>4 DEF CancelLoses, TypeOK, Book, Accepted, OpenOrder, ClosedOrder
  <2> QED BY <2>1, <2>2, <2>3, <2>4
<1>4. ASSUME NEW w \in Workers, Sync(w) \/ EndPass(w) \/ Abort(w) PROVE UNCHANGED book
  BY <1>4 DEF Sync, StartPass, QueryOrder, QueryFails, RecordSync, EndSync, EndPass, Abort
<1>5. ASSUME NEW w \in Workers, Submit(w), ~Send(w), ~Resend(w) PROVE UNCHANGED book
  BY <1>5 DEF Submit, CheckKey, Block, Claim, RecordUnsent, Unauthorized, RenewFails,
              PlaceOrderReturns, RecordAck, RecordPlaceError
<1>6. ASSUME NEW w \in Workers, RecordCancel(w) PROVE UNCHANGED book
  BY <1>6 DEF RecordCancel
<1> QED BY <1>1, <1>2, <1>3, <1>4, <1>5, <1>6 DEF Next, Cancel, vars

\* A step of the broker is a step of the order, or none.
LEMMA BookStepMaps ==
  ASSUME OrderInv, OrderInv', UNCHANGED rows, NEW b \in BrokerIds,
         \A c \in BrokerIds : c # b => book'[c] = book[c],
         \/ book[b].state = "ABSENT" /\ book'[b].state = "WIRE"
         \/ /\ book'[b].intent = book[b].intent
            /\ \/ book[b].state = "WIRE" /\ book'[b].state \in {"PENDING", "REFUSED"}
               \/ book[b].state \in OpenOrder /\ book'[b].state \in Accepted
  PROVE  Contract!ClaimNext \/ UNCHANGED <<claims, orders>>
<1> DEFINE After == IF book'[b].state \in OpenOrder THEN "open"
                    ELSE IF book'[b].state \in ClosedOrder THEN "done" ELSE "none"
           Before == IF book[b].state \in OpenOrder THEN "open" ELSE "none"
<1>1. PICK i \in Intents : book'[b].intent = i
  BY DEF OrderInv, TypeOK, Book, BookOK, Accepted, OpenOrder, ClosedOrder
<1>a. (book[b].state = "ABSENT" /\ book[b].intent = NoIntent) \/ book[b].intent = i
  BY <1>1 DEF OrderInv, BookOK
<1>2. \A c \in BrokerIds :
        c # b /\ book[c].intent = i => book'[c] = book[c] /\ book[c].state \notin Accepted
  <2>1. CASE book[b].state = "ABSENT"
    <3>1. Stands(b)'
      BY <2>1 DEF Stands, OpenOrder
    <3>2. \A c \in BrokerIds : c # b /\ book[c].intent = i => ~Stands(c)'
      BY <1>1, <3>1 DEF OrderInv, BookOK
    <3> QED BY <3>2 DEF Stands, Accepted, OpenOrder, ClosedOrder
  <2>2. CASE book[b].state # "ABSENT"
    <3>1. Stands(b)
      BY <2>2 DEF Stands, OpenOrder
    <3>2. \A c \in BrokerIds : c # b /\ book[c].intent = i => ~Stands(c)
      BY <1>1, <2>2, <3>1 DEF OrderInv, BookOK
    <3> QED BY <3>2 DEF Stands, Accepted, OpenOrder, ClosedOrder
  <2> QED BY <2>1, <2>2
<1>b. OrderOf(i)' = After
  BY <1>1, <1>2 DEF OrderOf, Own, Accepted
<1>c. OrderOf(i) = Before
  BY <1>1, <1>a, <1>2, ConstantsOK DEF OrderOf, Own, Accepted, OpenOrder, ClosedOrder
<1>3. \A j \in Intents : j # i => OrderOf(j)' = OrderOf(j)
  <2>1. ASSUME NEW j \in Intents, j # i
        PROVE  Own(j)' = Own(j) /\ \A c \in Own(j) : book'[c] = book[c]
    BY <1>1, <1>a, <2>1, ConstantsOK DEF Own
  <2> QED BY <2>1 DEF OrderOf
<1>4. UNCHANGED claims
  BY DEF claims
<1>5. orders' = [orders EXCEPT ![i] = After] /\ orders[i] = Before /\ orders'[i] = After
  <2>1. orders' = [j \in Intents |-> OrderOf(j)']
    BY DEF orders
  <2> QED BY <1>1, <1>3, <1>b, <1>c, <2>1 DEF orders
<1>6. CASE After = Before
  BY <1>4, <1>5, <1>6 DEF orders
<1>7. CASE After # Before
  <2>1. <<claims[i], orders[i]>>' # <<claims[i], orders[i]>>
    BY <1>4, <1>5, <1>7
  <2>2. CASE book[b].state \in OpenOrder
    <3>1. Before = "open" /\ After = "done"
      BY <1>7, <2>2 DEF Accepted, OpenOrder
    <3>2. Contract!Finish(i)
      BY <1>4, <1>5, <3>1 DEF Contract!Finish
    <3> QED BY <2>1, <3>2 DEF Contract!ClaimNext
  <2>3. CASE book[b].state = "WIRE" /\ book[b].intent = i
    <3>1. Before = "none" /\ After = "open"
      BY <1>7, <2>3 DEF OpenOrder, ClosedOrder
    <3>2. ClaimOf(rows[i]) = "held"
      <4>1. rows[i].bid = NoId
        BY <1>c, <3>1, OrderOfNamed
      <4>2. rows[i].status \in {"PENDING", "UNKNOWN"}
        BY <2>3, <4>1 DEF OrderInv, UnnamedRowsOK
      <4> QED BY <4>2 DEF ClaimOf, UnresolvedExecutionStatuses
    <3>3. Contract!Open(i)
      BY <1>4, <1>5, <3>1, <3>2 DEF Contract!Open, claims
    <3> QED BY <2>1, <3>3 DEF Contract!ClaimNext
  <2>4. book[b].state # "ABSENT"
    BY <1>7 DEF OpenOrder, ClosedOrder
  <2> QED BY <1>a, <2>2, <2>3, <2>4
<1> QED BY <1>6, <1>7

\* LiveExecution refines OrderClaim: an order comes into being only under a
\* held claim, and a claim is settled only when the order is over.
THEOREM LiveExecutionKeepsContract ==
  ASSUME MaxSubmits = 1
  PROVE  Spec => KeepsContract
<1>1. ASSUME OrderInv, OrderInv', [Next]_vars
      PROVE  [Contract!ClaimNext]_<<claims, orders>>
  <2>1. CASE UNCHANGED rows /\ UNCHANGED book
    BY <2>1 DEF claims, orders, OrderOf, Own
  <2>2. CASE UNCHANGED book /\ \E i \in Intents : RowRewritten(i)
    BY <1>1, <2>2, RowStepMaps
  <2>3. CASE ~UNCHANGED book
    BY <1>1, <2>3, BookSteps, BookStepMaps
  <2> QED BY <1>1, <2>1, <2>2, <2>3, RowSteps
<1> QED BY <1>1, ContractInit, OrderInvariant, PTL DEF Spec, KeepsContract, Contract!ClaimSpec

\* What the contract promises is enough: no open order is without a claim, no
\* claim is settled early and nothing hides behind a refusal.
THEOREM ClaimsAlwaysMatch ==
  Contract!ClaimSpec => [](Contract!ClaimTypeOK /\ Contract!ClaimsMatchOrders)
<1> DEFINE Inv == Contract!ClaimTypeOK /\ Contract!ClaimsMatchOrders
<1> USE DEF Contract!ClaimTypeOK, Contract!ClaimsMatchOrders, Contract!ClaimState,
            Contract!OrderState
<1>1. Contract!ClaimInit => Inv
  BY DEF Contract!ClaimInit
<1>2. ASSUME Inv, Contract!ClaimNext PROVE Inv'
  <2>1. PICK i \in Intents :
          \/ Contract!Take(i) \/ Contract!Refuse(i) \/ Contract!Settle(i) \/ Contract!Abandon(i)
          \/ Contract!Reopen(i) \/ Contract!Open(i) \/ Contract!Finish(i)
    BY <1>2 DEF Contract!ClaimNext
  <2>2. CASE Contract!Open(i) \/ Contract!Finish(i)
    BY <1>2, <2>2 DEF Contract!Open, Contract!Finish
  <2>3. CASE Contract!Take(i) \/ Contract!Refuse(i) \/ Contract!Settle(i)
    BY <1>2, <2>3 DEF Contract!Take, Contract!Refuse, Contract!Settle, Contract!Move
  <2>4. CASE Contract!Abandon(i) \/ Contract!Reopen(i)
    BY <1>2, <2>4 DEF Contract!Abandon, Contract!Reopen, Contract!Move
  <2> QED BY <2>1, <2>2, <2>3, <2>4
<1>3. ASSUME Inv, UNCHANGED <<claims, orders>> PROVE Inv'
  BY <1>3
<1> QED BY <1>1, <1>2, <1>3, PTL DEF Contract!ClaimSpec

\* So the order path itself leaves no open order without a claim on its intent, and
\* settles or refuses none too early (submit, sync and cancel together).
THEOREM ClaimsMatchTheOrders ==
  ASSUME MaxSubmits = 1
  PROVE  Spec => []Contract!ClaimsMatchOrders
  BY LiveExecutionKeepsContract, ClaimsAlwaysMatch, PTL DEF KeepsContract

-----------------------------------------------------------------------------
(* The callers of the order path *)

\* A step of a caller is a step of the order path, or leaves it alone.
LEMMA PassStep == ASSUME ServiceNext PROVE [Next]_vars
<1> USE DEF Next, Sync, Submit
<1>1. ASSUME NEW w \in Workers, Iterate(w) \/ SmokeTest(w) \/ PassSummarized(w)
      PROVE  UNCHANGED vars
  BY <1>1 DEF Iterate, SmokeTest, PassSummarized
<1>2. ASSUME NEW w \in Workers, PassStarts(w) \/ PassSynced(w) PROVE Next
  BY <1>2 DEF PassStarts, PassSynced
<1>3. ASSUME NEW w \in Workers, NEW i \in Intents, PassChecksKey(w, i) PROVE Next
  BY <1>3 DEF PassChecksKey
<1>4. ASSUME NEW w \in Workers, NEW i \in Intents, FinalGuardBlocks(w, i)
      PROVE  UNCHANGED vars
  BY <1>4 DEF FinalGuardBlocks
<1>5. ASSUME NEW w \in Workers, PassClaims(w) \/ PassSends(w) \/ PassAcked(w) PROVE Next
  BY <1>5 DEF PassClaims, PassSends, PassAcked
<1>6. ASSUME NEW w \in Workers, PassContinues(w) PROVE Next
  BY <1>6 DEF PassContinues
<1>7. ASSUME NEW w \in Workers, PassEnds(w) \/ PassAborts(w) PROVE [Next]_vars
  BY <1>7 DEF PassEnds, PassAborts
<1> QED BY <1>1, <1>2, <1>3, <1>4, <1>5, <1>6, <1>7 DEF ServiceNext

\* The callers act on the ledger and the broker by steps of the order path only.
LEMMA ServiceOrders == ServiceSpec => Spec
<1>1. ServiceInit => Init
  BY DEF ServiceInit
<1>2. ASSUME UNCHANGED allVars PROVE UNCHANGED vars
  BY <1>2 DEF allVars
<1> QED BY <1>1, <1>2, PassStep, PTL DEF ServiceSpec, Spec

\* Hence, whatever the callers decide on their snapshots, one request of an intent
\* at most stands and no live order goes untracked.
THEOREM ServiceTracksOrders ==
  ASSUME MaxSubmits = 1
  PROVE  ServiceSpec => [](OneOrderPerKey /\ LiveOrderTracked)
BY ServiceOrders, AtMostOneOrder, LiveOrdersAreTracked, PTL

-----------------------------------------------------------------------------
(* The rows a sync looks at: none only if no row is unresolved *)

\* The order of the rows by updated_at is one: of the rows that were updated
\* before a row, each has itself been updated after fewer.
OlderOK ==
  \A i \in Intents :
    /\ older[i] \subseteq Recorded \ {i}
    /\ \A j \in older[i] : older[j] \subseteq older[i]

LEMMA OlderWritten ==
  ASSUME TypeOK, OlderOK, NEW i \in Intents, NEW s \in ExecutionStatus,
         NEW id \in Id \cup {NoId}, NEW p \in BOOLEAN, RecordExecutionOrder(i, s, id, p)
  PROVE  OlderOK'
<1>1. Recorded' = Recorded \cup {i}
  BY DEF RecordExecutionOrder, Recorded, TypeOK, ExecutionStatus
<1>2. /\ older'[i] = Recorded \ {i}
      /\ \A j \in Intents \ {i} : older'[j] = older[j] \ {i}
  BY DEF RecordExecutionOrder
<1>3. Recorded \subseteq Intents
  BY DEF Recorded
<1> HIDE DEF RecordExecutionOrder, TypeOK
<1>4. ASSUME NEW k \in Intents
      PROVE  older'[k] \subseteq Recorded' \ {k} /\ \A j \in older'[k] : older'[j] \subseteq older'[k]
  <2>1. CASE k = i
    BY <1>1, <1>2, <1>3, <2>1 DEF OlderOK
  <2>2. CASE k # i
    BY <1>1, <1>2, <1>3, <2>2 DEF OlderOK
  <2> QED BY <2>1, <2>2
<1> QED BY <1>4 DEF OlderOK

LEMMA OlderStep ==
  ASSUME OrderInv, OlderOK, [Next]_vars
  PROVE  OlderOK'
<1> USE DEF OrderInv
<1>1. CASE UNCHANGED ledger
  BY <1>1 DEF OlderOK, ledger, Recorded
<1>2. ASSUME NEW i \in Intents, NEW s \in ExecutionStatus,
             NEW id \in Id \cup {NoId}, NEW p \in BOOLEAN, RecordExecutionOrder(i, s, id, p)
      PROVE  OlderOK'
  BY <1>2, OlderWritten
<1>3. ASSUME NEW w \in Workers, Sync(w) PROVE OlderOK'
  <2>1. CASE RecordSync(w)
    <3>1. cur[w] \in Intents /\ answer[w] \in ExecutionStatus /\ wire[w] \in Id
      BY <2>1 DEF RecordSync, LocalsOK
    <3>2. PICK id \in {wire[w], [order |-> wire[w].order, cancel |-> FALSE]} :
            RecordExecutionOrder(cur[w], answer[w], id, FALSE)
      BY <2>1 DEF RecordSync
    <3>3. id \in Id
      BY <3>1, SyncedId
    <3> QED BY <1>2, <3>1, <3>2, <3>3
  <2> QED BY <1>1, <1>3, <2>1 DEF Sync, StartPass, QueryOrder, QueryFails, EndSync
<1>4. ASSUME NEW w \in Workers, Submit(w) PROVE OlderOK'
  <2>1. CASE \E i \in Intents : CheckKey(w, i)
    BY <1>1, <1>2, <2>1 DEF CheckKey, ExecutionStatus
  <2>2. pc[w] \in Submitting => cur[w] \in Intents
    BY DEF LocalsOK, Submitting
  <2>3. CASE Block(w) \/ Claim(w) \/ RecordUnsent(w) \/ RecordPlaceError(w)
    BY <1>2, <2>2, <2>3
       DEF Block, Claim, RecordUnsent, RecordPlaceError, ErrorStatus, ExecutionStatus,
           Submitting, Waiting, Placing, Sending
  <2>4. CASE RecordAck(w)
    BY <1>2, <2>2, <2>4 DEF RecordAck, LocalsOK, ExecutionStatus, Submitting, Waiting, Placing, Sending
  <2>5. CASE \/ Send(w) \/ Unauthorized(w) \/ Resend(w) \/ RenewFails(w)
             \/ PlaceOrderReturns(w)
    BY <1>1, <2>5 DEF Send, Resend, Post, Unauthorized, RenewFails, PlaceOrderReturns
  <2> QED BY <1>4, <2>1, <2>3, <2>4, <2>5 DEF Submit
<1>5. ASSUME NEW w \in Workers, Cancel(w) PROVE OlderOK'
  <2>1. CASE RecordCancel(w)
    BY <1>2, <2>1
       DEF RecordCancel, LocalsOK, CancelStatus, ErrorStatus, ExecutionStatus, Submitting, Waiting, Placing, Sending
  <2>2. CASE CancelOrder(w)
    BY <1>1, <2>2 DEF CancelOrder
  <2> QED BY <1>5, <2>1, <2>2 DEF Cancel
<1>6. CASE UNCHANGED vars \/ Broker \/ \E w \in Workers : EndPass(w) \/ Abort(w)
  BY <1>1, <1>6 DEF vars, ledger, Broker, Arrives, Progresses, CancelLoses, EndPass, Abort
<1> QED BY <1>3, <1>4, <1>5, <1>6 DEF Next

LEMMA LessThanWellFounded ==
  \E R : IsWellFoundedOn(R, Nat) /\ \A m, n \in Nat : m < n => <<m, n>> \in R
<1>1. \A m, n \in Nat : m < n => <<m, n>> \in OpToRel(<, Nat)
  BY DEF OpToRel
<1> QED BY <1>1, NatLessThanWellFounded, Zenon

\* The LIMIT hides the youngest rows, never the oldest one: an empty list
\* means that every order is settled.
LEMMA NothingListed ==
  ASSUME OlderOK, IsFiniteSet(Intents), SyncLimit \in Nat, SyncLimit > 0,
         Cardinality(ListUnresolvedExecutionOrders) = 0
  PROVE  Unresolved = {}
<1> DEFINE before(i) == older[i] \cap Unresolved
           S == {Cardinality(before(i)) : i \in Unresolved}
<1>1. Unresolved \subseteq Recorded /\ Recorded \subseteq Intents
  BY DEF Unresolved, Recorded, UnresolvedExecutionStatuses
<1>2. IsFiniteSet(Unresolved)
  BY <1>1, FS_Subset
<1>3. \A i \in Unresolved : IsFiniteSet(before(i)) /\ Cardinality(before(i)) \in Nat
  BY <1>2, FS_Subset, FS_CardinalityType
<1>4. ListUnresolvedExecutionOrders = {}
  <2>1. ListUnresolvedExecutionOrders \subseteq Unresolved
    BY DEF ListUnresolvedExecutionOrders
  <2> QED BY <1>2, <2>1, FS_Subset, FS_EmptySet
<1>5. SUFFICES ASSUME Unresolved # {} PROVE FALSE
  OBVIOUS
<1>6. S \subseteq Nat /\ S # {}
  BY <1>3, <1>5
<1> HIDE DEF S
<1>7. PICK R : IsWellFoundedOn(R, Nat) /\ \A m, n \in Nat : m < n => <<m, n>> \in R
  BY LessThanWellFounded
<1>8. \E n \in S : \A m \in S : ~(<<m, n>> \in R)
  <2>1. IsWellFoundedOn(R, Nat)
    BY <1>7
  <2> QED BY <1>6, <2>1, WFMin
<1>9. PICK n \in S : \A m \in S : ~(<<m, n>> \in R)
  BY <1>8, Zenon
<1>10. PICK i \in Unresolved : Cardinality(before(i)) = n
  BY DEF S
<1>11. before(i) = {}
  <2>1. SUFFICES ASSUME NEW j \in before(i) PROVE FALSE
    OBVIOUS
  <2>2. j \in Unresolved /\ before(j) \subseteq before(i) /\ j \notin before(j)
    BY <1>1, <1>10, <2>1 DEF OlderOK
  <2>3. Cardinality(before(j)) <= Cardinality(before(i)) /\ Cardinality(before(j)) # Cardinality(before(i))
    BY <1>3, <2>1, <2>2, FS_Subset
  <2>4. Cardinality(before(j)) \in S
    BY <2>2 DEF S
  <2>5. ~(<<Cardinality(before(j)), n>> \in R)
    BY <1>9, <2>4, Zenon
  <2>6. Cardinality(before(j)) \in Nat /\ Cardinality(before(i)) \in Nat
    BY <1>3, <2>2
  <2>7. Cardinality(before(j)) < n /\ n \in Nat
    <3> HIDE DEF before
    <3> QED BY <1>10, <2>3, <2>6
  <2> QED BY <1>7, <2>5, <2>6, <2>7, Zenon
<1>12. Cardinality(before(i)) = 0
  BY <1>11, FS_EmptySet
<1> QED BY <1>4, <1>12 DEF ListUnresolvedExecutionOrders

-----------------------------------------------------------------------------
(* A single worker sends nothing while an earlier order is in doubt *)

\* What a pass may rely on.  Before its sync is over: when the reconcile saw no
\* open order, whatever is live is still on the wire, behind a row without an
\* id, which no sync can settle.  After the sync: when it left no row
\* unresolved, nothing is live but what the pass has sent itself and orders whose
\* cancel failed, and not even those after a clean reconcile.
UnnamedLive == \A b \in BrokerIds : Live(b) => rows[book[b].intent].bid = NoId
OwnLive(w) == \A b \in BrokerIds : Live(b) => b \in mine[w]
OwnOrGivenUp(w) == \A b \in BrokerIds : Live(b) => b \in mine[w] \/ GivenUp(b)

Unsynced == {"idle", "syncing", "queried"}

DoubtInv(w) ==
  /\ w \in DOMAIN context /\ w \in DOMAIN mine
  /\ {"kind", "clean", "required", "remaining"} \subseteq DOMAIN context[w]
  /\ context[w].kind = "none" => pc[w] = "idle" /\ context[w].clean = FALSE
  /\ context[w].kind \in {"none", "iteration", "smoke_test"}
  /\ context[w].kind = "iteration" => context[w].required
  /\ context[w].clean /\ pc[w] \in Unsynced => UnnamedLive
  /\ context[w].clean /\ context[w].remaining = 0 /\ pc[w] \notin Unsynced => OwnLive(w)
  /\ context[w].remaining = 0 /\ pc[w] \notin Unsynced => OwnOrGivenUp(w)
  /\ pc[w] \in {"claimed"} \cup Placing =>
       (context[w].required => context[w].clean) /\ context[w].remaining = 0
  /\ pc[w] \in Waiting => wire[w].order \in mine[w]

\* A request on the wire is behind a row that names no order.
LEMMA WireUnnamed ==
  ASSUME OrderInv, NEW b \in BrokerIds, book[b].state = "WIRE"
  PROVE  rows[book[b].intent].bid = NoId
<1> USE DEF OrderInv
<1>1. book[b].intent \in Intents /\ book[b].intent # NoIntent
  BY ConstantsOK DEF TypeOK, Book, BookOK
<1> SUFFICES ASSUME rows[book[b].intent].bid # NoId PROVE FALSE
  OBVIOUS
<1>2. rows[book[b].intent].bid.order \in BrokerIds
  BY <1>1 DEF TypeOK, Row, Id
<1>3. rows[book[b].intent].bid.order = b
  <2> DEFINE c == rows[book[b].intent].bid.order
  <2>1. book[c].intent = book[b].intent /\ Stands(c) /\ Stands(b)
    BY <1>1, <1>2 DEF NamedRowsOK, Stands, Accepted, OpenOrder, ClosedOrder
  <2> QED BY <1>2, <2>1 DEF BookOK
<1> QED BY <1>1, <1>3 DEF NamedRowsOK, Accepted, OpenOrder, ClosedOrder

\* No order comes to life but by a request that is sent.
LEMMA LiveLasts ==
  ASSUME TypeOK, Broker \/ (\E w \in Workers : CancelOrder(w) /\ wire[w] \in Id),
         NEW b \in BrokerIds, Live(b)'
  PROVE  Live(b) /\ book'[b].intent = book[b].intent
<1> USE DEF TypeOK, Live, OpenOrder
<1>1. CASE Broker
  <2>1. PICK c \in BrokerIds : Arrives(c) \/ Progresses(c) \/ CancelLoses(c)
    BY <1>1 DEF Broker
  <2>2. CASE Arrives(c)
    BY <2>2 DEF Arrives, Book
  <2>3. CASE Progresses(c)
    <3>1. PICK s \in Later(book[c].state) : book' = [book EXCEPT ![c].state = s]
      BY <2>3 DEF Progresses
    <3>2. book[c].state \in OpenOrder
      BY <3>1 DEF Later
    <3> QED BY <3>1, <3>2 DEF Book
  <2>4. CASE CancelLoses(c)
    BY <2>4 DEF CancelLoses, Book
  <2> QED BY <2>1, <2>2, <2>3, <2>4
<1>2. ASSUME NEW w \in Workers, CancelOrder(w), wire[w] \in Id
      PROVE  Live(b) /\ book'[b].intent = book[b].intent
  BY <1>2 DEF CancelOrder, Book, Id
<1> QED BY <1>1, <1>2

\* The sync renames only rows that have a name.
LEMMA SyncKeepsDoubt ==
  ASSUME OrderInv, NEW w \in Workers, RecordSync(w), UnnamedLive
  PROVE  UnnamedLive'
<1> USE DEF OrderInv, TypeOK
<1>1. cur[w] \in Intents /\ rows[cur[w]].bid # NoId
  BY DEF RecordSync, LocalsOK, SyncOK, Names
<1>2. \A i \in Intents : i # cur[w] => rows'[i] = rows[i]
  BY <1>1 DEF RecordSync, RecordExecutionOrder
<1>3. ASSUME NEW b \in BrokerIds, Live(b)' PROVE rows'[book'[b].intent].bid = NoId
  <2>1. book' = book
    BY DEF RecordSync
  <2>2. Live(b) /\ rows[book[b].intent].bid = NoId
    BY <1>3, <2>1 DEF Live, UnnamedLive
  <2>3. book[b].intent \in Intents
    BY <2>2, ConstantsOK DEF Live, OpenOrder, BookOK, Book
  <2> QED BY <1>1, <1>2, <2>1, <2>2, <2>3
<1> QED BY <1>3 DEF UnnamedLive

\* A sync that ends with no row unresolved has settled every earlier order.
LEMMA SyncSettles ==
  ASSUME OrderInv, OlderOK, UnnamedLive,
         IsFiniteSet(Intents), SyncLimit \in Nat, SyncLimit > 0,
         Cardinality(ListUnresolvedExecutionOrders) = 0
  PROVE  \A b \in BrokerIds : ~Live(b)
<1>1. Unresolved = {}
  BY NothingListed
<1> QED BY <1>1, LiveTracked DEF LiveOrderTracked, UnnamedLive, GivenUp

\* And after any reconcile, nothing is left but orders whose cancel failed.
LEMMA SyncLeavesGivenUp ==
  ASSUME OrderInv, OlderOK, IsFiniteSet(Intents), SyncLimit \in Nat, SyncLimit > 0,
         Cardinality(ListUnresolvedExecutionOrders) = 0
  PROVE  \A b \in BrokerIds : Live(b) => GivenUp(b)
<1>1. Unresolved = {}
  BY NothingListed
<1> QED BY <1>1, LiveTracked DEF LiveOrderTracked

\* A worker that writes the row of an intent which names no order, or one of its
\* own, hides no order whose cancel failed.
LEMMA GivenUpKept ==
  ASSUME TypeOK, NEW w \in Workers, OwnOrGivenUp(w), UNCHANGED <<book, mine>>,
         NEW i \in Intents, \A j \in Intents : j # i => rows'[j] = rows[j],
         rows[i].bid = NoId \/ rows[i].bid.order \in mine[w],
         \A b \in BrokerIds : Live(b) => book[b].intent \in Intents
  PROVE  OwnOrGivenUp(w)'
<1> SUFFICES ASSUME NEW b \in BrokerIds, Live(b)', b \notin mine[w] PROVE GivenUp(b)'
  BY DEF OwnOrGivenUp
<1>1. Live(b) /\ GivenUp(b) /\ book[b].intent \in Intents
  BY DEF OwnOrGivenUp, Live
<1>2. rows[book[b].intent].bid # NoId /\ rows[book[b].intent].bid.order = b
  BY <1>1 DEF GivenUp
<1>3. book[b].intent # i
  BY <1>2
<1> QED BY <1>1, <1>3 DEF GivenUp

LEMMA DoubtStep ==
  ASSUME NEW w \in Workers, Workers = {w}, BlockUnresolved,
         IsFiniteSet(Intents), SyncLimit \in Nat, SyncLimit > 0, MaxSubmits = 1,
         OrderInv, OlderOK, DoubtInv(w), ServiceNext
  PROVE  DoubtInv(w)'
<1> USE DEF DoubtInv, Unsynced, Waiting, Placing, Sending
<1>t. TypeOK
  BY DEF OrderInv
<1>k. ASSUME UNCHANGED <<rows, book>> PROVE UnnamedLive => UnnamedLive'
  BY <1>k DEF UnnamedLive, Live
<1>o. ASSUME UNCHANGED <<book, mine>> PROVE OwnLive(w) => OwnLive(w)'
  BY <1>o DEF OwnLive, Live
<1>g. ASSUME UNCHANGED <<rows, book, mine>> PROVE OwnOrGivenUp(w) => OwnOrGivenUp(w)'
  BY <1>g DEF OwnOrGivenUp, Live, GivenUp
<1>b. \A b \in BrokerIds : Live(b) => book[b].intent \in Intents
  BY <1>t, ConstantsOK DEF OrderInv, Live, OpenOrder, BookOK, TypeOK, Book
<1>h. pc[w] \in {"checked", "claimed"} \cup Placing =>
        cur[w] \in Intents /\ rows[cur[w]].bid = NoId
  BY DEF OrderInv, LocalsOK, Submitting, SubmitOK, HandOK, NamedRowsOK
\* The steps that write the row of an intent in hand.
<1>r. ASSUME UNCHANGED <<book, mine>>, pc[w] \in {"checked", "claimed"} \cup Placing,
             NEW s \in ExecutionStatus, NEW id \in Id \cup {NoId}, NEW p \in BOOLEAN,
             RecordExecutionOrder(cur[w], s, id, p)
      PROVE  OwnOrGivenUp(w) => OwnOrGivenUp(w)'
  <2>1. \A j \in Intents : j # cur[w] => rows'[j] = rows[j]
    BY <1>r, <1>t DEF RecordExecutionOrder, TypeOK
  <2> QED BY <1>r, <1>t, <1>b, <1>h, <2>1, GivenUpKept
<1> USE DEF TypeOK
<1>1. CASE Iterate(w) \/ SmokeTest(w)
  <2>1. ReconcileClean => UnnamedLive
    BY WireUnnamed DEF ReconcileClean, UnnamedLive, Live
  <2>2. pc[w] = "idle" /\ UNCHANGED <<vars, mine>>
    BY <1>1 DEF Iterate, SmokeTest
  <2>3. \E k \in {"iteration", "smoke_test"} :
          \E c, r \in BOOLEAN :
            /\ Begin(w, k, c, r) /\ (c => ReconcileClean)
            /\ k = "iteration" => r
    BY <1>1, ServiceConstantsOK DEF Iterate, SmokeTest, ReconcileClean
  <2>4. PICK k \in {"iteration", "smoke_test"}, c, r \in BOOLEAN :
          /\ Begin(w, k, c, r) /\ (c => ReconcileClean)
          /\ k = "iteration" => r
    BY <2>3
  <2>5. /\ DOMAIN context' = DOMAIN context
        /\ context'[w] = [NoContext EXCEPT !.kind = k, !.clean = c, !.required = r]
    BY <2>4 DEF Begin
  <2>6. /\ {"kind", "clean", "required", "remaining"} \subseteq DOMAIN context'[w]
        /\ context'[w].kind = k /\ context'[w].clean = c /\ context'[w].required = r
    BY <2>5 DEF NoContext
  <2> QED BY <1>k, <2>1, <2>2, <2>4, <2>5, <2>6 DEF vars, locals
<1>2. CASE PassSummarized(w)
  <2>1. /\ UNCHANGED <<rows, book, mine, pc, wire>>
        /\ context'[w].kind = context[w].kind /\ context'[w].clean = context[w].clean
        /\ context'[w].required = context[w].required
        /\ context'[w].remaining = context[w].remaining
        /\ w \in DOMAIN context' /\ DOMAIN context'[w] = DOMAIN context[w]
    BY <1>2 DEF PassSummarized, vars
  <2> QED BY <1>k, <1>o, <1>g, <2>1
<1>3. CASE PassStarts(w)
  BY <1>3, <1>t, <1>k DEF PassStarts, StartPass, serviceVars, ledger
<1>4. CASE PassSynced(w)
  <2>1. /\ pc[w] = "syncing" /\ pc'[w] = "ready" /\ UNCHANGED <<rows, book, mine>>
        /\ context'[w].kind = context[w].kind /\ context'[w].clean = context[w].clean
        /\ context'[w].required = context[w].required
        /\ context'[w].remaining = Cardinality(ListUnresolvedExecutionOrders)
        /\ DOMAIN context' = DOMAIN context /\ DOMAIN context'[w] = DOMAIN context[w]
    BY <1>4, <1>t DEF PassSynced, EndSync, ledger
  <2>2. ASSUME context'[w].clean, context'[w].remaining = 0 PROVE OwnLive(w)'
    <3>1. \A b \in BrokerIds : ~Live(b)
      BY <2>1, <2>2, SyncSettles
    <3> QED BY <2>1, <3>1 DEF OwnLive, Live
  <2>3. ASSUME context'[w].remaining = 0 PROVE OwnOrGivenUp(w)'
    <3>1. \A b \in BrokerIds : Live(b) => GivenUp(b)
      BY <2>1, <2>3, SyncLeavesGivenUp
    <3> QED BY <2>1, <3>1 DEF OwnOrGivenUp, Live, GivenUp
  <2> QED BY <2>1, <2>2, <2>3
<1>5. ASSUME NEW i \in Intents, PassChecksKey(w, i) \/ FinalGuardBlocks(w, i) PROVE DoubtInv(w)'
  <2>1. pc[w] = "ready" /\ pc'[w] \in {"ready", "checked"} /\ UNCHANGED <<book, context, mine>>
    <3>1. CASE PassChecksKey(w, i)
      BY <3>1, <1>t DEF PassChecksKey, CheckKey
    <3>2. CASE FinalGuardBlocks(w, i)
      BY <3>2 DEF FinalGuardBlocks, vars
    <3> QED BY <1>5, <3>1, <3>2
  <2>2. OwnOrGivenUp(w) => OwnOrGivenUp(w)'
    <3>1. CASE UNCHANGED rows
      BY <1>g, <2>1, <3>1
    <3>2. CASE PassChecksKey(w, i) /\ HasUnresolvedExecutionKey(i)
                 /\ RecordExecutionOrder(i, "REJECTED", NoId, FALSE)
      <4>1. submits[i] \in 0..1 /\ submits[i] < 1
        BY <3>2, <1>t DEF PassChecksKey, CheckKey
      <4>2. rows[i].status = "NONE"
        BY <4>1 DEF OrderInv, SubmittedOnce
      <4> QED BY <3>2, <4>2 DEF HasUnresolvedExecutionKey, Unresolved, UnresolvedExecutionStatuses
    <3> QED BY <1>5, <3>1, <3>2 DEF PassChecksKey, CheckKey, FinalGuardBlocks, vars, ledger
  <2> QED BY <1>o, <2>1, <2>2
<1>6. CASE PassClaims(w)
  <2>1. /\ pc[w] = "checked" /\ pc'[w] = "claimed" /\ UNCHANGED <<book, context, mine, wire>>
        /\ RecordExecutionOrder(cur[w], "PENDING", NoId, FALSE)
        /\ context[w].required => context[w].clean
        /\ context[w].remaining = 0
    BY <1>6, <1>t DEF PassClaims, Claim, Passes, serviceVars
  <2>2. OwnOrGivenUp(w) => OwnOrGivenUp(w)'
    BY <1>r, <2>1 DEF ExecutionStatus
  <2> QED BY <1>o, <2>1, <2>2
<1>7. CASE PassSends(w)
  <2>1. PICK b \in BrokerIds :
          /\ book' = [book EXCEPT ![b] = [intent |-> cur[w], state |-> "WIRE", cancel |-> "none"]]
          /\ wire' = [wire EXCEPT ![w] = [order |-> b, cancel |-> FALSE]]
    BY <1>7 DEF PassSends, Send, Resend, Post
  <2>2. /\ mine'[w] = mine[w] \cup {b} /\ DOMAIN mine' = DOMAIN mine
        /\ wire'[w].order = b
    BY <1>7, <2>1, <1>t DEF PassSends
  <2>3. /\ pc[w] \in {"claimed", "renewing"} /\ pc'[w] \in Sending
        /\ UNCHANGED <<context, rows>>
    BY <1>7, <1>t DEF PassSends, Send, Resend, Post, ledger
  <2>4. ASSUME OwnLive(w) PROVE OwnLive(w)'
    BY <2>1, <2>2, <2>4, <1>t DEF OwnLive, Live
  <2>5. ASSUME OwnOrGivenUp(w) PROVE OwnOrGivenUp(w)'
    BY <2>1, <2>2, <2>3, <2>5, <1>t DEF OwnOrGivenUp, Live, GivenUp
  <2> QED BY <2>2, <2>3, <2>4, <2>5
<1>8. CASE PassAcked(w)
  <2>1. /\ pc[w] = "answered" /\ pc'[w] \in {"acked", "ready"} /\ UNCHANGED <<book, mine>>
        /\ RecordExecutionOrder(cur[w], "ACKNOWLEDGED", wire[w], TRUE)
        /\ pc'[w] = "acked" => wire' = wire
    BY <1>8, <1>t DEF PassAcked, RecordAck
  <2>2. /\ context'[w].kind = context[w].kind /\ context'[w].clean = context[w].clean
        /\ context'[w].required = context[w].required
        /\ context'[w].remaining = context[w].remaining
        /\ w \in DOMAIN context' /\ DOMAIN context'[w] = DOMAIN context[w]
    BY <1>8 DEF PassAcked
  <2>3. wire[w] \in Id \cup {NoId}
    BY <1>t
  <2>4. OwnOrGivenUp(w) => OwnOrGivenUp(w)'
    BY <1>r, <2>1, <2>3 DEF ExecutionStatus
  <2> QED BY <1>o, <2>1, <2>2, <2>4
<1>9. CASE PassContinues(w)
  <2>1. CASE \E i \in Intents : QueryOrder(w, i) \/ QueryFails(w, i)
    BY <1>9, <2>1, <1>t, <1>k DEF PassContinues, QueryOrder, QueryFails, serviceVars, ledger
  <2>2. CASE RecordSync(w)
    BY <1>9, <2>2, <1>t, SyncKeepsDoubt DEF PassContinues, RecordSync, Finished, serviceVars
  <2>3. CASE Block(w) \/ RecordUnsent(w) \/ RecordPlaceError(w)
    <3>1. /\ UNCHANGED <<book, mine, context>> /\ pc'[w] = "ready"
          /\ pc[w] \in {"checked", "claimed"} \cup Placing
          /\ \E s \in ExecutionStatus : RecordExecutionOrder(cur[w], s, NoId, FALSE)
      BY <1>9, <2>3, <1>t
         DEF PassContinues, Block, RecordUnsent, RecordPlaceError, Finished, serviceVars,
             ErrorStatus, ExecutionStatus
    <3>2. OwnOrGivenUp(w) => OwnOrGivenUp(w)'
      BY <1>r, <3>1
    <3> QED BY <1>o, <3>1, <3>2
  <2>4. CASE PlaceOrderReturns(w) \/ Unauthorized(w) \/ RenewFails(w)
    <3>1. /\ UNCHANGED <<rows, book, mine, context, wire>>
          /\ pc[w] \in Placing /\ pc'[w] \in Placing
      BY <1>9, <2>4, <1>t
         DEF PassContinues, PlaceOrderReturns, Unauthorized, RenewFails, serviceVars, ledger
    <3> QED BY <1>o, <1>g, <3>1
  <2>5. CASE RecordCancel(w)
    <3>1. /\ UNCHANGED <<book, mine, context>> /\ pc'[w] = "ready" /\ pc[w] = "cancel_answered"
          /\ RecordExecutionOrder(cur[w], CancelStatus(answer[w]), wire[w], FALSE)
      BY <1>9, <2>5, <1>t DEF PassContinues, RecordCancel, Finished, serviceVars
    <3>2. cur[w] \in Intents /\ rows[cur[w]].bid.order = wire[w].order
      BY <3>1 DEF OrderInv, LocalsOK, Submitting, SubmitOK, HandOK, Names
    <3>3. \A j \in Intents : j # cur[w] => rows'[j] = rows[j]
      BY <3>1, <3>2, <1>t DEF RecordExecutionOrder
    <3>4. OwnOrGivenUp(w) => OwnOrGivenUp(w)'
      BY <1>t, <1>b, <3>1, <3>2, <3>3, GivenUpKept
    <3> QED BY <1>o, <3>1, <3>4
  <2>6. CASE CancelOrder(w)
    <3>1. wire[w] \in Id
      BY <2>6 DEF CancelOrder, OrderInv, LocalsOK
    <3>2. /\ UNCHANGED <<context, mine, rows>> /\ pc[w] = "acked" /\ pc'[w] = "cancel_answered"
          /\ wire'[w].order = wire[w].order
      BY <1>9, <2>6, <3>1, <1>t DEF PassContinues, CancelOrder, serviceVars, ledger, Id
    <3>3. OwnLive(w) => OwnLive(w)'
      BY <2>6, <3>1, <3>2, <1>t, LiveLasts DEF OwnLive
    <3>4. OwnOrGivenUp(w) => OwnOrGivenUp(w)'
      <4>1. ASSUME NEW b \in BrokerIds, Live(b)'
            PROVE  Live(b) /\ book'[b].intent = book[b].intent
        BY <2>6, <3>1, <1>t, <4>1, LiveLasts
      <4> QED BY <3>2, <4>1 DEF OwnOrGivenUp, GivenUp
    <3> QED BY <3>2, <3>3, <3>4
  <2> QED BY <1>9, <2>1, <2>2, <2>3, <2>4, <2>5, <2>6 DEF PassContinues, Cancel
<1>10. CASE PassEnds(w) \/ PassAborts(w)
  <2>1. pc'[w] = "idle"
    BY <1>10, <1>t DEF PassEnds, PassAborts, EndPass, Abort, Finished, vars
  <2>2. PassOver(w)
    BY <1>10 DEF PassEnds, PassAborts
  <2> QED BY <2>1, <2>2 DEF PassOver, NoContext
<1>11. CASE Broker /\ UNCHANGED serviceVars
  <2>1. UNCHANGED <<rows, pc, context, mine, wire>>
    BY <1>11 DEF Broker, Arrives, Progresses, CancelLoses, serviceVars, ledger, locals
  <2>2. OwnLive(w) => OwnLive(w)'
    BY <1>11, <2>1, <1>t, LiveLasts DEF OwnLive
  <2>3. UnnamedLive => UnnamedLive'
    BY <1>11, <2>1, <1>t, LiveLasts DEF UnnamedLive
  <2>4. OwnOrGivenUp(w) => OwnOrGivenUp(w)'
    BY <1>11, <2>1, <1>t, LiveLasts DEF OwnOrGivenUp, GivenUp
  <2> QED BY <2>1, <2>2, <2>3, <2>4
<1> QED BY <1>1, <1>2, <1>3, <1>4, <1>5, <1>6, <1>7, <1>8, <1>9, <1>10, <1>11 DEF ServiceNext

\* One worker, unresolved orders block, and a sync that looks at one row at
\* least: then a pass sends an order, or sends it again, only when every order of
\* an earlier pass is over; a smoke test whose config does not require a clean
\* reconcile may meet an order whose cancel failed.  What the reconcile, the sync
\* and the ledger each miss, another sees.
THEOREM NoOrderInDoubt ==
  ASSUME MaxSubmits = 1, BlockUnresolved, SyncLimit > 0,
         IsFiniteSet(Intents), IsFiniteSet(Workers)
  PROVE  ServiceSpec => []NoOrderWhileInDoubt
<1>1. CASE Cardinality(Workers) # 1
  <2>1. NoOrderWhileInDoubt
    BY <1>1 DEF NoOrderWhileInDoubt
  <2> QED BY <2>1, PTL
<1>2. CASE Cardinality(Workers) = 1
  <2>1. PICK w : Workers = {w}
    BY <1>2, FS_Singleton
  <2> DEFINE Inv == OrderInv /\ OlderOK /\ DoubtInv(w)
  <2>2. ServiceInit => Inv
    <3>1. ServiceInit => OrderInv
      BY OrderInit DEF ServiceInit
    <3>2. ServiceInit => OlderOK
      BY DEF ServiceInit, Init, OlderOK
    <3>3. ServiceInit => DoubtInv(w)
      BY <2>1 DEF ServiceInit, Init, DoubtInv, NoContext, Unsynced, Waiting, Placing, Sending
    <3> QED BY <3>1, <3>2, <3>3
  <2>3. Inv /\ [ServiceNext]_allVars => Inv'
    <3> SUFFICES ASSUME Inv, [ServiceNext]_allVars PROVE Inv'
      OBVIOUS
    <3>1. [Next]_vars
      BY PassStep DEF allVars
    <3>2. OrderInv' /\ OlderOK'
      BY <3>1, OrderStep, OlderStep
    <3>3. CASE ServiceNext
      <4>1. SyncLimit \in Nat /\ w \in Workers
        BY <2>1, ConstantsOK
      <4> QED BY <2>1, <3>2, <3>3, <4>1, DoubtStep, Zenon
    <3>4. CASE UNCHANGED allVars
      <4>1. UNCHANGED <<rows, book, mine, context, pc, wire>>
        BY <3>4 DEF allVars, vars, serviceVars, ledger, locals
      <4>2. UnnamedLive' = UnnamedLive /\ OwnLive(w)' = OwnLive(w)
        BY <4>1 DEF UnnamedLive, OwnLive, Live
      <4>4. OwnOrGivenUp(w)' = OwnOrGivenUp(w)
        BY <4>1 DEF OwnOrGivenUp, Live, GivenUp
      <4>3. DoubtInv(w)'
        BY <4>1, <4>2, <4>4 DEF DoubtInv, Unsynced, Waiting, Placing, Sending
      <4> QED BY <3>2, <4>3
    <3> QED BY <3>2, <3>3, <3>4
  <2>4. Inv => NoOrderWhileInDoubt
    BY <2>1 DEF DoubtInv, OwnLive, OwnOrGivenUp, Unsynced, NoOrderWhileInDoubt, Placing, Sending
  <2> QED BY <2>2, <2>3, <2>4, PTL DEF ServiceSpec
<1> QED BY <1>1, <1>2

-----------------------------------------------------------------------------
(* The daily count of a single worker *)

\* The rows that count and name an order.
Named == {i \in Counted : rows[i].bid # NoId}

Syncing == {"syncing", "queried"}
Summing == {"checked", "claimed"} \cup Waiting

\* A single worker adds a named row only while its pass's count is below the
\* limit, and the count is never behind the named rows: between the summary and
\* the next acknowledgement nobody else adds one, and the sync, which looks at
\* unresolved rows only, brings none back.
CountInv(w) ==
  /\ w \in DOMAIN context /\ {"kind", "summarized", "count"} \subseteq DOMAIN context[w]
  /\ context[w].count \in Nat
  /\ context[w].kind = "none" => pc[w] = "idle"
  /\ context[w].summarized => Cardinality(Named) <= context[w].count
  /\ Cardinality(Named) <= DailyCountLimit
  /\ pc[w] \in Summing => context[w].summarized
  /\ pc[w] \in {"claimed"} \cup Placing => context[w].count < DailyCountLimit
  /\ pc[w] \in {"acked", "cancel_answered"} => cur[w] \in Named
  /\ \A i \in Intents : listed[w][i] # NoId => pc[w] \in Syncing /\ i \in Unresolved
  /\ pc[w] = "queried" => cur[w] \in Unresolved

LEMMA NamedFinite ==
  ASSUME IsFiniteSet(Intents), TypeOK
  PROVE  /\ IsFiniteSet(Counted) /\ Cardinality(Counted) \in Nat
         /\ Cardinality(Named) \in Nat /\ Cardinality(Named) <= Cardinality(Counted)
<1>1. Counted \in SUBSET Intents /\ Named \in SUBSET Counted
  BY DEF Counted, Recorded, Named
<1> QED BY <1>1, FS_Subset, FS_CardinalityType

\* A write adds no named row unless it names one that did not count.
LEMMA NamedKept ==
  ASSUME TypeOK, NEW i \in Intents, NEW s \in ExecutionStatus,
         NEW id \in Id \cup {NoId}, NEW p \in BOOLEAN, RecordExecutionOrder(i, s, id, p)
  PROVE  /\ Named' \subseteq Named \cup {i}
         /\ id = NoId \/ i \in Named => Named' \subseteq Named
BY DEF RecordExecutionOrder, TypeOK, Row, Named, Counted, Recorded

LEMMA FewerNamed ==
  ASSUME IsFiniteSet(Intents), TypeOK, Named' \subseteq Named
  PROVE  Cardinality(Named)' \in Nat /\ Cardinality(Named)' <= Cardinality(Named)
<1>1. IsFiniteSet(Named)
  BY FS_Subset DEF Named, Counted, Recorded
<1> QED BY <1>1, FS_Subset, FS_CardinalityType

\* Steps that write no row, and neither enter nor leave a pass.
LEMMA CountKept ==
  ASSUME NEW w \in Workers, CountInv(w), UNCHANGED rows, UNCHANGED context,
         UNCHANGED listed, UNCHANGED pc, UNCHANGED cur
  PROVE  CountInv(w)'
<1>1. Named' = Named /\ Unresolved' = Unresolved
  BY DEF Named, Counted, Recorded, Unresolved
<1>2. Cardinality(Named)' = Cardinality(Named)
  BY <1>1
<1> HIDE DEF Named, Unresolved
<1> QED BY <1>1, <1>2 DEF CountInv, Summing, Syncing, Waiting, Placing, Sending

LEMMA CountStep ==
  ASSUME NEW w \in Workers, Workers = {w}, IsFiniteSet(Intents), DailyCountLimit \in Nat,
         OrderInv, TypeOK', CountInv(w), ServiceNext
  PROVE  CountInv(w)'
<1> USE DEF CountInv, Syncing, Summing, Waiting, Placing, Sending
<1>t. TypeOK
  BY DEF OrderInv
<1>n. Cardinality(Named) \in Nat
  BY <1>t, NamedFinite
<1>k. ASSUME UNCHANGED rows
      PROVE  /\ Named' = Named /\ Unresolved' = Unresolved
             /\ Cardinality(Named)' = Cardinality(Named)
  BY <1>k DEF Named, Counted, Recorded, Unresolved
<1>f. ASSUME Named' \subseteq Named
      PROVE  Cardinality(Named)' \in Nat /\ Cardinality(Named)' <= Cardinality(Named)
  BY <1>f, <1>t, FewerNamed
<1>i. TypeOK => w \in DOMAIN pc /\ w \in DOMAIN cur /\ w \in DOMAIN listed
  BY DEF TypeOK
<1>1. CASE Iterate(w) \/ SmokeTest(w)
  <2>1. UNCHANGED <<rows, pc, cur, listed>> /\ context[w].kind = "none"
    BY <1>1 DEF Iterate, SmokeTest, vars, ledger, locals
  <2>2. \E k \in {"iteration", "smoke_test"}, c, r \in BOOLEAN : Begin(w, k, c, r)
    BY <1>1, ServiceConstantsOK DEF Iterate, SmokeTest, ReconcileClean
  <2>3. /\ w \in DOMAIN context' /\ {"kind", "summarized", "count"} \subseteq DOMAIN context'[w]
        /\ context'[w].count = 0 /\ context'[w].summarized = FALSE
        /\ context'[w].kind # "none"
    <3>1. PICK k \in {"iteration", "smoke_test"}, c, r \in BOOLEAN : Begin(w, k, c, r)
      BY <2>2
    <3>2. /\ w \in DOMAIN context'
          /\ context'[w] = [NoContext EXCEPT !.kind = k, !.clean = c, !.required = r]
      BY <3>1 DEF Begin
    <3> QED BY <3>2 DEF NoContext
  <2> QED BY <1>k, <1>n, <2>1, <2>3
<1>2. CASE PassSummarized(w)
  <2>1. /\ UNCHANGED <<rows, pc, cur, listed>>
        /\ context'[w].count = Cardinality(Counted) /\ context'[w].summarized = TRUE
        /\ context'[w].kind = context[w].kind
        /\ w \in DOMAIN context' /\ DOMAIN context'[w] = DOMAIN context[w]
        /\ pc[w] \in {"idle", "ready"}
    BY <1>2 DEF PassSummarized, vars, ledger, locals, SummaryCount
  <2> QED BY <1>k, <1>n, <1>t, <2>1, NamedFinite
<1>3. CASE PassStarts(w)
  <2>1. /\ UNCHANGED <<rows, cur, context>> /\ pc'[w] = "syncing" /\ context[w].kind # "none"
        /\ \A i \in Intents : listed'[w][i] # NoId => i \in ListUnresolvedExecutionOrders
    BY <1>3, <1>t, <1>i DEF PassStarts, StartPass, serviceVars, ledger
  <2>2. ListUnresolvedExecutionOrders \subseteq Unresolved
    BY DEF ListUnresolvedExecutionOrders
  <2> QED BY <1>k, <1>n, <2>1, <2>2
<1>4. CASE PassSynced(w)
  <2>1. /\ UNCHANGED <<rows, cur, listed>> /\ pc[w] = "syncing" /\ pc'[w] = "ready"
        /\ \A i \in Intents : listed[w][i] = NoId
        /\ context'[w].count = context[w].count
        /\ context'[w].summarized = context[w].summarized
        /\ context'[w].kind = context[w].kind
        /\ w \in DOMAIN context' /\ DOMAIN context'[w] = DOMAIN context[w]
    BY <1>4, <1>t, <1>i DEF PassSynced, EndSync, ledger
  <2> QED BY <1>k, <1>n, <2>1
<1>5. ASSUME NEW i \in Intents, PassChecksKey(w, i) PROVE CountInv(w)'
  <2>1. UNCHANGED <<context, listed>> /\ pc[w] = "ready" /\ context[w].summarized
    BY <1>5 DEF PassChecksKey, CheckKey
  <2>2. Named' \subseteq Named
    <3>1. CASE UNCHANGED ledger
      BY <1>k, <3>1 DEF ledger
    <3>2. CASE RecordExecutionOrder(i, "REJECTED", NoId, FALSE)
      <4>1. "REJECTED" \in ExecutionStatus /\ NoId \in Id \cup {NoId}
        BY DEF ExecutionStatus
      <4> QED BY <1>t, <3>2, <4>1, NamedKept
    <3> QED BY <1>5, <3>1, <3>2 DEF PassChecksKey, CheckKey
  <2>3. pc'[w] \in {"ready", "checked"}
    BY <1>5, <1>t, <1>i DEF PassChecksKey, CheckKey
  <2> QED BY <1>f, <1>n, <2>1, <2>2, <2>3
<1>6. ASSUME NEW i \in Intents, FinalGuardBlocks(w, i) PROVE CountInv(w)'
  BY <1>6, CountKept DEF FinalGuardBlocks, vars, ledger, locals
<1>7. CASE PassClaims(w)
  <2>1. /\ UNCHANGED <<cur, context, listed>> /\ pc[w] = "checked" /\ pc'[w] = "claimed"
        /\ context[w].count < DailyCountLimit
        /\ RecordExecutionOrder(cur[w], "PENDING", NoId, FALSE)
    BY <1>7, <1>t, <1>i DEF PassClaims, Claim, Passes, serviceVars
  <2>2. Named' \subseteq Named
    <3>1. cur[w] \in Intents /\ "PENDING" \in ExecutionStatus
      BY <2>1 DEF OrderInv, LocalsOK, Submitting, ExecutionStatus
    <3> QED BY <1>t, <2>1, <3>1, NamedKept
  <2> QED BY <1>f, <1>n, <2>1, <2>2
<1>8. CASE PassSends(w)
  <2>1. /\ UNCHANGED <<rows, cur, context, listed>>
        /\ pc[w] \in {"claimed", "renewing"} /\ pc'[w] \in Sending
    BY <1>8, <1>t, <1>i DEF PassSends, Send, Resend, Post, ledger
  <2> QED BY <1>k, <1>n, <2>1
<1>9. CASE PassAcked(w)
  <2>1. /\ UNCHANGED listed /\ pc[w] = "answered" /\ pc'[w] \in {"acked", "ready"}
        /\ pc'[w] = "acked" => cur'[w] = cur[w]
        /\ RecordExecutionOrder(cur[w], "ACKNOWLEDGED", wire[w], TRUE)
    BY <1>9, <1>t, <1>i DEF PassAcked, RecordAck
  <2>2. cur[w] \in Intents /\ wire[w] \in Id /\ "ACKNOWLEDGED" \in ExecutionStatus
    BY <2>1 DEF OrderInv, LocalsOK, Submitting, ExecutionStatus
  <2>3. Named' \subseteq Named \cup {cur[w]}
    BY <1>t, <2>1, <2>2, NamedKept
  <2>4. cur[w] \in Named'
    <3>1. rows'[cur[w]] = [status |-> "ACKNOWLEDGED", bid |-> wire[w], priced |-> TRUE]
      BY <1>t, <2>1, <2>2 DEF TypeOK, RecordExecutionOrder
    <3>2. wire[w] # NoId
      BY <2>2, ConstantsOK DEF Id
    <3> QED BY <2>2, <3>1, <3>2 DEF Named, Counted, Recorded
  <2>5. Cardinality(Named)' \in Nat /\ Cardinality(Named)' <= Cardinality(Named) + 1
    <3>1. IsFiniteSet(Named)
      BY FS_Subset DEF Named, Counted, Recorded
    <3>2. /\ IsFiniteSet(Named \cup {cur[w]})
          /\ Cardinality(Named \cup {cur[w]}) \in Nat
          /\ Cardinality(Named \cup {cur[w]}) <= Cardinality(Named) + 1
      <4>1. CASE cur[w] \in Named
        <5>1. Named \cup {cur[w]} = Named
          BY <4>1
        <5> QED BY <1>n, <3>1, <5>1
      <4>2. CASE cur[w] \notin Named
        <5>1. /\ IsFiniteSet(Named \cup {cur[w]})
              /\ Cardinality(Named \cup {cur[w]}) =
                   IF cur[w] \in Named THEN Cardinality(Named) ELSE Cardinality(Named) + 1
          BY <3>1, FS_AddElement
        <5> QED BY <1>n, <4>2, <5>1
      <4> QED BY <4>1, <4>2
    <3> QED BY <1>n, <2>3, <3>2, FS_Subset, FS_CardinalityType
  <2>6. /\ context'[w].count = context[w].count + 1
        /\ context'[w].summarized = context[w].summarized
        /\ context'[w].kind = context[w].kind
        /\ w \in DOMAIN context' /\ DOMAIN context'[w] = DOMAIN context[w]
    BY <1>9 DEF PassAcked
  <2> QED BY <1>n, <2>1, <2>4, <2>5, <2>6
<1>10. CASE PassContinues(w)
  <2>c. UNCHANGED context
    BY <1>10 DEF PassContinues, serviceVars
  <2>1. ASSUME NEW i \in Intents, QueryOrder(w, i) PROVE CountInv(w)'
    <3>1. /\ UNCHANGED <<rows, listed>> /\ pc[w] = "syncing" /\ pc'[w] = "queried"
          /\ cur'[w] = i /\ listed[w][i] # NoId
      BY <2>1, <1>t, <1>i DEF QueryOrder, ledger
    <3> QED BY <1>k, <1>n, <2>c, <3>1
  <2>2. ASSUME NEW i \in Intents, QueryFails(w, i) PROVE CountInv(w)'
    <3>1. /\ UNCHANGED <<rows, pc, cur>>
          /\ \A j \in Intents : listed'[w][j] # NoId => listed[w][j] # NoId
      BY <2>2, <1>t, <1>i DEF QueryFails, ledger
    <3> QED BY <1>k, <1>n, <2>c, <3>1
  <2>3. CASE RecordSync(w)
    <3>1. /\ pc[w] = "queried" /\ pc'[w] = "syncing"
          /\ listed' = [listed EXCEPT ![w][cur[w]] = NoId]
      BY <2>3, <1>t, <1>i DEF RecordSync, Finished
    <3>d. PICK id \in {wire[w], [order |-> wire[w].order, cancel |-> FALSE]} :
            RecordExecutionOrder(cur[w], answer[w], id, FALSE)
      BY <2>3 DEF RecordSync
    <3>2. cur[w] \in Intents /\ wire[w] \in Id /\ answer[w] \in ExecutionStatus
          /\ rows[cur[w]].bid # NoId
      BY <3>1 DEF OrderInv, LocalsOK, SyncOK, Names
    <3>l. \A j \in Intents : listed'[w][j] # NoId => j # cur[w] /\ listed[w][j] # NoId
      BY <1>t, <3>1, <3>2 DEF TypeOK
    <3>3. cur[w] \in Named
      BY <3>1, <3>2 DEF Unresolved, UnresolvedExecutionStatuses, Named, Counted, Recorded
    <3>e. id \in Id
      BY <3>2, SyncedId
    <3>4. Named' \subseteq Named
      BY <1>t, <3>d, <3>e, <3>2, <3>3, NamedKept
    <3>5. \A j \in Intents : j # cur[w] /\ j \in Unresolved => j \in Unresolved'
      BY <1>t, <3>d, <3>2 DEF TypeOK, RecordExecutionOrder, Unresolved
    <3> QED BY <1>f, <1>n, <2>c, <3>1, <3>l, <3>4, <3>5
  <2>4. CASE Block(w) \/ RecordUnsent(w) \/ RecordPlaceError(w)
    <3>1. /\ pc[w] \in {"checked", "claimed", "answered"} /\ pc'[w] = "ready"
          /\ UNCHANGED listed
      BY <2>4, <1>t, <1>i DEF Block, RecordUnsent, RecordPlaceError, Finished
    <3>2. cur[w] \in Intents
      BY <3>1 DEF OrderInv, LocalsOK, Submitting
    <3>3. \E s \in ExecutionStatus : RecordExecutionOrder(cur[w], s, NoId, FALSE)
      BY <2>4 DEF Block, RecordUnsent, RecordPlaceError, ErrorStatus, ExecutionStatus
    <3>4. Named' \subseteq Named
      BY <1>t, <3>2, <3>3, NamedKept
    <3> QED BY <1>f, <1>n, <2>c, <3>1, <3>4
  <2>5. CASE PlaceOrderReturns(w) \/ Unauthorized(w) \/ RenewFails(w)
    <3>1. UNCHANGED <<rows, cur, listed>> /\ pc[w] \in Placing /\ pc'[w] \in Placing
      BY <2>5, <1>t, <1>i DEF PlaceOrderReturns, Unauthorized, RenewFails, ledger
    <3> QED BY <1>k, <1>n, <2>c, <3>1
  <2>6. CASE CancelOrder(w)
    <3>1. UNCHANGED <<rows, cur, listed>> /\ pc[w] = "acked" /\ pc'[w] = "cancel_answered"
      BY <2>6, <1>t, <1>i DEF CancelOrder, ledger
    <3> QED BY <1>k, <1>n, <2>c, <3>1
  <2>7. CASE RecordCancel(w)
    <3>1. /\ pc[w] = "cancel_answered" /\ pc'[w] = "ready" /\ UNCHANGED listed
          /\ RecordExecutionOrder(cur[w], CancelStatus(answer[w]), wire[w], FALSE)
      BY <2>7, <1>t, <1>i DEF RecordCancel, Finished
    <3>2. cur[w] \in Intents /\ wire[w] \in Id /\ CancelStatus(answer[w]) \in ExecutionStatus
      BY <3>1 DEF OrderInv, LocalsOK, Submitting, CancelStatus, ErrorStatus, ExecutionStatus
    <3>3. Named' \subseteq Named
      BY <1>t, <3>1, <3>2, NamedKept
    <3> QED BY <1>f, <1>n, <2>c, <3>1, <3>3
  <2> QED BY <1>10, <2>1, <2>2, <2>3, <2>4, <2>5, <2>6, <2>7 DEF PassContinues, Cancel
<1>11. CASE PassEnds(w) \/ PassAborts(w)
  <2>1. /\ UNCHANGED rows /\ pc'[w] = "idle"
        /\ \A i \in Intents : listed'[w][i] # NoId => pc[w] # "ready" /\ listed'[w][i] = listed[w][i]
                                                     /\ pc[w] = "idle"
    BY <1>11, <1>t, <1>i DEF PassEnds, PassAborts, EndPass, Abort, Finished, vars, ledger
  <2>2. /\ w \in DOMAIN context' /\ {"kind", "summarized", "count"} \subseteq DOMAIN context'[w]
        /\ context'[w].count = 0 /\ context'[w].summarized = FALSE
    BY <1>11 DEF PassEnds, PassAborts, PassOver, NoContext
  <2> QED BY <1>k, <1>n, <2>1, <2>2
<1>12. CASE Broker /\ UNCHANGED serviceVars
  BY <1>12, CountKept DEF Broker, Arrives, Progresses, CancelLoses, serviceVars, ledger, locals
<1> QED BY <1>1, <1>2, <1>3, <1>4, <1>5, <1>6, <1>7, <1>8, <1>9, <1>10, <1>11, <1>12
        DEF ServiceNext

\* One worker: the ledger's own count of the day passes the limit only by rows
\* that name no order.
THEOREM CountBounded ==
  ASSUME MaxSubmits = 1, IsFiniteSet(Intents), IsFiniteSet(Workers)
  PROVE  ServiceSpec => []CountExceedsByUnknown
<1>1. CASE Cardinality(Workers) # 1
  <2>1. CountExceedsByUnknown
    BY <1>1 DEF CountExceedsByUnknown
  <2> QED BY <2>1, PTL
<1>2. CASE Cardinality(Workers) = 1
  <2>1. PICK w : Workers = {w}
    BY <1>2, FS_Singleton
  <2> DEFINE Inv == OrderInv /\ CountInv(w)
  <2>2. ServiceInit => Inv
    <3> SUFFICES ASSUME ServiceInit PROVE Inv
      OBVIOUS
    <3>1. OrderInv
      BY OrderInit DEF ServiceInit
    <3>2. Named = {}
      BY DEF ServiceInit, Init, Named, Counted, Recorded
    <3>3. Cardinality(Named) = 0
      BY <3>2, FS_EmptySet
    <3> HIDE DEF Named
    <3>4. CountInv(w)
      BY <2>1, <3>3, ServiceConstantsOK
         DEF ServiceInit, Init, CountInv, NoContext, Summing, Waiting, Placing, Sending
    <3> QED BY <3>1, <3>4
  <2>3. Inv /\ [ServiceNext]_allVars => Inv'
    <3> SUFFICES ASSUME Inv, [ServiceNext]_allVars PROVE Inv'
      OBVIOUS
    <3>1. [Next]_vars
      BY PassStep DEF allVars
    <3>2. OrderInv'
      BY <3>1, OrderStep
    <3>3. w \in Workers /\ DailyCountLimit \in Nat
      BY <2>1, ServiceConstantsOK
    <3>4. CASE ServiceNext
      <4>1. TypeOK'
        BY <3>2 DEF OrderInv
      <4> QED BY <2>1, <3>2, <3>3, <3>4, <4>1, CountStep, Zenon
    <3>5. CASE UNCHANGED allVars
      BY <3>2, <3>3, <3>5, CountKept DEF allVars, vars, serviceVars, ledger, locals
    <3> QED BY <3>4, <3>5
  <2>4. Inv => CountExceedsByUnknown
    <3> SUFFICES ASSUME Inv PROVE CountExceedsByUnknown
      OBVIOUS
    <3> DEFINE unnamed == {i \in Counted : rows[i].bid = NoId}
    <3>1. Named \cup unnamed = Counted /\ Named \cap unnamed = {}
      BY DEF Named
    <3>2. IsFiniteSet(Counted) /\ IsFiniteSet(Named) /\ IsFiniteSet(unnamed)
      BY NamedFinite, FS_Subset DEF OrderInv, Named
    <3>3. /\ Cardinality(Named) \in Nat /\ Cardinality(unnamed) \in Nat
          /\ Cardinality(Counted) = Cardinality(Named) + Cardinality(unnamed)
      <4>1. /\ Cardinality(Named) \in Nat /\ Cardinality(unnamed) \in Nat
            /\ Cardinality(Named \cap unnamed) = 0
        BY <3>1, <3>2, FS_CardinalityType, FS_EmptySet
      <4>2. Cardinality(Named \cup unnamed) =
              Cardinality(Named) + Cardinality(unnamed) - Cardinality(Named \cap unnamed)
        BY <3>2, FS_Union
      <4>3. Cardinality(Named \cup unnamed) = Cardinality(Counted)
        BY <3>1
      <4> HIDE DEF unnamed
      <4> QED BY <4>1, <4>2, <4>3
    <3>4. Cardinality(Named) <= DailyCountLimit
      BY DEF CountInv
    <3> HIDE DEF unnamed
    <3>5. SummaryCount <= DailyCountLimit + Cardinality(unnamed)
      BY <3>3, <3>4, ServiceConstantsOK DEF SummaryCount
    <3> QED BY <3>5 DEF CountExceedsByUnknown, unnamed
  <2> QED BY <2>2, <2>3, <2>4, PTL DEF ServiceSpec
<1> QED BY <1>1, <1>2
=============================================================================
