-------------------------- MODULE TradingLoopProofs --------------------------
(***************************************************************************)
(* The safety properties of the trading loop's control, for any number of  *)
(* loop threads, starts and restarts and any size of a batch.              *)
(***************************************************************************)
EXTENDS TradingLoop, TLAPS

LEMMA LoopInitOK == LoopInit => LoopInv
<1> SUFFICES ASSUME LoopInit PROVE LoopInv
  OBVIOUS
<1> USE LoopConstantsOK DEF LoopInit
<1>1. LoopTypeOK
  <2>1. Template \in Config /\ Idle \in Server /\ "unborn" \in Phase /\ 0 \in 0..BatchMax
    BY DEF Config, Template, Server, Request, Idle, Phase
  <2> QED BY <2>1 DEF LoopTypeOK
<1>2. ServerOK
  BY DEF ServerOK, Idle, Alive, Runners
<1>3. ThreadsOK /\ HaltOK /\ late <= BatchMax
  BY DEF ThreadsOK, HaltOK, Alive, Runners
<1> QED BY <1>1, <1>2, <1>3 DEF LoopInv

\* What an iteration's steps share: the runner r is at work and stays itself.
LEMMA RunnerKnown ==
  ASSUME LoopInv, NEW r \in Runners, phase[r] \in Alive
  PROVE  /\ r = Dashboard => server.request = "once" /\ r \notin Loops
         /\ r # Dashboard => r \in Loops /\ r = current
BY LoopConstantsOK DEF LoopInv, ServerOK, ThreadsOK, Runners

LEMMA LoopOpenFile ==
  ASSUME LoopInv, NEW request \in {"start", "stop", "save"}, OpenFile(request)
  PROVE  LoopInv'
<1> USE DEF LoopInv, OpenFile, threads
<1>1. draft' \in Config /\ (request = "stop" => draft'.stop)
      /\ (request = "save" => draft'.stop = config.stop)
  BY DEF Changed, LoopTypeOK, Config
<1>2. LoopTypeOK'
  BY <1>1 DEF LoopTypeOK, EmptyFile, Config, Server, Request
<1>3. ServerOK'
  BY <1>1 DEF ServerOK, Idle
<1>4. ThreadsOK'
  BY DEF ThreadsOK
<1>5. HaltOK'
  BY <1>1 DEF HaltOK, EmptyFile
<1> QED BY <1>2, <1>3, <1>4, <1>5

LEMMA LoopWriteFile == ASSUME LoopInv, WriteFile PROVE LoopInv'
<1> USE DEF LoopInv, WriteFile, threads, history
<1>1. server' = [request |-> server.request, written |-> TRUE]
  BY DEF LoopTypeOK, Server
<1>2. LoopTypeOK'
  BY <1>1 DEF LoopTypeOK, Server, Request
<1>3. ServerOK'
  BY <1>1 DEF ServerOK
<1>4. ThreadsOK'
  BY DEF ThreadsOK
<1>5. HaltOK'
  BY <1>1 DEF HaltOK, ServerOK, LoopTypeOK, Server
<1> QED BY <1>2, <1>3, <1>4, <1>5

LEMMA LoopAnswerStart == ASSUME LoopInv, AnswerStart PROVE LoopInv'
<1> USE DEF LoopInv, AnswerStart, Answers, files, threads
<1>1. ~halted /\ phase[Dashboard] \notin Alive /\ server' = Idle /\ late' = late /\ ~halted'
  BY DEF ServerOK
<1>2. CASE UNCHANGED <<threads, event, current>>
  BY <1>1, <1>2 DEF LoopTypeOK, ServerOK, ThreadsOK, HaltOK, Idle, Server, Request
<1>3. CASE ~UNCHANGED <<threads, event, current>>
  <2>1. PICK l \in Loops :
          /\ phase[l] = "unborn" /\ phase' = [phase EXCEPT ![l] = "deciding"]
          /\ again' = [again EXCEPT ![l] = TRUE]
          /\ event' = [event EXCEPT ![l] = FALSE]
          /\ current' = l /\ left' = left /\ ~LoopThreadAlive
    BY <1>3
  <2>2. l \in Runners /\ l # Dashboard /\ phase \in [Runners -> Phase]
    BY LoopConstantsOK DEF Runners, LoopTypeOK
  <2>3. \A k \in Loops : phase[k] \notin Alive
    BY <2>1 DEF ThreadsOK, LoopThreadAlive
  <2>4. \A r \in Runners : phase'[r] = IF r = l THEN "deciding" ELSE phase[r]
    BY <2>1, <2>2
  <2>5. LoopTypeOK'
    BY <1>1, <2>1, <2>2 DEF LoopTypeOK, Idle, Server, Request, Phase, Alive
  <2>6. ThreadsOK'
    BY <2>1, <2>2, <2>3, <2>4 DEF ThreadsOK, Runners
  <2>7. ServerOK' /\ HaltOK'
    BY <1>1, <2>2, <2>4 DEF ServerOK, HaltOK, Idle, Runners
  <2> QED BY <1>1, <2>5, <2>6, <2>7
<1> QED BY <1>2, <1>3

LEMMA LoopAnswerStop == ASSUME LoopInv, AnswerStop PROVE LoopInv'
<1> USE DEF LoopInv, AnswerStop, Answers, files, threads
<1>1. config.stop /\ phase[Dashboard] \notin Alive
  BY DEF ServerOK
<1>2. LoopTypeOK'
  BY DEF LoopTypeOK, Idle, Server, Request
<1>3. ServerOK' /\ ThreadsOK'
  BY <1>1 DEF ServerOK, ThreadsOK, Idle
<1>4. left[Dashboard] = 0 /\ \A l \in Loops : left[l] \in 0..BatchMax
  BY <1>1 DEF ThreadsOK, LoopTypeOK, Runners, Alive
<1>5. HaltOK' /\ late' <= BatchMax
  BY <1>1, <1>4, LoopConstantsOK DEF HaltOK, Idle
<1> QED BY <1>2, <1>3, <1>5

LEMMA LoopAnswerSave == ASSUME LoopInv, AnswerSave PROVE LoopInv'
BY DEF LoopInv, AnswerSave, Answers, files, threads, history, LoopTypeOK, ServerOK, ThreadsOK,
       HaltOK, Idle, Server, Request

LEMMA LoopRunOnce == ASSUME LoopInv, RunOnce PROVE LoopInv'
<1> USE DEF LoopInv, RunOnce, files, history, Idle
<1>1. Dashboard \in Runners /\ Dashboard \notin Loops /\ phase[Dashboard] \notin Alive
  BY LoopConstantsOK DEF Runners, ServerOK
<1>2. \A r \in Runners : phase'[r] = IF r = Dashboard THEN "deciding" ELSE phase[r]
  BY DEF LoopTypeOK
<1>3. left[Dashboard] = 0
  BY <1>1 DEF ThreadsOK, Alive
<1>4. LoopTypeOK'
  BY DEF LoopTypeOK, Server, Request, Phase, Alive
<1>5. ServerOK' /\ ThreadsOK' /\ HaltOK'
  BY <1>1, <1>2, <1>3 DEF ServerOK, ThreadsOK, HaltOK, Alive, Runners
<1> QED BY <1>4, <1>5

LEMMA LoopLoadConfig ==
  ASSUME LoopInv, NEW r \in Runners, LoadConfig(r) PROVE LoopInv'
<1> USE DEF LoopInv, LoadConfig, files, history
<1>1. PICK n \in 0..BatchMax :
        (~Trades(config) => n = 0) /\ left' = [left EXCEPT ![r] = n]
  OBVIOUS
<1>2. phase[r] \in Alive
  BY DEF Alive
<1>3. \A q \in Runners : /\ phase'[q] = IF q = r THEN "iterating" ELSE phase[q]
                         /\ left'[q] = IF q = r THEN n ELSE left[q]
  BY <1>1 DEF LoopTypeOK
<1>4. LoopTypeOK'
  BY <1>1 DEF LoopTypeOK, Phase, Alive
<1>5. ServerOK' /\ ThreadsOK'
  BY <1>2, <1>3, LoopConstantsOK DEF ServerOK, ThreadsOK, Alive, Runners
<1>6. HaltOK'
  <2>1. halted => n = 0
    BY <1>1 DEF HaltOK, Trades
  <2>2. left[r] = 0
    BY DEF ThreadsOK
  <2> QED BY <1>1, <1>3, <2>1, <2>2 DEF HaltOK, Runners, LoopTypeOK
<1> QED BY <1>4, <1>5, <1>6

LEMMA LoopSubmitOrder ==
  ASSUME LoopInv, NEW r \in Runners, SubmitOrder(r) PROVE LoopInv'
<1> USE DEF LoopInv, SubmitOrder, files
<1>1. phase[r] \in Alive /\ left[r] \in 1..BatchMax /\ BatchMax \in Nat /\ late \in Nat
  BY LoopConstantsOK DEF Alive, LoopTypeOK
<1>2. \A q \in Runners : left'[q] = IF q = r THEN left[r] - 1 ELSE left[q]
  BY DEF LoopTypeOK
<1>3. LoopTypeOK'
  BY <1>1 DEF LoopTypeOK
<1>4. ServerOK' /\ ThreadsOK'
  BY <1>2 DEF ServerOK, ThreadsOK
<1>5. CASE halted
  <2>1. r \in Loops /\ r = current /\ r # Dashboard
    BY <1>1, <1>5, RunnerKnown DEF HaltOK
  <2>2. \A l \in Loops : l # r => left[l] = 0
    BY <2>1 DEF ThreadsOK, Alive, Runners
  <2>3. late + left[r] <= BatchMax
    BY <1>5, <2>1 DEF HaltOK
  <2>4. \A l \in Loops : late' + left'[l] <= BatchMax
    BY <1>1, <1>2, <1>5, <2>1, <2>2, <2>3 DEF Runners
  <2>5. late' <= BatchMax
    BY <1>1, <1>5, <2>3
  <2> QED BY <1>2, <1>3, <1>4, <1>5, <2>1, <2>4, <2>5 DEF HaltOK, Runners
<1>6. CASE ~halted
  BY <1>3, <1>4, <1>6 DEF HaltOK
<1> QED BY <1>5, <1>6

\* A runner that ends its iteration, or fails, gives up what was left of it.
LEMMA LeftReset ==
  ASSUME LoopInv, NEW r \in Runners, left' = [left EXCEPT ![r] = 0],
         UNCHANGED <<config, draft, history>>,
         server'.request \in {server.request, "none"}
  PROVE  HaltOK' /\ late' <= BatchMax
<1>1. \A q \in Runners : left'[q] = IF q = r THEN 0 ELSE left[q]
  BY DEF LoopInv, LoopTypeOK
<1>2. r \in Loops => left[r] \in Nat
  BY DEF LoopInv, LoopTypeOK, Runners
<1>3. late \in Nat /\ BatchMax \in Nat
  BY LoopConstantsOK DEF LoopInv, LoopTypeOK
<1> QED BY <1>1, <1>2, <1>3 DEF LoopInv, HaltOK, Runners, history

LEMMA LoopEndIteration ==
  ASSUME LoopInv, NEW r \in Runners, EndIteration(r) PROVE LoopInv'
<1> USE DEF LoopInv, EndIteration, files
<1>0. /\ server' = server \/ server' = Idle
      /\ UNCHANGED <<config, draft, history>>
      /\ server'.request \in {server.request, "none"}
  BY DEF Idle
<1>1. HaltOK' /\ late' <= BatchMax
  BY <1>0, LeftReset DEF Idle
<1>2. phase[r] \in Alive
  BY DEF Alive
<1>3. \A q \in Runners : q # r => phase'[q] = phase[q] /\ left'[q] = left[q]
  BY DEF LoopTypeOK
<1>4. LoopTypeOK'
  <2>1. phase' \in [Runners -> Phase] /\ again' \in [Runners -> BOOLEAN]
    BY DEF LoopTypeOK, Phase, Alive
  <2>2. left' \in [Runners -> 0..BatchMax]
    BY LoopConstantsOK DEF LoopTypeOK
  <2>3. server' \in Server
    <3> HIDE DEF EndIteration
    <3>1. server \in Server /\ Idle \in Server
      BY DEF LoopTypeOK, Idle, Server, Request
    <3> QED BY <1>0, <3>1
  <2> QED BY <1>0, <2>1, <2>2, <2>3 DEF LoopTypeOK, history
<1>5. left'[r] = 0 /\ ThreadsOK'
  <2>1. left'[r] = 0
    BY DEF LoopTypeOK
  <2>2. r \in Loops => r = current
    BY <1>2 DEF ThreadsOK
  <2> QED BY <1>3, <2>1, <2>2 DEF ThreadsOK, Runners
<1>6. ServerOK'
  BY <1>2, <1>3, RunnerKnown, LoopConstantsOK
  DEF ServerOK, LoopTypeOK, Idle, Runners, Alive, history
<1> QED BY <1>1, <1>4, <1>5, <1>6

LEMMA LoopFails ==
  ASSUME LoopInv, NEW r \in Runners, Fails(r) PROVE LoopInv'
<1> USE DEF LoopInv, Fails, files
<1>1. HaltOK' /\ late' <= BatchMax
  BY LeftReset DEF Idle
<1>2. phase[r] \in Alive
  BY DEF Alive
<1>3. \A q \in Runners : q # r => phase'[q] = phase[q] /\ left'[q] = left[q]
  BY DEF LoopTypeOK
<1>4. LoopTypeOK'
  BY LoopConstantsOK DEF LoopTypeOK, Phase, Alive, Idle, Server, Request, history
<1>5. ThreadsOK'
  <2>1. left'[r] = 0 /\ phase'[r] \notin Alive
    BY DEF LoopTypeOK, Alive
  <2> QED BY <1>3, <2>1 DEF ThreadsOK, Runners
<1>6. ServerOK'
  BY <1>2, <1>3, RunnerKnown, LoopConstantsOK
  DEF ServerOK, LoopTypeOK, Idle, Runners, Alive, history
<1> QED BY <1>1, <1>4, <1>5, <1>6

\* The sleep of a loop thread changes nothing but its own phase.
LEMMA LoopRests ==
  ASSUME LoopInv, NEW l \in Loops, Sleep(l) \/ WakeUp(l) PROVE LoopInv'
<1> USE DEF LoopInv, Sleep, WakeUp, files, history
<1>1. l \in Runners /\ l # Dashboard /\ phase[l] \in Alive
  BY LoopConstantsOK DEF Runners, Alive
<1>2. PICK p \in Phase : p # "iterating" /\ phase' = [phase EXCEPT ![l] = p]
  BY DEF Phase, Alive
<1>3. \A r \in Runners : phase'[r] = IF r = l THEN p ELSE phase[r]
  BY <1>2 DEF LoopTypeOK
<1>4. phase[l] # "iterating"
  OBVIOUS
<1>5. LoopTypeOK'
  BY <1>2 DEF LoopTypeOK
<1>6. ServerOK' /\ ThreadsOK' /\ HaltOK'
  BY <1>1, <1>3, <1>4, LoopConstantsOK DEF ServerOK, ThreadsOK, HaltOK, Runners
<1> QED BY <1>5, <1>6

LEMMA LoopCrash == ASSUME LoopInv, Crash PROVE LoopInv'
<1> USE DEF LoopInv, Crash, files
<1>1. \A r \in Runners : phase'[r] \notin Alive /\ phase'[r] \in Phase /\ left'[r] = 0
  BY DEF LoopTypeOK, Phase, Alive
<1>2. LoopTypeOK'
  <2>1. phase' \in [Runners -> Phase] /\ left' \in [Runners -> 0..BatchMax]
    BY <1>1, LoopConstantsOK
  <2> QED BY <2>1 DEF LoopTypeOK, Idle, Server, Request
<1>3. ServerOK' /\ ThreadsOK'
  BY <1>1 DEF ServerOK, ThreadsOK, Idle, Runners
<1>4. HaltOK'
  BY <1>1, LoopConstantsOK DEF HaltOK, Idle, Runners, LoopTypeOK
<1> QED BY <1>2, <1>3, <1>4

LEMMA LoopStutters == ASSUME LoopInv, UNCHANGED loopVars PROVE LoopInv'
BY DEF LoopInv, loopVars, history, LoopTypeOK, ServerOK, ThreadsOK, HaltOK, LoopConstantsOK

\* The control of the loop keeps its inductive invariant: the request under
\* way, the phases of the threads and the file agree.
THEOREM LoopInvariant == LoopSpec => []LoopInv
<1>1. ASSUME LoopInv, LoopNext PROVE LoopInv'
  <2>1. CASE \E request \in {"start", "stop", "save"} : OpenFile(request)
    BY <1>1, <2>1, LoopOpenFile
  <2>2. CASE RunOnce \/ Crash
    BY <1>1, <2>2, LoopRunOnce, LoopCrash
  <2>3. CASE ServerStep
    BY <1>1, <2>3, LoopWriteFile, LoopAnswerStart, LoopAnswerStop, LoopAnswerSave DEF ServerStep
  <2>4. ASSUME NEW r \in Runners, Iteration(r) PROVE LoopInv'
    BY <1>1, <2>4, LoopLoadConfig, LoopSubmitOrder, LoopEndIteration DEF Iteration
  <2>5. ASSUME NEW l \in Loops, Sleep(l) \/ WakeUp(l) PROVE LoopInv'
    BY <1>1, <2>5, LoopRests
  <2>6. ASSUME NEW r \in Runners, Fails(r) PROVE LoopInv'
    BY <1>1, <2>6, LoopFails
  <2> QED BY <1>1, <2>1, <2>2, <2>3, <2>4, <2>5, <2>6 DEF LoopNext, LoopStep, Runners
<1> QED BY <1>1, LoopInitOK, LoopStutters, PTL DEF LoopSpec

\* Never two loop threads over one account, however starts, stops, failures
\* and restarts follow on each other.
THEOREM NeverTwoLoops == LoopSpec => []AtMostOneLoop
<1>1. LoopInv => AtMostOneLoop
  BY DEF LoopInv, ThreadsOK, AtMostOneLoop
<1> QED BY <1>1, LoopInvariant, PTL

\* After stop has answered, at most one batch of orders still goes out.
THEOREM StopBoundsOrders == LoopSpec => []LateOrdersAreOneBatch
<1>1. LoopInv => LateOrdersAreOneBatch
  BY DEF LoopInv, LateOrdersAreOneBatch
<1> QED BY <1>1, LoopInvariant, PTL
=============================================================================
