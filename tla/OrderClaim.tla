------------------------------ MODULE OrderClaim ------------------------------
(***************************************************************************)
(* What the live order path promises about one order intent, without       *)
(* workers, requests, answers or a network: the bot's ledger holds a claim *)
(* on the intent and the broker has at most one order for it.  An order    *)
(* can come into being only while the claim is held; the claim is settled  *)
(* only when the order is over; a refused claim never has an order.  The   *)
(* claim may be abandoned while the order lives: that is what a failed     *)
(* cancel does.                                                            *)
(***************************************************************************)
CONSTANT Intents

VARIABLES
  claim,   \* the ledger: none, refused, held, settled or abandoned
  order    \* the broker: none, open or done

ClaimState == {"none", "refused", "held", "settled", "abandoned"}
OrderState == {"none", "open", "done"}

ClaimTypeOK ==
  /\ claim \in [Intents -> ClaimState]
  /\ order \in [Intents -> OrderState]

ClaimInit ==
  /\ claim = [i \in Intents |-> "none"]
  /\ order = [i \in Intents |-> "none"]

Move(i, from, to) ==
  /\ claim[i] \in from
  /\ claim' = [claim EXCEPT ![i] = to]
  /\ UNCHANGED order

Take(i) == Move(i, {"none"}, "held")

\* Never sent, or sent and refused by the broker.
Refuse(i) == order[i] = "none" /\ Move(i, {"none", "held"}, "refused")

Settle(i) == order[i] = "done" /\ Move(i, {"held", "abandoned"}, "settled")

Abandon(i) == order[i] # "none" /\ Move(i, {"held", "settled"}, "abandoned")

\* An older answer about the order is recorded after a newer one.
Reopen(i) == order[i] # "none" /\ Move(i, {"settled", "abandoned"}, "held")

Open(i) ==
  /\ claim[i] = "held" /\ order[i] = "none"
  /\ order' = [order EXCEPT ![i] = "open"]
  /\ UNCHANGED claim

Finish(i) ==
  /\ order[i] = "open"
  /\ order' = [order EXCEPT ![i] = "done"]
  /\ UNCHANGED claim

ClaimNext ==
  \E i \in Intents :
    /\ <<claim[i], order[i]>>' # <<claim[i], order[i]>>   \* spares TLC the stutters
    /\ Take(i) \/ Refuse(i) \/ Settle(i) \/ Abandon(i) \/ Reopen(i) \/ Open(i) \/ Finish(i)

ClaimSpec == ClaimInit /\ [][ClaimNext]_<<claim, order>>

\* No open order without a claim on it, no settled claim on an open order, no
\* order behind a refused claim.
ClaimsMatchOrders ==
  \A i \in Intents :
    /\ order[i] = "open" => claim[i] \in {"held", "abandoned"}
    /\ claim[i] = "settled" => order[i] = "done"
    /\ claim[i] \in {"none", "refused"} => order[i] = "none"
=============================================================================
