------------------------------- MODULE TossRead -------------------------------
(***************************************************************************)
(* A request of the read-only Toss client (toss_client.py) and the rate    *)
(* limits it obeys (rate_limit.py), with a clock.  A client lives for one  *)
(* service iteration and keeps a token; the limits live as long as the     *)
(* service.  What the server answers is open.                              *)
(***************************************************************************)
EXTENDS Integers, FiniteSetsExt

CONSTANTS
  Groups,        \* the rate-limit groups that requests ask about
  Headers,       \* the rate-limit headers of an answer, times relative
  TokenLife,     \* expires_in
  Margin,        \* is_expiring: a token is renewed that long before its end
  DefaultReset,  \* the pause without a reset header: one minute
  DefaultRetry,  \* the pause after a 429 without Retry-After: one minute
  StartClock, MaxClock \* bound: the time that the model covers

None == -1
OrNone(S) == S \cup {None}

ASSUME ReadConstantsOK ==
  /\ Headers \subseteq [remaining : OrNone(Nat), reset : OrNone(Nat), retry : OrNone(Nat)]
  /\ Margin \in Nat /\ TokenLife \in Nat /\ TokenLife > Margin
  /\ DefaultReset \in Nat /\ DefaultRetry \in Nat
  /\ StartClock \in Nat /\ MaxClock \in Nat /\ StartClock <= MaxClock

VARIABLES
  clock,
  limits,    \* group -> [remaining, reset, until], each of them possibly None
  token,     \* the time at which the token of the client ends, or None
  wire,      \* the request: where it is, its group, its attempt and its answer
  notBefore, \* history: group -> what the server's answers asked to wait for
  earlier    \* history: the same without the 401 that is being answered with a resend

heard == <<notBefore, earlier>>
readVars == <<clock, limits, token, wire, heard>>

Fresh == [g \in Groups |-> [remaining |-> None, reset |-> None, until |-> None]]
Quiet == [step |-> "none", group |-> "none", tries |-> 1, status |-> 0]

-----------------------------------------------------------------------------
(* RateLimitQueue *)

\* is_group_paused
Paused(g) ==
  \/ limits[g].until > clock
  \/ limits[g].remaining = 0 /\ limits[g].reset > clock

ResetWins(a, b) == b
Later(a, b) == Max({a, b})

\* update_from_headers: the remaining count is that of the headers or unknown,
\* a reset time stays known until another one comes.
Captured(limit, h) ==
  LET stated == IF h.reset # None THEN clock + h.reset ELSE limit.reset
      asked == IF h.retry > 0 THEN Later(limit.until, clock + h.retry) ELSE limit.until
      reset == IF h.remaining = 0 /\ stated = None THEN clock + DefaultReset ELSE stated
  IN [remaining |-> h.remaining, reset |-> reset,
      until |-> IF h.remaining = 0 THEN Later(asked, reset) ELSE asked]

\* pause_group
PausedFor(limit, seconds) == [limit EXCEPT !.until = Later(@, clock + seconds)]

\* What the headers of an answer ask for in so many words.
Asked(h) ==
  Max({0} \cup {clock + r : r \in {h.retry} \cap (Nat \ {0})}
          \cup {clock + r : r \in IF h.remaining = 0 THEN {h.reset} \ {None} ELSE {}})

-----------------------------------------------------------------------------
(* TossClient *)

Usable == token # None /\ token > clock + Margin

\* _request_json: a paused group is answered here, the server is not asked.
Ask(g) ==
  /\ wire.step = "none"
  /\ wire' = IF Paused(g) THEN [step |-> "done", group |-> g, tries |-> 1, status |-> 429]
             ELSE [step |-> IF Usable THEN "send" ELSE "token", group |-> g, tries |-> 1,
                   status |-> 0]

Errors == {429, 503}

\* issue_token.  The limits of its own group, "auth", are never asked about; an
\* error is the answer of the request.
IssueToken ==
  /\ wire.step = "token"
  /\ \/ token' = clock + TokenLife /\ wire' = [wire EXCEPT !.step = "send"]
     \/ \E status \in Errors : wire' = [wire EXCEPT !.step = "done", !.status = status]
                               /\ UNCHANGED token
  /\ UNCHANGED <<clock, limits, heard>>

\* _send and the rest of _request_json: the first 401 renews the token and sends
\* again at once, a 429 pauses the group.
Send(h) ==
  /\ wire.step = "send"
  /\ \E status \in {200, 401} \cup Errors :
       LET captured == Captured(limits[wire.group], h)
       IN /\ limits' = [limits EXCEPT ![wire.group] =
                          IF status # 429 THEN captured
                          ELSE PausedFor(captured, IF h.retry > 0 THEN h.retry ELSE DefaultRetry)]
          /\ wire' = IF status = 401 /\ wire.tries = 1
                     THEN [wire EXCEPT !.step = "token", !.tries = 2]
                     ELSE [wire EXCEPT !.step = "done", !.status = status]
  /\ notBefore' = [notBefore EXCEPT ![wire.group] = Max({@, Asked(h)})]
  /\ earlier' = IF wire'.step = "done" THEN 0 ELSE notBefore[wire.group]
  /\ UNCHANGED <<clock, token>>

Transport == IssueToken \/ \E h \in Headers : Send(h)

Waits == wire.step \in {"token", "send"}
Tick ==
  /\ clock < MaxClock /\ clock' = clock + 1
  /\ UNCHANGED <<limits, token, wire, heard>>

Answered == wire.step = "done"
Taken == wire' = Quiet

ReadInit ==
  /\ clock = StartClock /\ limits = Fresh /\ token = None /\ wire = Quiet
  /\ notBefore = [g \in Groups |-> 0] /\ earlier = 0

-----------------------------------------------------------------------------

\* A request goes out only when everything is over that the server's answers,
\* since the service started, asked it to wait for in that group, in Retry-After
\* or as the reset of a window with nothing left (docs/toss-api-contract.md:228).
\* The resend after a 401 looks at no limit: it waits for what was asked before
\* the 401, not for what the 401 itself asks.
PausesObeyed ==
  wire.step \in {"token", "send"} =>
    (IF wire.tries = 1 THEN notBefore[wire.group] ELSE earlier) <= clock
=============================================================================
