------------------------------- MODULE Calendar -------------------------------
(***************************************************************************)
(* How an answer of the broker's market calendar becomes a verdict on the  *)
(* present moment (parse_market_session in market_calendar.py).  Instants  *)
(* are numbers above 0; the time 0 stands for one that cannot be parsed.   *)
(***************************************************************************)
EXTENDS Integers, SequencesExt

\* An answer gives the sessions of its day by name (official), or a flag and a
\* status of its own (flat), of which either may be absent.
Official(today) == [kind |-> "official", today |-> today]
Flat(flag, status) == [kind |-> "flat", flag |-> flag, status |-> status]
Span(from, to) == [from |-> from, to |-> to]

\* _official_session_candidates, in the order in which they are looked at.
SessionNames(market) ==
  IF market = "US" THEN <<"dayMarket", "preMarket", "regularMarket", "afterMarket">>
  ELSE <<"regularMarket">>
\* The places in that order of the sessions that the answer has.
Offered(answer, market) ==
  {i \in DOMAIN SessionNames(market) : SessionNames(market)[i] \in DOMAIN answer.today}

\* The names for which the bot may trade: the configured ones, or the regular.
AllowedNames(names) == IF names = {} THEN {"regularMarket"} ELSE names

BeforeEnd(span, now) == span.from # 0 /\ span.to # 0 /\ span.from <= now /\ now < span.to
Within(span, now) == span.from # 0 /\ span.to # 0 /\ span.from <= now /\ now <= span.to

Closed(status) == [open |-> FALSE, known |-> TRUE, status |-> status]

\* _parse_official_session_payload: the first session that holds now decides.
OfficialVerdict(answer, market, names, now) ==
  LET called == SessionNames(market)
      current == {i \in Offered(answer, market) : Within(answer.today[called[i]], now)}
  IN IF Offered(answer, market) = {} THEN Closed("HOLIDAY")
     ELSE IF current = {} THEN Closed("CLOSED")
     ELSE [open |-> called[Min(current)] \in AllowedNames(names), known |-> TRUE,
           status |-> called[Min(current)]]

FlatVerdict(answer) ==
  LET status == IF answer.status # "absent" THEN answer.status ELSE "UNKNOWN"
      shown == IF answer.status # "absent" THEN answer.status ELSE answer.flag
  IN IF answer.flag # "absent"
     THEN [open |-> answer.flag = "OPEN", known |-> TRUE, status |-> shown]
     ELSE [open |-> status \in {"OPEN", "OPENED", "TRADING", "REGULAR"},
           known |-> status \in {"OPEN", "OPENED", "TRADING", "REGULAR", "CLOSED", "CLOSE",
                                 "HOLIDAY", "WEEKEND", "SUSPENDED", "PREOPEN", "POSTMARKET"},
           status |-> status]

Verdict(answer, market, names, now) ==
  IF answer.kind = "official" THEN OfficialVerdict(answer, market, names, now)
  ELSE FlatVerdict(answer)

\* MarketSessionState.blocker
SessionBlockers(verdict) ==
  IF verdict.known /\ verdict.open THEN {} ELSE {"session"}

\* _should_build_watchlist
WatchlistFirst(verdict) == verdict.status \in {"OPEN", "PREOPEN"}
=============================================================================
