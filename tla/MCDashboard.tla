----------------------------- MODULE MCDashboard -----------------------------
(* Instances for TLC. *)
EXTENDS Dashboard

Template(mode, enabled, stop, allowed) ==
  [mode |-> mode, enabled |-> enabled, stop |-> stop, account |-> FALSE,
   symbols |-> <<1, 2>>, universe |-> FALSE, allowed |-> allowed, hours |-> {}, consent |-> "off"]
\* The shipped template, two prepared by hand, one of which asks for a code but
\* registers none, and one that trades once connected.
MCTemplates ==
  {Template("shadow", FALSE, TRUE, {}),
   [Template("live", TRUE, TRUE, {1, 2}) EXCEPT !.consent = "ids"],
   [Template("live", TRUE, TRUE, {1, 2}) EXCEPT !.consent = "none"],
   [Template("live", TRUE, FALSE, {1, 2}) EXCEPT !.universe = TRUE]}

\* A day whose two sessions meet at 2, and one of which only the state is told.
MCAnswers ==
  {Official([n \in {"dayMarket", "regularMarket"} |->
      IF n = "dayMarket" THEN Span(1, 2) ELSE Span(2, 2)]),
   Flat("absent", "PREOPEN")}

Form(momentum, hours, toss) == [momentum |-> momentum, hours |-> hours, toss |-> toss]
MCPayloads ==
  {Form("valid", "absent", "connect"), Form("valid", "day", "refused"),
   Form("valid", "regular", "absent"), Form("invalid", "day", "connect")}
=============================================================================
