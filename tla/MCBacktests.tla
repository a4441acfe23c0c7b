------------------------------ MODULE MCBacktests ------------------------------
EXTENDS Backtests, TLC

B(o, h, l, c, v) == [open |-> 64 * o, high |-> 64 * h, low |-> 64 * l, close |-> 64 * c,
                     volume |-> v]
Flat == B(4, 5, 3, 4, 1)
Wide == B(4, 6, 3, 5, 1)
Up == B(5, 8, 5, 7, 1)
Gap == B(8, 9, 7, 8, 1)
Down == B(4, 4, 1, 2, 1)
Mid == B(5, 5, 4, 5, 1)
Top == B(8, 8, 7, 8, 1)
Thin == B(5, 7, 4, 5, 0)

MCWarm == <<{(1 :> Flat @@ 2 :> Flat)}, {(1 :> Wide @@ 2 :> Wide)}, {(1 :> Flat @@ 2 :> Flat)}>>
MCTwo == {1 :> Up @@ 2 :> Up, 1 :> Gap @@ 2 :> Thin, 1 :> Down @@ 2 :> Down,
          1 :> Up @@ 2 :> Down, 1 :> Down @@ 2 :> Gap, 1 :> Flat}
MCOne == {1 :> a : a \in {Up, Gap, Down, Mid, Top}}
MCOneWarm == <<{1 :> Flat}, {1 :> Wide}, {1 :> Flat}>>
MCMarket == {1 :> Up @@ 2 :> Up @@ 3 :> Up, 1 :> Gap @@ 2 :> Thin @@ 3 :> Gap,
             1 :> Down @@ 2 :> Gap @@ 3 :> Up, 1 :> Up @@ 2 :> Down @@ 3 :> Flat,
             1 :> Gap @@ 2 :> Gap @@ 3 :> Gap, 2 :> Up @@ 3 :> Up}
MCMarketWarm == <<{1 :> Flat @@ 2 :> Flat @@ 3 :> Flat}, {1 :> Flat @@ 2 :> Wide @@ 3 :> Flat},
                  {1 :> Wide @@ 2 :> Flat @@ 3 :> Wide}>>
Rest(S) == <<S, S, S, S>>
MCBatches == [c \in {"single", "portfolio", "scan", "momentum"} |->
  CASE c = "single" -> MCOneWarm \o Rest(MCOne)
    [] c = "momentum" -> MCMarketWarm \o Rest(MCMarket)
    [] OTHER -> MCWarm \o Rest(MCTwo)]
MCMaxTotal == [d \in {"LONG", "SHORT"} |-> 2]
MCAllowed == <<"LONG", "SHORT">>
MCPit == {{}, {[d \in 1..7 |-> IF d = 5 THEN {2} ELSE {1, 2}]}, {[d \in 1..5 |-> {1, 2}]}}
MCNone == {}
=============================================================================
