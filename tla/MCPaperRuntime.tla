---------------------------- MODULE MCPaperRuntime ----------------------------
EXTENDS PaperRuntime, TLC

B(o, h, l, c) == [open |-> 64 * o, high |-> 64 * h, low |-> 64 * l, close |-> 64 * c,
                  volume |-> 1]
Flat == B(4, 5, 4, 4)
Wide == B(4, 6, 3, 5)
Up == B(6, 8, 6, 8)
Gap == B(8, 9, 8, 9)
Peak == B(8, 10, 8, 10)
Down == B(4, 4, 2, 2)
\* A bar of one price.
Level(c) == B(c, c, c, c)

MCSetups == {<<"paper", "turtle">>, <<"shadow", "turtle">>, <<"live", "turtle">>,
             <<"paper", "momentum">>, <<"live", "momentum">>}
MCHistory == (1 :> <<Flat, Wide, Flat, Up>> @@ 2 :> <<Flat, Wide, Flat, Flat>>
              @@ 3 :> <<Level(4), Level(5), Level(4), Level(4)>>)
MCBars == {(1 :> Gap @@ 2 :> Up @@ 3 :> Level(9)), (1 :> Down @@ 2 :> Gap @@ 3 :> Level(9))}
MCDays == <<{(1 :> Level(8) @@ 2 :> Level(4) @@ 3 :> Level(8))}, MCBars,
            {(1 :> Gap @@ 2 :> Peak @@ 3 :> Level(9))}>>
MCLiveSetups == {<<"live", "turtle">>}
MCNoHoldings == {<<>>}
MCOwn == {<<>>, 1 :> [qty |-> 1, cost |-> 256]}
=============================================================================
