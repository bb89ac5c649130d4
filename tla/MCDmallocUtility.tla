-------------------------- MODULE MCDmallocUtility --------------------------
(* Command lines of up to three words, from shells with and without a       *)
(* string, an interval, a log path or a start already set.                  *)
EXTENDS DmallocUtility

Text(lead, digits) == [NoText EXCEPT !.lead = lead, !.digits = digits]
W(form) == [form |-> form, name |-> <<>>, letters |-> <<>>, number |-> FALSE,
               close |-> NoValue, text |-> NoText]
S(letters) == [W("short") EXCEPT !.letters = letters]
SC(letters, close) == [S(letters) EXCEPT !.close = close]
L(name) == [W("long") EXCEPT !.name = name]
LC(name, close) == [L(name) EXCEPT !.close = close]
P(text) == [W("plain") EXCEPT !.text = text]

MCTokens == {"none", "check-heap", "log-trans", "log-unknown"}
MCTokenBits == [none |-> {}] @@ ("check-heap" :> {0}) @@ ("log-trans" :> {1}) @@ ("log-unknown" :> {})
MCCommaPaths == ("a,log-trans" :> <<"a", "log-trans">>)
MCTagFlags == [none |-> {}, low |-> {0}, high |-> {0, 1}]
MCRcFiles == ("." :> Missing) @@ ("~" :> [mine |-> {"log-trans", "other"}]) @@ ("gone" :> Missing)
MCFiles == (Text("words", <<>>) :> <<S(<<"c">>), P(Text("low", <<>>))>>)

Flagged == {S(<<"c">>), S(<<"r">>), S(<<"k">>), S(<<"L">>), S(<<"n">>), S(<<"b">>), S(<<"b", "C">>),
            S(<<"D">>), S(<<"t">>), L(<<"ver">>), L(<<"very-verbose">>), L(<<"debug">>),
            L(<<"usage", "-all">>), L(<<"nothing">>), L(<<"help">>), S(<<"?">>), S(<<"x">>),
            SC(<<"c">>, Text("n", <<>>)), SC(<<>>, Text("n", <<>>))}
Valued == {S(<<"l">>), S(<<"i">>), S(<<"d">>), S(<<"a">>), S(<<"s">>), S(<<"p">>), S(<<"m">>), S(<<"e">>),
           S(<<"f">>), L(<<"start", "-iter">>), S(<<"l", "i">>), S(<<"o", "S">>), L(<<"lock-on">>),
           LC(<<"memory-limit">>, [Text("", <<2>>) EXCEPT !.after = "k"]),
           LC(<<"memory-limit">>, [Text("", <<2>>) EXCEPT !.after = "K"]),
           LC(<<"start", "-size">>, Text("", <<3>>)), LC(<<"interval">>, Text("", <<4>>)),
           LC(<<"argv", "-file">>, Text("words", <<>>)), L(<<"argv", "-file">>)}
Plains == {W("last"), P(Text("", <<1, 2>>)), P([Text("", <<1>>) EXCEPT !.x = TRUE, !.colon = <<5>>]),
           P(Text("low", <<>>)), P(Text("mine", <<>>)), P(Text("words", <<>>)), P(Text("gone", <<>>)),
           P(Text("log-trans", <<>>)), P(Text("a,log-trans", <<>>)),
           P([Text("file.c", <<>>) EXCEPT !.colon = <<7>>]), P([Text("file.c", <<>>) EXCEPT !.colon = <<0>>]),
           [S(<<"5">>) EXCEPT !.number = TRUE, !.text = Text("-", <<5>>)]}
Some == {S(<<"c">>), S(<<"r">>), S(<<"l">>), S(<<"i">>), S(<<"d">>), S(<<"l", "i">>), S(<<"s">>), S(<<"a">>),
         S(<<"p">>), S(<<"L">>), W("last")} \union Plains
All == Flagged \union Valued \union Plains
Line(words) == [argv |-> words, env |-> <<>>, globals |-> <<>>]
Setting(name, value) == [name |-> name, value |-> value]
Typed == {<<>>} \union {<<w>>: w \in All} \union (All \X All) \union (Some \X Some \X Some)
MCCommands ==
    {Line(words): words \in Typed}
    \union [argv: {<<w>>: w \in All}, env: {<<S(<<"c">>)>>, <<S(<<"l">>)>>, <<P(Text("low", <<>>))>>},
            globals: {<<>>, <<Setting("env", "after"), Setting("env", "odd")>>, <<Setting("env", "none")>>}]
    \union [argv: Some \X Some, env: {<<>>},
            globals: {<<Setting("multi", "reject"), Setting("multi", "odd")>>,
                      <<Setting("close", "off"), Setting("lasttog", "on"), Setting("other", "on")>>}]
MCStrings == {<<>>,
    <<Labelled("debug", HexText(6)), Labelled("start", [NoText EXCEPT !.lead = "file.c", !.colon = <<9>>]),
      Labelled("limit", DecText(8)), Path("log", "out")>>,
    <<Token("check-heap"), Token("unknown"), Labelled("addr", [HexText(17) EXCEPT !.colon = <<3>>]),
      Labelled("inter", DecText(10)), Labelled("start", [DecText(6) EXCEPT !.lead = "s"])>>,
    <<Labelled("lockon", DecText(2)), Labelled("start", DecText(8)), Labelled("other", NoText)>>}
=============================================================================
