------------------------------ MODULE MCConfig ------------------------------
(* Calls of the program, plugin paths and requests for Config.                *)
EXTENDS Config

(* fast and late both have a framing "lines", late replaces a builtin one.    *)
MCFramingPlugins ==
  [fast |-> {"json", "lines"}, late |-> {"lines", "newline"}, torn |-> {"json"}]

(* The backend of the repository, and others: one without the optional        *)
(* symbols, one of an older version, one that is no backend.                  *)
Plugin(symbols, current) == [symbols |-> symbols, current |-> current]
MCBackendPlugins ==
  [file |-> Plugin(Symbols, TRUE), bare |-> Plugin({"init", "query"}, TRUE),
   old |-> Plugin(Symbols, FALSE), half |-> Plugin({"init", "configure"}, TRUE)]
MCDamaged == {"torn"}
All == DOMAIN MCFramingPlugins \cup DOMAIN MCBackendPlugins
MCDirectories == {{}, All, All \ MCDamaged}

-----------------------------------------------------------------------------
Char(text) == [kind |-> "char", text |-> <<text>>]
Var(kind, name) == [kind |-> kind, text |-> name]
Endpoint == Var("endpoint", <<>>)
ByEndpoint == <<Endpoint, Char("x")>>
ByCookie == <<Var("cookie", <<"s">>), Char("x")>>
ByHeader == <<Char("h"), Var("header", <<"t">>), Char("x"), Endpoint>>
Unended == <<Char("z"), Var("open", <<"s", "x">>)>>
Fixed == <<Char("z")>>

Host(scheme, name, port) == [scheme |-> scheme, name |-> name, port |-> port]
Entry(host, proto, framing, config) ==
  [short |-> FALSE, host |-> host, proto |-> proto, framing |-> framing, config |-> config]
Short ==
  [short |-> TRUE, host |-> Host("tcp", "cut", {"1"}), proto |-> "", framing |-> {}, config |-> {}]
Pairs(paths, lines) == [p \in paths |-> lines]

MCFiles ==
  Pairs({<<"d", "/", "a", "x">>},
        <<Short, Entry(Host("tcp", "first", {"1"}), "p", {}, {}),
          Entry(Host("udp", "second", {"2"}), "*", {"json"}, {"c"})>>)
  @@ Pairs({<<"d", "/", "a", "_", "b", "x">>, <<"d", "/", "h", "a", "_", "a", "x", "c">>},
           <<Entry(Host("unix", "sock", {}), "q", {"newline"}, {}),
             Entry(Host("", "plain", {"3"}), "p", {"unheard"}, {})>>)
  @@ Pairs({<<"d", "/", "a", "/", "b", "x">>, <<"/", "z">>},
           <<Entry(Host("tcp", "outside", {"9"}), "*", {}, {})>>)
  @@ Pairs({<<"d", "/", "x">>}, <<Entry(Host("fifotx", "pipe", {}), "p", {}, {}),
                                  Entry(Host("tcp", "noport", {}), "q", {}, {})>>)
  @@ Pairs({<<"d", "/", "z">>}, <<Entry(Host("unix-dgram", "last", {}), "p", {"lines"}, {}),
                                  Entry(Host("tcp", "other", {"4"}), "Q", {"binary"}, {})>>)

Ask(endpoint, protocols, cookies, headers) ==
  [endpoint |-> endpoint, protocols |-> protocols, cookies |-> cookies, headers |-> headers]
Pair(name, value) == [name |-> name, value |-> value]
Long == [i \in 1 .. 30 |-> "l"]
MCRequests ==
  {Ask(<<"/", "a", "/">>, <<"q", "r">>, <<>>, <<>>),
   Ask(<<"/", "a">>, <<>>, <<>>, <<>>),
   Ask(<<"/", "a", "/", "b">>, <<"P", "p", "q">>, <<>>, <<>>),
   Ask(<<"/", "l">>, <<"p">>, <<Pair(<<"r">>, <<"z">>), Pair(<<"s">>, <<"a", "/", "b">>)>>, <<>>),
   Ask(<<"/">>, <<"q">>, <<Pair(<<"s">>, <<>>)>>, <<Pair(<<"t">>, <<"a", "/", "a">>)>>),
   Ask(<<"/", "c", "/">>, <<"p", "q">>, <<Pair(<<"s">>, Long)>>,
       <<Pair(<<"u">>, <<"z">>), Pair(<<"t">>, <<"a", "/", "a">>)>>),
   Ask(<<"/", "l">>, <<"Q">>, <<Pair(<<"s">>, <<>>), Pair(<<"r">>, <<"z">>)>>, <<>>),
   Ask(<<"/", "l">>, <<>>, <<>>, <<Pair(<<"u">>, <<"z">>)>>)}
MCLower == [p |-> "p", q |-> "q", r |-> "r", P |-> "p", Q |-> "q"] @@ ("*" :> "*")

-----------------------------------------------------------------------------
(* Options, with the section they are of.                                     *)
Option(kind, key, value) == [kind |-> kind, key |-> key, value |-> value]
Load(name) == Option("core", "backend", name)
Backend(key, value) == Option("backend", key, value)
Options0 ==
  <<Option("core", "port", "80"), Option("core", "unheard", "1"),
    Load("file"), Load("bare"), Load("old"), Load("half"), Load("nosuch"), Load("fast"),
    Backend("path", <<"d", "/">>), Backend("path", <<"d">>), Backend("expression", ByEndpoint),
    Backend("expression", Fixed),
    Backend("host", Host("udp", "peer", {})), Backend("host", Host("", "peer", {"7"})),
    Backend("port", "6000"), Backend("protocol", "P"), Backend("protocol", "*"),
    Backend("framing", "lines"), Backend("framing-config", "c"),
    Option("malformed", "", "")>>
Full == <<Load("file"), Backend("path", <<"d", "/">>), Backend("expression", Unended),
          Backend("expression", ByEndpoint), Backend("expression", ByCookie),
          Backend("expression", ByHeader), Backend("expression", Fixed)>>

(* In a file each option stands under a header of its own, unless it is the   *)
(* first and a core option.                                                   *)
FileLines(list) ==
  FlattenSeq([i \in DOMAIN list |->
     LET option == Option("option", list[i].key, list[i].value)
         before == IF i = 1 THEN "core" ELSE list[i - 1].kind
     IN IF list[i].kind = before THEN <<option>>
        ELSE <<Option(IF list[i].kind = "core" THEN "[core]" ELSE "[backend]", "", ""), option>>])

(* Every two options, alone or behind a full configuration of file.           *)
MCConfigurations ==
  [x \in {"file", "arguments"} \X BOOLEAN \X (0 .. Len(Options0)) \X (0 .. Len(Options0)) |->
     LET list == (IF x[2] THEN Full ELSE <<>>)
                   \o SubSeq(Options0, x[3], IF x[3] = 0 THEN -1 ELSE x[3])
                   \o SubSeq(Options0, x[4], IF x[4] = 0 THEN -1 ELSE x[4])
     IN [source |-> x[1], lines |-> IF x[1] = "file" THEN FileLines(list) ELSE list]]

-----------------------------------------------------------------------------
(* For each kind of expression, and for all of them together, some of these   *)
(* requests are as the documentation takes them to be and have an answer.     *)
ASSUME Plain ==
  \A expressions \in {<<ByEndpoint>>, <<ByCookie>>, <<ByHeader>>, <<Fixed>>,
                      <<Unended, ByEndpoint, ByCookie, ByHeader, Fixed>>} :
    \E request \in MCRequests : /\ PlainQuery(<<"d">>, expressions, request)
                                /\ DocAnswer(<<"d">>, expressions, request) # {}
=============================================================================
