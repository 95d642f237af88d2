------------------------------ MODULE MCCodecs ------------------------------
(* A small instance of Codecs: the symbols of each kind of input.           *)
EXTENDS Codecs

Arg(name, rest) == [name |-> name, rest |-> rest]
Add(key, value) == [op |-> "add", key |-> key, value |-> value]

JsonValues ==
    {Scalar("string", <<Quote, "x">>), Scalar("string", <<Backslash, "n">>),
     Scalar("number", <<"-", "1">>), Scalar("true", << >>),
     JsonArray(<< >>), JsonObject(<< >>)}

MCSymbols ==
    [uri |-> {<<Slash, Slash>>}
             \cup {<<c>> : c \in {Slash, Colon, Question, Hash, AtSign,
                                  97, 49}},
     params |-> {Separator}
                \cup {<<c>> : c \in {97, 50, Percent, Ampersand, Equals,
                                     Plus, Space, Semicolon, 233}},
     json |-> {Add(k, v) : k \in {<<"a">>, <<Quote>>}, v \in JsonValues}
              \cup {[op |-> "array"], [op |-> "object", key |-> <<"a">>]},
     messages |-> {Separator}
                  \cup {<<c>> : c \in {"x", "n", Quote, Backslash, LineFeed,
                                       Control, "u"}},
     events |-> {<<DataField, "x">>, <<EventField, "n", LF>>, <<CR>>, <<LF>>},
     args |-> {Arg("--datadir", ""), Arg("--datadir", "="),
               Arg("--pidfile", ""), Arg("--daemonize", ""), Arg("-V", ""),
               Arg("-V", "x"), Arg("x", ""), Empty}]

MCMaxLength ==
    [uri |-> 6, params |-> 5, json |-> 4, messages |-> 4, events |-> 7,
     args |-> 4]

\* Command lines alone.
ArgSymbols == [args |-> MCSymbols.args]
ArgMaxLength == [args |-> 4]
=============================================================================
