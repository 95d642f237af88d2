------------------------------- MODULE Codecs -------------------------------
(***************************************************************************)
(* What the readers and writers of the other modules make of every short   *)
(* input: an input grows by one symbol at a time, in each of the languages *)
(* they are for, and the properties relate what is read to what is         *)
(* written.  The kind "broker" is for a module that runs something else    *)
(* beside them.                                                            *)
(***************************************************************************)
EXTENDS Uri, Json, EventStream, Flags

CONSTANTS
    Symbols,       \* per kind of input: what it is made of
    MaxLength      \* bound, per kind of input: its length

ASSUME CodecsAssumption ==
    /\ DOMAIN Symbols \subseteq
           {"uri", "params", "json", "messages", "events", "args", "broker"}
    /\ MaxLength \in [DOMAIN Symbols -> Nat]

VARIABLES kind, input

codecVars == <<kind, input>>

CodecInit == kind \in DOMAIN Symbols /\ input = << >>

Grow ==
    /\ Len(input) < MaxLength[kind]
    /\ \E s \in Symbols[kind] : input' = Append(input, s)
    /\ UNCHANGED kind

CodecSpec == CodecInit /\ [][Grow]_codecVars

-----------------------------------------------------------------------------
(* Properties                                                              *)

\* In the inputs that are lists this symbol ends an item.
Separator == << >>

Items ==
    FoldLeft(LAMBDA items, s :
                IF s = Separator THEN Append(items, << >>)
                ELSE Append(Front(items), Last(items) \o s),
             << << >> >>, input)

\* No part of a URI has a character that ends it.
PartsEnd(u) ==
    /\ ToSet(u.scheme) \cap {Slash, Colon} = {}
    /\ ToSet(u.userinfo) \cap {Slash, Question, Hash, AtSign} = {}
    /\ ToSet(u.host) \cap {Slash, Question, Hash, Colon} = {}
    /\ ToSet(u.path) \cap {Question, Hash} = {}
    /\ Hash \notin ToSet(u.query)

\* toString leaves out an empty userinfo, and without a host the userinfo and
\* the port; it writes a path with two slashes as if it were a host.
Writable(u) ==
    /\ u.userinfo = << >> => AtSign \notin ToSet(u.host)
    /\ u.host = << >> =>
          /\ u.userinfo = << >> /\ u.port = 0
          /\ ~IsPrefix(<<Slash, Slash>>, u.path)

\* parseURI takes a text apart at its delimiters, and finds the same parts
\* again in what toString makes of them: a channel's path cannot pass into
\* the host or the query, whatever order the delimiters come in.
UriParts ==
    kind = "uri" =>
        LET u == ParseURI(FlattenSeq(input)) IN
        /\ PartsEnd(u)
        /\ Writable(u) => ParseURI(UriToString(u)) = u

\* The items in pairs, a last one without a partner left out.
Pairs == [i \in 1 .. Len(Items) \div 2 |-> <<Items[2 * i - 1], Items[2 * i]>>]

JoinCookies(params) ==
    FlattenSeq([i \in DOMAIN params |->
                  (IF i > 1 THEN <<Semicolon, Space>> ELSE << >>)
                  \o MkCookie(params[i][1], params[i][2])])

\* Names and values of any bytes come back from a query string and from a
\* cookie header as they went in; only an empty name ends a query string.
ParamsSurvive ==
    kind = "params" =>
        /\ (\A i \in DOMAIN Pairs : Pairs[i][1] # << >>) =>
              ParseQueryString(BuildQueryString(Pairs)) = Pairs
        /\ ParseCookieHeader(JoinCookies(Pairs)) = Pairs

\* A value from its building steps: an element or property is added, or the
\* value becomes one of a new container.
BuildStep(v, step) ==
    CASE step.op = "array" -> JsonArray(<<v>>)
      [] step.op = "object" -> JsonObject(<< <<step.key, v>> >>)
      [] step.op = "add" /\ v.type = "array" ->
            JsonArray(Append(v.elements, step.value))
      [] OTHER -> SetProperty(v, step.key, step.value)

\* A value that writeJSON wrote is the one that readJSON reads, however
\* containers nest.
JsonSurvives ==
    kind = "json" =>
        LET v == FoldLeft(BuildStep, JsonArray(<< >>), input)
        IN  ReadJSON(WriteJSON(v)) = v

\* The messages of the items, as fetchMessages returns them.
Messages ==
    [i \in DOMAIN Items |->
        [offset |-> 9 * i, next_offset |-> 9 * (i + 1), data |-> Items[i]]]

MessageOf(o) ==
    [offset |-> GetProperty(o, <<"offset">>, Fails).text,
     next_offset |-> GetProperty(o, <<"next_offset">>, Fails).text,
     data |-> GetProperty(o, <<"data">>, Fails).text]

\* What a client reads in the body of a fetch are the messages, with their
\* offsets, whatever quotes, backslashes and line ends are in them; a control
\* character without an escape of its own is lost in the reader.
MessagesSurvive ==
    kind = "messages" =>
        LET v == ReadJSON(ToJSON(Messages)) IN
        /\ v.type = "array" /\ Len(v.elements) = Len(Messages)
        /\ \A i \in DOMAIN Messages :
              MessageOf(v.elements[i]) =
                  [offset |-> ToText(Messages[i].offset),
                   next_offset |-> ToText(Messages[i].next_offset),
                   data |-> SelectSeq(Messages[i].data,
                                      LAMBDA c : c # Control)]

EventsOf(s) == SSEParse(NewParser, s).events

\* The events of a stream do not depend on the pieces it arrives in, not even
\* when a CR LF is cut in two in front of another event, and all of them, with
\* their names, survive being sent again one after the other.
EventsSurvive ==
    kind = "events" =>
        LET text == FlattenSeq(input)
            events == EventsOf(text)
        IN
        /\ \A i \in 1 .. Len(text) - 1 :
              LET first == SSEParse(NewParser, SubSeq(text, 1, i)) IN
              \A j \in i + 1 .. Len(text) :
                  LET second == SSEParse(first, SubSeq(text, i + 1, j)) IN
                  SSEParse(second, SubSeq(text, j + 1, Len(text))).events
                      = events
        /\ EventsOf(FlattenSeq([i \in DOMAIN events |-> SendEvent(events[i])]))
              = events

\* Where an argument is a flag, and not the value of the flag before it.
FlagAt(args) ==
    LET at[i \in 0 .. Len(args)] ==
            /\ i > 0 /\ IsFlag(args[i])
            /\ at[i - 1] => FlagOf(args[i - 1]).type = "switch"
    IN  {i \in 1 .. Len(args) : at[i]}

TakesValue(args, i) ==
    i \in FlagAt(args) /\ FlagOf(args[i]).type # "switch"

\* The arguments at the places of a set.
ArgsAt(args, places) ==
    [i \in 1 .. Cardinality(places) |->
        LET at == CHOOSE j \in places :
                      Cardinality({k \in places : k < j}) = i - 1
        IN  IF at <= Len(args) THEN args[at] ELSE Empty]

\* Every value is there, and no switch aborts.
Sound(args) ==
    \A i \in FlagAt(args) :
        IF TakesValue(args, i)
        THEN ~HasEquals(args[i]) /\ (i = Len(args) => ~FlagOf(args[i]).required)
        ELSE FlagOf(args[i]).short # NoShort

\* A command line that parses is taken apart without a loss: each argument is
\* a flag, the value of the flag before it, even one that looks like a flag,
\* or left over, and getString returns the last value.  It parses when it is
\* sound and has the required flags; whether those that ask for the version
\* or the help need the required flags is the matter of VersionShown.
FlagsAgree ==
    kind = "args" =>
        LET r == ParseArgv(input)
            flags == FlagAt(input)
            left == {i \in 1 .. Len(input) :
                        /\ i \notin flags /\ input[i] # Empty
                        /\ i > 1 => ~TakesValue(input, i - 1)}
            places(long) == {i \in flags : FlagOf(input[i]).long = long}
            missing == {i \in DOMAIN FlagTable :
                           /\ FlagTable[i].required
                           /\ places(FlagTable[i].long) = {}}
            exits == places("--version") \cup places("--help")
            values(long) ==
                ArgsAt(input, {i + 1 : i \in {p \in places(long) :
                                                 TakesValue(input, p)}})
        IN
        /\ Sound(input) /\ missing = {} => r.status = "ok"
        /\ r.status = "ok" => Sound(input) /\ (missing = {} \/ exits # {})
        /\ r.status = "ok" =>
              /\ r.argv = ArgsAt(input, left)
              /\ \A i \in DOMAIN FlagTable :
                    LET long == FlagTable[i].long IN
                    GetString(r, long) = IF values(long) = << >> THEN Empty
                                         ELSE Last(values(long))

\* The switches that the help text names can be given.
SwitchesAccepted ==
    kind = "args" => ParseArgv(input).status # "abort"

\* -V alone, or --help alone, is a command line that main can answer: the help
\* text says that they print the version or the help and exit.
VersionShown ==
    kind = "args" /\ Len(input) = 1 /\ IsFlag(input[1])
    /\ FlagOf(input[1]).long \in {"--version", "--help"}
    /\ input[1].rest = "" =>
        ParseArgv(input).status = "ok"

=============================================================================
