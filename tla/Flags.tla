------------------------------- MODULE Flags -------------------------------
(***************************************************************************)
(* FlagParser::parseArgv and the flags that main defines.  An argument is  *)
(* a name and the text behind it: --datadir= has the name --datadir and    *)
(* the rest =.                                                             *)
(***************************************************************************)
EXTENDS Naturals, Sequences, SequencesExt, FiniteSetsExt

CONSTANT FlagName      \* the flags that the arguments name

NoShort == "NULL"
Flag(long, type, required, short) ==
    [long |-> long, type |-> type, required |-> required, short |-> short]

\* The flags of main, of which those in FlagName are defined.
AllFlags ==
    <<Flag("--listen_http", "string", TRUE, NoShort),
      Flag("--datadir", "string", TRUE, NoShort),
      Flag("--disklimit", "string", FALSE, NoShort),
      Flag("--disklimit_disk", "string", FALSE, NoShort),
      Flag("--loglevel", "string", FALSE, NoShort),
      Flag("--daemonize", "switch", FALSE, NoShort),
      Flag("--pidfile", "string", FALSE, NoShort),
      Flag("--log_to_syslog", "switch", FALSE, NoShort),
      Flag("--nolog_to_stderr", "switch", FALSE, NoShort),
      Flag("--help", "string", FALSE, "-?"),
      Flag("--version", "switch", FALSE, "-V")>>
FlagTable == SelectSeq(AllFlags, LAMBDA f : f.long \in FlagName)

Empty == [name |-> "", rest |-> ""]

\* A long option is compared as a whole, with or without an equals sign; a
\* short one is any argument that begins with it.
Matches(f, arg) == \/ arg.name = f.long /\ arg.rest \in {"", "="}
                   \/ f.short # NoShort /\ arg.name = f.short

FlagsOf(arg) == {i \in DOMAIN FlagTable : Matches(FlagTable[i], arg)}
IsFlag(arg) == FlagsOf(arg) # {}
FlagOf(arg) == FlagTable[Min(FlagsOf(arg))]

\* The argument --flag= : nothing can follow the equals sign.
HasEquals(arg) == arg.name = FlagOf(arg).long /\ arg.rest = "="

NoValues == [status |-> "ok", argv |-> << >>, values |-> << >>]
AddValue(r, f, v) == [r EXCEPT !.values = Append(@, <<f.long, v>>)]
ValuesOf(r, long) == SelectSeq(r.values, LAMBDA v : v[1] = long)

(***************************************************************************)
(* The value of a switch is recorded with its short option, which is NULL  *)
(* where it has none: std::string(NULL) throws, and nothing catches it.    *)
(***************************************************************************)
ParseSwitch(r, f) ==
    IF f.short = NoShort THEN [r EXCEPT !.status = "abort"]
    ELSE AddValue(r, f, Empty)

\* Mutant: the value of a flag is then read as an argument, too.
ParseNextRereads(r, args) ==
    LET arg == args[1]
        f == FlagOf(arg)
    IN  CASE arg = Empty -> <<r, 1>>
          [] arg # Empty /\ ~IsFlag(arg) ->
                <<[r EXCEPT !.argv = Append(@, arg)], 1>>
          [] arg # Empty /\ IsFlag(arg) /\ f.type = "switch" ->
                <<ParseSwitch(r, f), 1>>
          [] OTHER -> <<AddValue(r, f, IF Len(args) > 1 THEN args[2]
                                       ELSE Empty), 1>>

\* One round of the loop: the result and how many arguments it took.
ParseNext(r, args) ==
    LET arg == args[1]
        f == FlagOf(arg)
    IN  CASE arg = Empty -> <<r, 1>>
          [] arg # Empty /\ ~IsFlag(arg) ->
                <<[r EXCEPT !.argv = Append(@, arg)], 1>>
          [] arg # Empty /\ IsFlag(arg) /\ f.type = "switch" ->
                <<ParseSwitch(r, f), 1>>
          [] arg # Empty /\ IsFlag(arg) /\ f.type # "switch" ->
                CASE HasEquals(arg) -> <<[r EXCEPT !.status = "error"], 1>>
                  [] ~HasEquals(arg) /\ Len(args) > 1 ->
                        <<AddValue(r, f, args[2]), 2>>
                  [] ~HasEquals(arg) /\ Len(args) = 1 /\ ~f.required ->
                        <<AddValue(r, f, Empty), 1>>
                  [] OTHER -> <<[r EXCEPT !.status = "error"], 1>>

RECURSIVE ParseFrom(_, _)
ParseFrom(r, args) ==
    IF args = << >> \/ r.status # "ok" THEN r
    ELSE LET next == ParseNext(r, args)
         IN  ParseFrom(next[1], SubSeq(args, next[2] + 1, Len(args)))

\* Required flags are asked for last, whatever other flags are there.
ParseArgv(args) ==
    LET r == ParseFrom(NoValues, args) IN
    IF r.status = "ok" /\ \E i \in DOMAIN FlagTable :
          FlagTable[i].required /\ ValuesOf(r, FlagTable[i].long) = << >>
    THEN [r EXCEPT !.status = "error"]
    ELSE r

\* getString of a flag without a default: the last value, or nothing.
GetString(r, long) ==
    LET v == ValuesOf(r, long)
    IN  IF v = << >> THEN Empty ELSE Last(v)[2]

=============================================================================
