---------------------------- MODULE MCParseArgs -----------------------------
(***************************************************************************)
(* Instances of ParseArgs for TLC: two options, a help option and two      *)
(* positionals, configured in many ways, and every short command line over *)
(* a small alphabet.                                                       *)
(***************************************************************************)
EXTENDS ParseArgs, SequencesExt

MCArg == {"help", "a", "b", "x", "y"}
MCDest == {"help", "a", "b", "x", "y", "cmd"}
MCGroupId == {0}

\* "v" is a plain word, "7" an integer and "-7" reads as a negative number.
MCWord == {"--", "v", "7", "-7", "--aa", "--ab", "--a", "--aa=7", "-a", "-b",
           "-ab", "-ba", "--help"}

Plain(k) == [kind |-> k, name |-> NoWord, value |-> NoWord, chars |-> << >>]
Named(k, n) == [Plain(k) EXCEPT !.name = n]

MCTokenOf ==
    [w \in MCWord |->
        CASE w = "--" -> Plain("STOP")
          [] w \in {"v", "7"} -> Plain("POSITIONAL")
          [] w \in {"-7", "-a", "-b"} -> Named("SHORT_OPTION", w)
          [] w \in {"--aa", "--ab", "--a", "--help"} -> Named("LONG_OPTION", w)
          [] w = "--aa=7" -> [Named("LONG_OPTION_EQ", "--aa") EXCEPT !.value = "7"]
          [] w = "-ab" -> [Plain("SHORT_OPTION_BUNDLE") EXCEPT !.chars = <<"-a", "-b">>]
          [] w = "-ba" -> [Plain("SHORT_OPTION_BUNDLE") EXCEPT !.chars = <<"-b", "-a">>]]

MCAbbreviates == {<<"--a", "--aa">>, <<"--a", "--ab">>}
MCNegativeNumber == {"-7"}
MCConvertible ==
    [t \in Type |-> CASE t = "string" -> MCWord
                      [] t = "bool" -> {}
                      [] t = "unregistered" -> {}
                      [] OTHER -> {"7", "-7"}]
MCNumberOf == [w \in MCWord |-> CASE w = "7" -> 7 [] w = "-7" -> -7 [] OTHER -> 0]

-----------------------------------------------------------------------------
\* What clap_add_argument makes of an argument, before any setter.
Default(d, names) ==
    [names |-> names, action |-> "STORE", nargs |-> 1, dest |-> d,
     type |-> "string", choices |-> {}, required |-> names = {},
     default |-> NoWord, const |-> NoWord, group |-> NoGroup, handler |-> FALSE,
     requires |-> {}, conflicts |-> {}]

OptA == Default("a", {"--aa", "-a"})
OptB == Default("b", {"--ab", "-b"})
PosX == Default("x", {})
PosY == Default("y", {})
Help == [Default("help", {"--help"}) EXCEPT !.action = "HELP"]

\* A parser with these two options and these positionals of x and y.
Configured(a, b, x, y, positionals) ==
    [arguments     |-> <<"help", "a", "b">> \o positionals,
     optionals     |-> <<"help", "a", "b">>,
     positionals   |-> positionals,
     spec          |-> [n \in MCArg |-> CASE n = "help" -> Help [] n = "a" -> a
                                          [] n = "b" -> b [] n = "x" -> x
                                          [] n = "y" -> y],
     groups        |-> {}, requiredGroups |-> {}, allowAbbrev |-> FALSE,
     commands      |-> {}, commandDest |-> "cmd"]

\* Flags that exclude each other, one of them required, abbreviated freely.
Flags ==
    [Configured([OptA EXCEPT !.action = "STORE_TRUE", !.group = 0],
                [OptB EXCEPT !.action = "COUNT", !.group = 0],
                PosX, [PosY EXCEPT !.nargs = ZERO_OR_MORE], <<"x", "y">>)
     EXCEPT !.groups = {0}, !.requiredGroups = {0}, !.allowAbbrev = TRUE]

\* Single values with choices, types, defaults and dependencies.
Values ==
    Configured([OptA EXCEPT !.choices = {"7", "-7"}, !.requires = {"b"}],
               [OptB EXCEPT !.type = "int", !.default = "7", !.conflicts = {"x"}],
               [PosX EXCEPT !.nargs = ZERO_OR_ONE], PosY, <<"x">>)

\* Options and a positional of two values each.
Pairs ==
    Configured([OptA EXCEPT !.nargs = 2, !.action = "APPEND", !.required = TRUE],
               [OptB EXCEPT !.action = "COUNT"],
               [PosX EXCEPT !.nargs = 2, !.action = "APPEND"],
               [PosY EXCEPT !.nargs = ZERO_OR_ONE], <<"x", "y">>)

\* Required options that take no value, one with a default, and a positional of
\* two words.
Counts ==
    Configured([OptA EXCEPT !.action = "STORE_CONST", !.const = "7", !.required = TRUE,
                            !.default = "v"],
               [OptB EXCEPT !.action = "COUNT", !.required = TRUE],
               [PosX EXCEPT !.nargs = 2], PosY, <<"x">>)

\* The rest of the line, to an option and to a positional.
Rests ==
    Configured([OptA EXCEPT !.nargs = REMAINDER, !.action = "APPEND"],
               [OptB EXCEPT !.nargs = ZERO_OR_ONE, !.default = "v"],
               [PosX EXCEPT !.nargs = ZERO_OR_ONE], [PosY EXCEPT !.nargs = REMAINDER],
               <<"x", "y">>)

\* Values taken by several letters of a bundle, and a list that must not be empty.
Bundles ==
    Configured([OptA EXCEPT !.type = "int", !.default = "7"],
               [OptB EXCEPT !.nargs = 2, !.action = "APPEND", !.choices = {"7", "v"}],
               [PosX EXCEPT !.nargs = ONE_OR_MORE, !.choices = {"v"}], PosY, <<"x">>)

\* Constants, a client's handler, and options that must not come together.
Constants ==
    Configured([OptA EXCEPT !.action = "APPEND_CONST", !.const = "v",
                            !.conflicts = {"b"}],
               [OptB EXCEPT !.action = "CUSTOM", !.handler = TRUE],
               [PosX EXCEPT !.nargs = ZERO_OR_ONE, !.default = "v"], PosY, <<"x">>)

\* An option and a positional that share a key, and a default that cannot convert.
Shared ==
    Configured([OptA EXCEPT !.action = "APPEND", !.dest = "x"],
               [OptB EXCEPT !.type = "int", !.default = "v"],
               [PosX EXCEPT !.nargs = 2, !.action = "APPEND"], PosY, <<"x">>)

\* Required values that are not strings, and an option with the rest of the line
\* left at the default action.
Typed ==
    Configured([OptA EXCEPT !.nargs = REMAINDER],
               [OptB EXCEPT !.type = "int", !.required = TRUE],
               [PosX EXCEPT !.nargs = REMAINDER, !.choices = {"7"}], PosY, <<"x">>)

\* Two values, and the rest of the line, for options and nothing required.
Loose ==
    Configured([OptA EXCEPT !.nargs = 2, !.action = "APPEND"],
               [OptB EXCEPT !.nargs = REMAINDER],
               [PosX EXCEPT !.nargs = ZERO_OR_MORE], PosY, <<"x">>)

\* Subcommands, with required and defaulted options of the parent.
Commands ==
    [Configured([OptA EXCEPT !.required = TRUE],
                [OptB EXCEPT !.action = "STORE_FALSE", !.requires = {"y"}],
                PosX, PosY, << >>)
     EXCEPT !.commands = {"v"}]

MCParsers == [flags |-> Flags, values |-> Values, pairs |-> Pairs, counts |-> Counts,
              rests |-> Rests, bundles |-> Bundles, constants |-> Constants,
              shared |-> Shared, typed |-> Typed, loose |-> Loose, commands |-> Commands]
MCParserId == DOMAIN MCParsers

\* Up to three words of any kind, or four or five of the kinds that interact most.
MCLines ==
    BoundedSeq({"--", "v", "7", "-7", "--aa", "--ab", "--a", "--aa=7", "-ab", "-ba",
                "--help"}, 3)
    \cup BoundedSeq({"--", "v", "7", "--aa", "-ab"}, 4)
    \cup BoundedSeq({"v", "--aa", "-ab"}, 5)

\* A subcommand fails, prints its help, or returns values of its own.
MCSubReturns ==
    {[result |-> "ERROR", error |-> "UNRECOGNIZED", ns |-> NewNamespace],
     [result |-> "HELP", error |-> "NONE", ns |-> NewNamespace],
     [result |-> "SUCCESS", error |-> "NONE",
      ns |-> [NewNamespace EXCEPT !["y"] = StringValue("7"),
                                  !["a"] = StringValue("7")]],
     [result |-> "SUCCESS", error |-> "NONE", ns |-> NewNamespace]}
=============================================================================
