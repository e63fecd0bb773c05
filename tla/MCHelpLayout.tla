---------------------------- MODULE MCHelpLayout -----------------------------
(***************************************************************************)
(* Helps of parsers with some options, positionals, groups and commands,   *)
(* whose names and words are short, at the edge or too long.               *)
(***************************************************************************)
EXTENDS HelpLayout

Arg == [positional |-> FALSE, name |-> 0, grouped |-> FALSE, exclusive |-> FALSE,
        required |-> FALSE, action |-> "OTHER",
        options |-> <<[len |-> 6, short |-> FALSE], [len |-> 2, short |-> TRUE]>>,
        metavar |-> 0, choices |-> << >>, nargs |-> 1, valued |-> TRUE, dest |-> 4,
        help |-> <<5, 9, 7, 9, 8, 6, 9, 4, 9, 5, 8, 7, 9, 3>>,
        deprecated |-> FALSE, message |-> << >>, default |-> 0]

Short == [Arg EXCEPT !.metavar = 3, !.default = 4, !.nargs = ZERO_OR_ONE, !.required = TRUE]
Flag == [Arg EXCEPT !.exclusive = TRUE, !.valued = FALSE, !.deprecated = TRUE, !.help = << >>, !.grouped = TRUE]
Chosen == [Arg EXCEPT !.choices = <<4, 9, 5>>, !.help = <<30, 9, 9, 8>>,
                       !.deprecated = TRUE, !.message = <<3, 12>>]
Long == [Arg EXCEPT !.choices = <<31, 20, 8, 6>>, !.options = <<[len |-> 19, short |-> FALSE]>>]
Wide == [Arg EXCEPT !.metavar = 70, !.help = <<18, 18, 18, 45>>]
Silent == [Arg EXCEPT !.nargs = ONE_OR_MORE, !.help = << >>]
File == [Arg EXCEPT !.positional = TRUE, !.name = 11, !.options = << >>]
Quiet == [File EXCEPT !.help = << >>, !.name = 4, !.nargs = ZERO_OR_MORE]
Rest == [Quiet EXCEPT !.nargs = REMAINDER]
Help == [Arg EXCEPT !.action = "HELP", !.valued = FALSE, !.nargs = 0, !.help = <<4, 4, 7, 3, 4>>]
Version == [Help EXCEPT !.action = "VERSION"]
Either == [Arg EXCEPT !.exclusive = TRUE, !.dest = 66]

Group(args) == [title |-> 7, description |-> <<18, 12, 30, 12>>, args |-> args]
Command(n, words) == [name |-> n, description |-> words]

Page1(optionals, positionals, commands) ==
    [prog |-> 5, usage |-> 0, addHelp |-> Help \in ToSet(optionals), description |-> <<15, 15, 15, 42>>, epilog |-> << >>,
     positionals |-> positionals, optionals |-> optionals,
     exclusive |-> <<SelectSeq(optionals, LAMBDA a : a.exclusive), << >>>>,
     groups |-> <<Group(SelectSeq(optionals \o positionals, LAMBDA a : a.grouped)),
                  [Group(<< >>) EXCEPT !.description = << >>]>>,
     commands |-> commands, subparserMetavar |-> 0]

MCPage ==
    {Page1(<<a>>, positionals, << >>) :
        a \in {Short, Chosen, Long, Wide, Silent}, positionals \in {<<File>>, <<Quiet>>}}
      \cup {Page1(<<a, Flag>>, << >>, <<Command(6, <<9, 9, 9, 9, 9>>), Command(14, << >>)>>) :
               a \in {Short, Long}}
      \cup {Page1(<<Help, Version, Flag, Either>>, <<[File EXCEPT !.nargs = n], Rest>>, << >>) :
               n \in {ZERO_OR_ONE, ONE_OR_MORE}}
      \cup {[Page1(<<Help>>, << >>, << >>) EXCEPT !.usage = 70],
            [Page1(<<Help>>, << >>, <<Command(6, << >>)>>) EXCEPT !.subparserMetavar = 7]}

\* Those that are refused, those around the fallback column, and the usual one.
MCWidth == {39, 40, 45, 52, 63, 501}

Setting == {"", "0", "1"}
MCEnvironment ==
    [NO_COLOR : Setting, FORCE_COLOR : Setting, CLICOLOR : Setting, CLICOLOR_FORCE : Setting,
     tty : BOOLEAN]
=============================================================================
