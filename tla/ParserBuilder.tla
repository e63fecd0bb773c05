--------------------------- MODULE ParserBuilder ----------------------------
(***************************************************************************)
(* How a client builds a parser: clap_parser.c, clap_argument.c, the group *)
(* modules, the two functions of clap_dependency.c that register one, and  *)
(* the registration of subcommands.  A call is one step, each allocation   *)
(* of it may fail, and the blocks that Allocator counts are the ones the   *)
(* parser and its arguments own.  A subparser is a single block here: its  *)
(* contents are those of another parser.                                   *)
(***************************************************************************)
EXTENDS Allocator, SequencesExt

CONSTANTS
    ArgId,            \* argument objects, each allocated at most once
    Help,             \* the one of them that clap_parser_new makes
    ArgCapacity,      \* arg_capacity of a new parser (8 in the source)
    GroupCapacity,    \* arg_capacity of a new group (4 in the source)
    MaxDependencies,  \* CLAP_MAX_DEPENDENCIES (16 in the source)
    Nargs,            \* what a client passes to clap_argument_nargs
    MutexId,          \* what it passes to clap_argument_mutex_group
    Action,           \* what it passes to clap_argument_action
    Text,             \* the texts it sets: help, metavar, type, dest, default, const
    TypeName,         \* the types it registers
    NoName,           \* a copy of a type name that failed: NULL
    MaxCalls,         \* bound: the calls that build the parser
    MaxFailures       \* bound: the allocations of a run that fail

ASSUME BuilderAssumption ==
    /\ Help \in ArgId
    /\ {ArgCapacity, GroupCapacity, MaxDependencies} \subseteq Nat \ {0}
    /\ Nargs \cup MutexId \subseteq Int
    /\ {"STORE", "APPEND", "HELP"} \subseteq Action
    /\ IsFiniteSet(Text) /\ "help" \in Text
    /\ NoName \notin TypeName \cup {"string", "int", "float", "bool"}
    /\ MaxCalls \in Nat \ {0} /\ MaxFailures \in Nat

VARIABLES
    p,         \* the parser and the arguments
    result,    \* what the last call returned
    crashed,   \* a NULL pointer was used
    calls,     \* history: how many calls the client has made
    failures,  \* history: how many allocations have failed
    chosen     \* history: the arguments whose mutex group id the client set itself

vars == <<p, result, crashed, calls, failures, chosen, allocator>>

-----------------------------------------------------------------------------
REMAINDER == -1
ZERO_OR_ONE == -3
ZERO_OR_MORE == -4
ONE_OR_MORE == -5
NONE == -1           \* CLAP_MUTEX_GROUP_NONE, CLAP_DISPLAY_GROUP_NONE

Kind == {"mutex", "display"}
Flag == {"POSITIONAL", "OPTIONAL", "REQUIRED", "MULTIPLE", "DEPRECATED"}
Owned == {"name", "dest", "type", "deprecated"} \cup Text

(***************************************************************************)
(* clap_argument_s.  strings, choices count the strings in these arrays;   *)
(* choiceArray and depArray tell whether the arrays are there, and         *)
(* freed that clap_argument_free has released the argument.                *)
(***************************************************************************)
Argument ==
    [flags : SUBSET Flag, nargs : Int, action : Action, group : [Kind -> Int],
     texts : SUBSET Owned, strings : Nat, choices : Nat, choiceArray : BOOLEAN,
     deps : Seq([type : {"REQUIRES", "CONFLICTS"}, target : ArgId]),
     depArray : BOOLEAN, made : BOOLEAN, freed : BOOLEAN]

NoArgument ==
    [flags |-> {}, nargs |-> 1, action |-> "STORE", group |-> [k \in Kind |-> NONE],
     texts |-> {}, strings |-> 0, choices |-> 0, choiceArray |-> FALSE,
     deps |-> << >>, depArray |-> FALSE, made |-> FALSE, freed |-> FALSE]

Group == [id : Nat, args : Seq(ArgId), capacity : Nat, titled : BOOLEAN]

\* What clap_register_builtin_types registers; its allocations do not fail here.
Builtin == <<"string", "int", "float", "bool">>

Array == {"positionals", "optionals", "mutex", "display", "types", "commands"}

(***************************************************************************)
(* clap_parser_s, and the arguments it points to.  arrays holds the arrays *)
(* a clap_realloc has given it, texts its own strings, commands the        *)
(* parsers in its container.                                               *)
(***************************************************************************)
Parser ==
    [live : BOOLEAN, arg : [ArgId -> Argument], args : Seq(ArgId), capacity : Nat,
     positionals : Seq(ArgId), optionals : Seq(ArgId), addHelp : BOOLEAN,
     groups : [Kind -> Seq(Group)], next : [Kind -> Nat],
     types : Seq(ToSet(Builtin) \cup TypeName \cup {NoName}), arrays : SUBSET Array,
     texts : SUBSET {"prog", "dest"}, hasSubparsers : BOOLEAN, container : BOOLEAN,
     commands : Nat]

NoParser ==
    [live |-> FALSE, arg |-> [x \in ArgId |-> NoArgument], args |-> << >>, capacity |-> 0,
     positionals |-> << >>, optionals |-> << >>, addHelp |-> TRUE,
     groups |-> [k \in Kind |-> << >>], next |-> [k \in Kind |-> 0],
     types |-> << >>, arrays |-> {}, texts |-> {}, hasSubparsers |-> FALSE,
     container |-> FALSE, commands |-> 0]

-----------------------------------------------------------------------------
(***************************************************************************)
(* What a call does, given the set of its allocations that fail: the       *)
(* parser it leaves, the allocations it tried, the blocks it made and      *)
(* released, whether it succeeded, and whether it used a NULL pointer.     *)
(***************************************************************************)
Outcome(q, ok) == [p |-> q, ok |-> ok, tried |-> {}, made |-> 0, freed |-> 0, crash |-> FALSE]

One(condition) == IF condition THEN 1 ELSE 0

\* clap_realloc of an array that may be NULL: one block more the first time.
ArrayOf(q, array) == [q EXCEPT !.arrays = @ \cup {array}]
NewArray(q, array) == One(array \notin q.arrays)

Usable(q, x) == q.arg[x].made /\ ~q.arg[x].freed

(***************************************************************************)
(* What a client names an argument: a positional, or so many option        *)
(* strings; without any the name is empty, which is refused.               *)
(***************************************************************************)
Name == [positional : BOOLEAN, parts : 0..2]

\* The new argument, as parse_name_or_flags leaves it.
Parsed(spec, fails) ==
    [NoArgument EXCEPT
        !.made = TRUE,
        !.flags = IF spec.positional THEN {"POSITIONAL", "REQUIRED"} ELSE {"OPTIONAL"},
        !.strings = IF spec.positional THEN One("option" \notin fails) ELSE spec.parts,
        !.texts = {"name", "dest", "type"} \ fails]

\* Its place in parser->positional_args or parser->optional_args.
Indexed(q, x, spec) ==
    IF spec.positional
    THEN [ArrayOf(q, "positionals") EXCEPT !.positionals = Append(@, x)]
    ELSE [ArrayOf(q, "optionals") EXCEPT !.optionals = Append(@, x)]

(***************************************************************************)
(* clap_add_argument.  A name that cannot be parsed releases the argument  *)
(* and its type, but neither the array of option strings nor the strings   *)
(* already in it.                                                          *)
(***************************************************************************)
Added(q, x, spec, fails) ==
    LET full  == Len(q.args) >= q.capacity
        room  == IF full THEN [q EXCEPT !.capacity = 2 * @] ELSE q
        a     == Parsed(spec, fails)
        kept  == [room EXCEPT !.arg[x] = a, !.args = Append(@, x)]
        array == IF spec.positional THEN "positionals" ELSE "optionals"
        owned == 2 + a.strings + Cardinality(a.texts)
        tried == {"argument", "type"} \cup (IF full THEN {"room"} ELSE {})
        lost  == {1 + i : i \in 0..(spec.parts - 1)}
    IN  CASE full /\ "room" \in fails -> {[Outcome(q, FALSE) EXCEPT !.tried = {"room"}]}
          [] ~(full /\ "room" \in fails) /\ "argument" \in fails ->
                 {[Outcome(room, FALSE) EXCEPT !.tried = tried \ {"type"}]}
          [] fails \cap {"room", "argument"} = {} /\ spec.parts = 0 ->
                 {[Outcome(room, FALSE) EXCEPT !.tried = tried]}
          [] fails \cap {"room", "argument"} = {} /\ spec.parts > 0 /\ "strings" \in fails ->
                 {[Outcome(room, FALSE) EXCEPT !.tried = tried \cup {"strings"}]}
          [] fails \cap {"room", "argument", "strings"} = {} /\ spec.parts > 0
             /\ ~spec.positional /\ "option" \in fails ->
                 {[Outcome(room, FALSE) EXCEPT !.tried = tried \cup {"strings", "option"},
                                               !.made = n] : n \in lost}
          [] OTHER ->
                 {[Outcome(IF "index" \in fails THEN kept ELSE Indexed(kept, x, spec), TRUE)
                   EXCEPT !.tried = tried \cup {"strings", "option", "name", "dest", "index"},
                          !.made = owned + (IF "index" \in fails THEN 0
                                            ELSE NewArray(q, array))]}

\* clap_add_argument(parser, "--help/-h") with its text and its action.
HelpName == [positional |-> FALSE, parts |-> 2]
HelpAdded(q, x, fails) ==
    {IF ~o.ok THEN o
     ELSE [o EXCEPT !.p.arg[x].action = "HELP",
                    !.p.arg[x].texts = @ \cup ({"help"} \ fails),
                    !.tried = @ \cup {"help"},
                    !.made = @ + One("help" \notin fails)] : o \in Added(q, x, HelpName, fails)}

-----------------------------------------------------------------------------
(***************************************************************************)
(* Settings of an argument.                                                *)
(***************************************************************************)
\* Mutation for LostOnlyTwoWays: the buffer that was there is not released.
TextSetOver(q, x, text, fails) ==
    [Outcome([q EXCEPT !.arg[x].texts = (@ \cup {text}) \ fails], TRUE)
     EXCEPT !.tried = {text}, !.made = One(text \notin fails)]

\* clap_argument_help, _type, _default, _const, _metavar, _dest: a new buffer for the old.
TextSet(q, x, text, fails) ==
    [Outcome([q EXCEPT !.arg[x].texts = (@ \cup {text}) \ fails], TRUE)
     EXCEPT !.tried = {text},
            !.freed = One(text \in q.arg[x].texts),
            !.made = One(text \notin fails)]

\* clap_argument_deprecated, with a message or without one.
Deprecated(q, x, message, fails) ==
    LET text == IF message THEN {"deprecated"} \ fails ELSE {}
    IN  [Outcome([q EXCEPT !.arg[x].flags = @ \cup {"DEPRECATED"},
                           !.arg[x].texts = (@ \ {"deprecated"}) \cup text], TRUE)
         EXCEPT !.tried = IF message THEN {"deprecated"} ELSE {},
                !.freed = One("deprecated" \in q.arg[x].texts),
                !.made = Cardinality(text)]

\* Mutation for FlagsFollowNargs: positionals are not excepted.
RequiredSetOfAny(q, x, required) ==
    [q EXCEPT !.arg[x].flags = IF required THEN @ \cup {"REQUIRED"} ELSE @ \ {"REQUIRED"}]

\* clap_argument_required
RequiredSet(q, x, required) ==
    IF "POSITIONAL" \in q.arg[x].flags THEN q
    ELSE [q EXCEPT !.arg[x].flags = IF required THEN @ \cup {"REQUIRED"} ELSE @ \ {"REQUIRED"}]

Multiple(n) == n \in {ZERO_OR_MORE, ONE_OR_MORE} \/ n > 1
Omittable(n) == n \in {ZERO_OR_ONE, ZERO_OR_MORE, REMAINDER}

\* clap_argument_nargs
NargsSet(q, x, n) ==
    LET flags == q.arg[x].flags
        multiple == IF Multiple(n) THEN flags \cup {"MULTIPLE"} ELSE flags \ {"MULTIPLE"}
    IN  [q EXCEPT !.arg[x].nargs = n,
                  !.arg[x].action = IF n > 1 /\ @ = "STORE" THEN "APPEND" ELSE @,
                  !.arg[x].flags =
                      IF "POSITIONAL" \notin flags THEN multiple
                      ELSE IF Omittable(n) THEN multiple \ {"REQUIRED"}
                      ELSE multiple \cup {"REQUIRED"}]

\* Mutation for CrashesExplained: the array is kept only when it is new.
ChoicesOfNone(q, x, n, fails) ==
    LET a == q.arg[x]
    IN  [Outcome([q EXCEPT !.arg[x].choices = n, !.arg[x].choiceArray = a.choices = 0], TRUE)
         EXCEPT !.tried = {"choices"},
                !.freed = IF a.choiceArray THEN a.choices + 1 ELSE 0,
                !.made = IF a.choices = 0 THEN 1 + n ELSE 0,
                !.crash = a.choices > 0 /\ ~a.choiceArray]

(***************************************************************************)
(* clap_argument_choices.  When there is no memory for the new array the   *)
(* count of the old one stays, for a NULL array.                           *)
(***************************************************************************)
ChoicesSet(q, x, n, fails) ==
    LET a  == q.arg[x]
        ok == "choices" \notin fails
    IN  [Outcome([q EXCEPT !.arg[x].choices = IF ok THEN n ELSE @,
                           !.arg[x].choiceArray = ok], TRUE)
         EXCEPT !.tried = {"choices"},
                !.freed = IF a.choiceArray THEN a.choices + 1 ELSE 0,
                !.made = IF ok THEN 1 + n ELSE 0,
                !.crash = a.choices > 0 /\ ~a.choiceArray]

\* Mutation for TypeOK: no look at the number there are.
DependencyRoomUnchecked(a) == TRUE

DependencyRoom(a) == Len(a.deps) < MaxDependencies

(***************************************************************************)
(* clap_argument_requires and clap_argument_conflicts.  The array of       *)
(* targets is written without a look at whether it was allocated.          *)
(***************************************************************************)
DependencyAdded(q, x, type, y, fails) ==
    LET a     == q.arg[x]
        array == [q EXCEPT !.arg[x].depArray = TRUE]
        tried == (IF a.depArray THEN {} ELSE {"dependencies"}) \cup {"dependency"}
    IN  CASE ~DependencyRoom(a) -> Outcome(q, FALSE)
          [] DependencyRoom(a) /\ ~a.depArray /\ "dependencies" \in fails ->
                 [Outcome(q, FALSE) EXCEPT !.tried = {"dependencies"}]
          [] DependencyRoom(a) /\ "dependencies" \notin fails /\ "dependency" \in fails ->
                 [Outcome(array, FALSE) EXCEPT !.tried = tried, !.made = One(~a.depArray)]
          [] OTHER ->
                 [Outcome([array EXCEPT !.arg[x].deps = Append(@, [type |-> type, target |-> y])],
                          TRUE)
                  EXCEPT !.tried = tried \cup {"targets"},
                         !.made = 2 + One(~a.depArray),
                         !.crash = "targets" \in fails]

-----------------------------------------------------------------------------
(***************************************************************************)
(* Groups.                                                                 *)
(***************************************************************************)
(***************************************************************************)
(* clap_add_mutually_exclusive_group and clap_add_argument_group: the id   *)
(* is taken before the members and the array of groups are allocated.      *)
(***************************************************************************)
GroupAdded(q, kind, fails) ==
    LET taken  == [q EXCEPT !.next[kind] = @ + 1]
        titled == kind = "display" /\ "title" \notin fails
        group  == [id |-> q.next[kind], args |-> << >>, titled |-> titled,
                   capacity |-> GroupCapacity]
        tried  == {"group", "members"} \cup (IF kind = "display" THEN {"title"} ELSE {})
    IN  CASE "group" \in fails -> [Outcome(q, FALSE) EXCEPT !.tried = {"group"}]
          [] "group" \notin fails /\ "members" \in fails ->
                 [Outcome(taken, FALSE) EXCEPT !.tried = tried]
          [] fails \cap {"group", "members"} = {} /\ "groups" \in fails ->
                 [Outcome(taken, FALSE) EXCEPT !.tried = tried \cup {"groups"}]
          [] OTHER ->
                 [Outcome([ArrayOf(taken, kind) EXCEPT !.groups[kind] = Append(@, group)], TRUE)
                  EXCEPT !.tried = tried \cup {"groups"},
                         !.made = 2 + One(titled) + NewArray(q, kind)]

\* Mutation for GroupIdsAreIndices: the id is set before there is room for the member.
GroupJoinedEarly(q, kind, id, x, fails) ==
    LET found == {i \in DOMAIN q.groups[kind] : q.groups[kind][i].id = id}
        g     == q.groups[kind][Min(found)]
        full  == Len(g.args) >= g.capacity
        given == [q EXCEPT !.arg[x].group[kind] = id]
    IN  IF found = {} THEN Outcome(q, FALSE)
        ELSE IF full /\ "members" \in fails
             THEN [Outcome(given, FALSE) EXCEPT !.tried = {"members"}]
        ELSE [Outcome([given EXCEPT
                  !.groups[kind][Min(found)] =
                      [g EXCEPT !.args = Append(@, x), !.capacity = IF full THEN 2 * @ ELSE @]],
                      TRUE)
              EXCEPT !.tried = IF full THEN {"members"} ELSE {}]

\* clap_mutex_group_add_argument, clap_argument_group_add_argument
GroupJoined(q, kind, id, x, fails) ==
    LET found == {i \in DOMAIN q.groups[kind] : q.groups[kind][i].id = id}
        g     == q.groups[kind][Min(found)]
        full  == Len(g.args) >= g.capacity
    IN  IF found = {} THEN Outcome(q, FALSE)
        ELSE IF full /\ "members" \in fails THEN [Outcome(q, FALSE) EXCEPT !.tried = {"members"}]
        ELSE [Outcome([q EXCEPT
                  !.groups[kind][Min(found)] =
                      [g EXCEPT !.args = Append(@, x), !.capacity = IF full THEN 2 * @ ELSE @],
                  !.arg[x].group[kind] = id], TRUE)
              EXCEPT !.tried = IF full THEN {"members"} ELSE {}]

-----------------------------------------------------------------------------
(***************************************************************************)
(* The parser.                                                             *)
(***************************************************************************)
\* clap_register_type: strcmp with every name until one is equal.
TypeRegistered(q, name, fails) ==
    LET same  == {i \in DOMAIN q.types : q.types[i] = name}
        null  == \E i \in DOMAIN q.types : q.types[i] = NoName /\ \A j \in same : i < j
        full  == Len(q.types) \in {0} \cup {4 * 2^i : i \in 0..Len(q.types)}
        copy  == IF "name" \in fails THEN NoName ELSE name
    IN  IF null THEN [Outcome(q, FALSE) EXCEPT !.crash = TRUE]
        ELSE IF same # {} THEN Outcome(q, FALSE)
        ELSE IF full /\ "types" \in fails THEN [Outcome(q, FALSE) EXCEPT !.tried = {"types"}]
        ELSE [Outcome([ArrayOf(q, "types") EXCEPT !.types = Append(@, copy)], TRUE)
              EXCEPT !.tried = {"name"} \cup (IF full THEN {"types"} ELSE {}),
                     !.made = One(copy # NoName) + NewArray(q, "types")]

(***************************************************************************)
(* clap_parser_new.  It does not look at what became of the help option.   *)
(***************************************************************************)
NewParser(fails) ==
    LET q == [NoParser EXCEPT !.live = TRUE, !.capacity = ArgCapacity, !.types = Builtin,
                              !.arrays = {"types"}, !.texts = {"prog"} \ fails]
        own == {"parser", "prog", "arguments"}
    IN  IF fails \cap {"parser", "arguments"} # {}
        THEN {[Outcome(NoParser, FALSE) EXCEPT !.tried = own]}
        ELSE {[o EXCEPT !.ok = TRUE, !.tried = @ \cup own,
                        !.made = @ + 3 + Len(Builtin) + Cardinality(q.texts)] :
                  o \in HelpAdded(q, Help, fails)}

\* What clap_argument_free releases.
ArgumentBlocks(a) ==
    2 + a.strings + Cardinality(a.texts) + (IF a.choiceArray THEN 1 + a.choices ELSE 0)
      + One(a.depArray) + 2 * Len(a.deps)

\* It walks the array of choices by its count.
FreeCrashes(a) == a.choices > 0 /\ ~a.choiceArray

\* Each group, its array of members, and its title if it has one.
GroupBlocks(groups) ==
    MapThenSumSet(LAMBDA i : 2 + One(groups[i].titled), DOMAIN groups)

\* What clap_parser_free releases.
ParserBlocks(q) ==
    IF ~q.live THEN 0
    ELSE 2 + Cardinality(q.texts) + Cardinality(q.arrays)
           + MapThenSumSet(LAMBDA i : ArgumentBlocks(q.arg[q.args[i]]), DOMAIN q.args)
           + GroupBlocks(q.groups["mutex"]) + GroupBlocks(q.groups["display"])
           + Cardinality({i \in DOMAIN q.types : q.types[i] # NoName})
           + q.commands + One(q.container)

\* Mutation for IndexedInOrder: the option keeps its place in optional_args.
ForgottenByParser(q, i) == [q EXCEPT !.args = RemoveAt(@, i)]

\* clap_parser_set_add_help takes the argument out of two arrays, by its place in the first.
Forgotten(q, i) ==
    [q EXCEPT !.args = RemoveAt(@, i), !.optionals = RemoveFirst(@, q.args[i])]

\* clap_parser_set_add_help; new is the argument it may have to add.
AddHelpSet(q, add, new, fails) ==
    LET r     == [q EXCEPT !.addHelp = add]
        helps == {i \in DOMAIN q.args : q.arg[q.args[i]].action = "HELP"}
        x     == q.args[Min(helps)]
    IN  IF add = (helps # {}) THEN {Outcome(r, TRUE)}
        ELSE IF add THEN {[o EXCEPT !.ok = TRUE] : o \in HelpAdded(r, new, fails)}
        ELSE {[Outcome([Forgotten(r, Min(helps)) EXCEPT !.arg[x].freed = TRUE], TRUE)
               EXCEPT !.freed = ArgumentBlocks(q.arg[x]),
                      !.crash = FreeCrashes(q.arg[x])]}

(***************************************************************************)
(* clap_add_subparsers.  What an earlier call made is neither used again   *)
(* nor released.                                                           *)
(***************************************************************************)
SubparsersAdded(q, fails) ==
    LET named == [q EXCEPT !.hasSubparsers = TRUE, !.texts = (@ \cup {"dest"}) \ (fails \cap {"dest"})]
        dest  == One("dest" \notin fails)
    IN  IF "container" \in fails
        THEN [Outcome(named, FALSE) EXCEPT !.tried = {"dest", "container"}, !.made = dest]
        ELSE [Outcome([named EXCEPT !.container = TRUE, !.commands = 0,
                                    !.arrays = @ \ {"commands"}], TRUE)
              EXCEPT !.tried = {"dest"}, !.made = dest + 1]

\* clap_subparser_add
CommandAdded(q, fails) ==
    IF fails # {} THEN [Outcome(q, FALSE) EXCEPT !.tried = {"command", "commands"}]
    ELSE [Outcome([ArrayOf(q, "commands") EXCEPT !.commands = @ + 1], TRUE)
          EXCEPT !.tried = {"command", "commands"}, !.made = 1 + NewArray(q, "commands")]

-----------------------------------------------------------------------------
(***************************************************************************)
(* The calls of the client, which uses only arguments and groups it got    *)
(* from the parser and has not made the parser release.                    *)
(***************************************************************************)
Init ==
    /\ AllocatorInit
    /\ p = NoParser
    /\ result = TRUE
    /\ crashed = FALSE
    /\ calls = 0
    /\ failures = 0
    /\ chosen = {}

Allocation == {"parser", "prog", "arguments", "room", "argument", "type", "strings", "option",
               "name", "dest", "index", "help", "deprecated", "choices", "dependencies",
               "dependency", "targets", "group", "title", "members", "groups", "types",
               "container", "command", "commands"} \cup Text

\* Bound: at most one allocation of a call fails.
Failing == {{}} \cup IF failures < MaxFailures THEN {{a} : a \in Allocation} ELSE {}

\* A call with the outcome o, of whose allocations the ones in fails fail.
Called(o, fails) ==
    /\ fails \subseteq o.tried
    /\ p' = o.p
    /\ result' = o.ok
    /\ crashed' = o.crash
    /\ calls' = calls + 1
    /\ failures' = failures + Cardinality(fails)
    /\ Allocates(o.made, o.freed)

Building == p.live /\ ~crashed /\ calls < MaxCalls
Arguments == {x \in ArgId : Usable(p, x)}
Unused == {x \in ArgId : ~p.arg[x].made}

New ==
    /\ calls = 0
    /\ \E fails \in Failing : \E o \in NewParser(fails) : Called(o, fails)
    /\ UNCHANGED chosen

AddArgument ==
    /\ Building
    /\ \E x \in Unused, name \in Name, fails \in Failing :
          \E o \in Added(p, x, name, fails) : Called(o, fails)
    /\ UNCHANGED chosen

SetText ==
    /\ Building
    /\ \E x \in Arguments, text \in Text, fails \in Failing : Called(TextSet(p, x, text, fails), fails)
    /\ UNCHANGED chosen

SetDeprecated ==
    /\ Building
    /\ \E x \in Arguments, message \in BOOLEAN, fails \in Failing :
          Called(Deprecated(p, x, message, fails), fails)
    /\ UNCHANGED chosen

SetRequired ==
    /\ Building
    /\ \E x \in Arguments, required \in BOOLEAN :
          Called(Outcome(RequiredSet(p, x, required), TRUE), {})
    /\ UNCHANGED chosen

SetNargs ==
    /\ Building
    /\ \E x \in Arguments, n \in Nargs : Called(Outcome(NargsSet(p, x, n), TRUE), {})
    /\ UNCHANGED chosen

\* clap_argument_action
SetAction ==
    /\ Building
    /\ \E x \in Arguments, action \in Action :
          Called(Outcome([p EXCEPT !.arg[x].action = action], TRUE), {})
    /\ UNCHANGED chosen

SetChoices ==
    /\ Building
    /\ \E x \in Arguments, n \in 1..2, fails \in Failing : Called(ChoicesSet(p, x, n, fails), fails)
    /\ UNCHANGED chosen

AddDependency ==
    /\ Building
    /\ \E x, y \in Arguments, type \in {"REQUIRES", "CONFLICTS"}, fails \in Failing :
          Called(DependencyAdded(p, x, type, y, fails), fails)
    /\ UNCHANGED chosen

AddGroup ==
    /\ Building
    /\ \E kind \in Kind, fails \in Failing : Called(GroupAdded(p, kind, fails), fails)
    /\ UNCHANGED chosen

\* The client passes an id that a call has returned, or would have returned.
JoinGroup ==
    /\ Building
    /\ \E kind \in Kind, x \in Arguments, fails \in Failing :
          \E id \in 0..p.next[kind] :
             /\ Called(GroupJoined(p, kind, id, x, fails), fails)
             /\ chosen' = IF kind = "mutex" /\ result' THEN chosen \ {x} ELSE chosen

\* clap_argument_mutex_group, which takes any number.
SetMutexGroup ==
    /\ Building
    /\ \E x \in Arguments, id \in MutexId :
          /\ Called(Outcome([p EXCEPT !.arg[x].group["mutex"] = id], TRUE), {})
          /\ chosen' = chosen \cup {x}

RegisterType ==
    /\ Building
    /\ \E name \in TypeName, fails \in Failing : Called(TypeRegistered(p, name, fails), fails)
    /\ UNCHANGED chosen

SetAddHelp ==
    /\ Building /\ Unused # {}
    /\ \E add \in BOOLEAN, fails \in Failing :
          \E new \in Unused : \E o \in AddHelpSet(p, add, new, fails) : Called(o, fails)
    /\ UNCHANGED chosen

AddSubparsers ==
    /\ Building
    /\ \E fails \in Failing : Called(SubparsersAdded(p, fails), fails)
    /\ UNCHANGED chosen

AddCommand ==
    /\ Building /\ p.container
    /\ \E fails \in Failing : Called(CommandAdded(p, fails), fails)
    /\ UNCHANGED chosen

\* clap_parser_free
FreeParser ==
    /\ p.live /\ ~crashed
    /\ p' = NoParser
    /\ live' = [live EXCEPT ![freeFn] = @ - ParserBlocks(p)]
    /\ crashed' = \E x \in ToSet(p.args) : FreeCrashes(p.arg[x])
    /\ UNCHANGED <<result, calls, failures, chosen, mallocFn, freeFn, reallocFn, locked>>

\* The parser is released, could not be made, or has stopped the program.
Stopped == (crashed \/ (~p.live /\ calls > 0)) /\ UNCHANGED vars

Next ==
    \/ New \/ AddArgument \/ SetText \/ SetDeprecated \/ SetRequired \/ SetNargs \/ SetAction
    \/ SetChoices \/ AddDependency \/ AddGroup \/ JoinGroup \/ SetMutexGroup \/ RegisterType
    \/ SetAddHelp \/ AddSubparsers \/ AddCommand \/ FreeParser \/ Stopped

Spec == Init /\ [][Next]_vars

-----------------------------------------------------------------------------
(***************************************************************************)
(* Properties.                                                             *)
(***************************************************************************)
\* Every variable has its type; an argument has no more dependencies than its array holds.
TypeOK ==
    /\ AllocatorTypeOK
    /\ p \in Parser
    /\ \A x \in ArgId : Len(p.arg[x].deps) <= MaxDependencies
    /\ {result, crashed} \subseteq BOOLEAN
    /\ calls \in 0..MaxCalls /\ failures \in 0..MaxFailures
    /\ chosen \subseteq ArgId

(***************************************************************************)
(* Whatever is set, in whatever order: an argument is MULTIPLE exactly if  *)
(* its nargs is *, + or a number above one (the rest of the line, which    *)
(* may be many values too, is not), and a positional is REQUIRED exactly   *)
(* if its nargs cannot take none (clap_argument.c:187-273), which is what  *)
(* check_required_positional and the parse stage go by.                    *)
(***************************************************************************)
FlagsFollowNargs ==
    \A x \in Arguments :
        LET a == p.arg[x]
        IN  /\ "MULTIPLE" \in a.flags <=> Multiple(a.nargs)
            /\ "POSITIONAL" \in a.flags => ("REQUIRED" \in a.flags <=> ~Omittable(a.nargs))

\* The first argument comes before the second in parser->arguments.
Before(q, x, y) == \E i, j \in DOMAIN q.args : i < j /\ q.args[i] = x /\ q.args[j] = y

\* Up to released arguments, an array lists the set S in the order of parser->arguments.
Lists(q, array, S) ==
    /\ S = {x \in ToSet(array) : Usable(q, x)}
    /\ \A i, j \in DOMAIN array :
          i < j /\ {array[i], array[j]} \subseteq S => Before(q, array[i], array[j])

Flagged(q, flag) == {x \in ToSet(q.args) : flag \in q.arg[x].flags}

(***************************************************************************)
(* parser->arguments has no argument twice and none that was released, and *)
(* as long as no allocation has failed optional_args lists the options     *)
(* among them and positional_args, up to positionals that were taken for   *)
(* the help option and released, the positionals, each once and in the     *)
(* order they were added (clap_argument.c:131-163, clap_parser.c:150-172). *)
(***************************************************************************)
IndexedInOrder ==
    /\ \A i, j \in DOMAIN p.args : p.args[i] = p.args[j] => i = j
    /\ \A i \in DOMAIN p.args : Usable(p, p.args[i])
    /\ failures = 0 =>
         /\ ToSet(p.optionals) = Flagged(p, "OPTIONAL")
         /\ Lists(p, p.optionals, Flagged(p, "OPTIONAL"))
         /\ Lists(p, p.positionals, Flagged(p, "POSITIONAL"))

\* An id below this one was taken for a group that could not be added.
IdLostBelow(groups, id) == \E lost \in 0..(id - 1) : \A i \in DOMAIN groups : groups[i].id # lost

(***************************************************************************)
(* clap_mutex_check_conflict takes the id of an argument's group for an    *)
(* index into parser->mutex_groups and mutex_used (clap_mutex.c:82-86).    *)
(* Whatever is added, joined or set, and whichever call fails, the id is   *)
(* that of a group which lists the argument, and its index, unless         *)
(*  - the client set the id itself, which nothing checks                   *)
(*    (clap_argument.c:290-295), or                                        *)
(*  - an allocation failed after the id of a group before it was taken     *)
(*    (clap_mutex.c:14-33).                                                *)
(***************************************************************************)
GroupIdsAreIndices ==
    \A x \in Arguments \ chosen :
        LET groups == p.groups["mutex"]
            id     == p.arg[x].group["mutex"]
        IN  id # NONE =>
              \E i \in DOMAIN groups :
                 /\ groups[i].id = id /\ x \in ToSet(groups[i].args)
                 /\ i = id + 1 \/ (failures > 0 /\ IdLostBelow(groups, id))

(***************************************************************************)
(* Building and releasing a parser uses no NULL pointer unless an          *)
(* allocation has failed (clap_argument.c:207-214, 343-345,                *)
(* clap_dependency.c:24-25, clap_parser.c:190-192).                        *)
(***************************************************************************)
CrashesExplained == crashed => failures > 0

\* The blocks that nothing the parser knows points to.
Lost == Live - ParserBlocks(p)

(***************************************************************************)
(* No call loses memory or releases a block twice, except one that fails   *)
(* for want of memory while it parses an option's name, and a second       *)
(* clap_add_subparsers (clap_argument.c:127-132, clap_subparser.c:13-39).  *)
(***************************************************************************)
LostOnlyTwoWays ==
    [][Lost' # Lost /\ ~crashed' =>
         /\ Lost' > Lost
         /\ \/ failures' > failures /\ p'.args = p.args
            \/ p.hasSubparsers /\ p'.hasSubparsers /\ p'.commands = 0]_vars

(***************************************************************************)
(* clap.h:86 says that clap_parser_free "Frees every argument, group,      *)
(* subparser, type registry entry, and internal buffer associated with"    *)
(* the parser: nothing is left of it.                                      *)
(***************************************************************************)
FreesEverything == ~p.live /\ calls > 0 /\ ~crashed => Live = 0
=============================================================================
