---------------------------- MODULE HelpSections ----------------------------
(***************************************************************************)
(* What clap_print_help and clap_print_usage show of a parser that is      *)
(* being built (clap_formatter.c): the items of the usage line and the     *)
(* rows of the sections.  How a row is laid out is in HelpLayout.          *)
(***************************************************************************)
EXTENDS ParserBuilder

Occurrences(seq, x) == Cardinality({i \in DOMAIN seq : seq[i] = x})

\* How often x is a member of the groups of a kind.
Memberships(q, kind, x) ==
    MapThenSumSet(LAMBDA i : Occurrences(q.groups[kind][i].args, x), DOMAIN q.groups[kind])

(***************************************************************************)
(* build_usage_line: how many items name x.  The help option is the fixed  *)
(* item " [-h]"; an option with the id of a group is left to the lists of  *)
(* the groups; every positional is named.                                  *)
(***************************************************************************)
UsageOption(q, x) == q.arg[x].action # "HELP" /\ q.arg[x].group["mutex"] = NONE

UsageItems(q, x) ==
    Cardinality({i \in DOMAIN q.optionals : q.optionals[i] = x /\ UsageOption(q, x)})
      + Memberships(q, "mutex", x)
      + Occurrences(q.positionals, x)

\* Mutation for HelpShowsEach: the positionals of a group are listed above it too.
UngroupedRowsOfAll(q, x) ==
    Occurrences(q.positionals, x)
      + (IF q.arg[x].group["display"] = NONE THEN Occurrences(q.optionals, x) ELSE 0)

\* print_positionals_section and print_optionals_section: the rows of x.
UngroupedRows(q, x) ==
    IF q.arg[x].group["display"] = NONE
    THEN Occurrences(q.positionals, x) + Occurrences(q.optionals, x)
    ELSE 0

\* print_display_groups_sections: the rows of x under the titles of the groups.
GroupRows(q, x) == Memberships(q, "display", x)

Indexes(q, x) == x \in ToSet(q.optionals) \cup ToSet(q.positionals)

(***************************************************************************)
(* Whichever allocation failed before: an argument the parser has indexed  *)
(* has a row in the help, one for each group it is in or else exactly one, *)
(* and is named by the usage line, unless it is the help option or has     *)
(* been given the id of a group that does not list it                      *)
(* (clap_formatter.c:232-322, 370-461; clap_display_group.c:61-73).        *)
(***************************************************************************)
HelpShowsEach ==
    \A x \in Arguments :
        Indexes(p, x) =>
            /\ UngroupedRows(p, x) + GroupRows(p, x) = Max({1, Memberships(p, "display", x)})
            /\ \/ p.arg[x].action = "HELP"
               \/ p.arg[x].group["mutex"] # NONE /\ Memberships(p, "mutex", x) = 0
               \/ UsageItems(p, x) > 0
=============================================================================
