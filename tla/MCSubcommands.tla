--------------------------- MODULE MCSubcommands ----------------------------
(***************************************************************************)
(* A tree as of git_style.c, with a command that has commands: the client  *)
(* parses up to four words.  The option k is known to every parser, x only *)
(* to add, which counts it.  remote requires an x that was counted, and    *)
(* its k a file, which only add's default may bring; app requires a k,     *)
(* which may be any level's.  log requires one of a group, a file, and, for *)
(* the default of its r does not convert, that r is given.                 *)
(***************************************************************************)
EXTENDS Subcommands

CONSTANTS app, remote, add, log

MCParser == {app, remote, add, log}
MCWord == {"remote", "add", "log", "-k", "-x", "-r", "-h", "junk"}
MCNoWord == "NULL"

Of(f, others) == [q \in MCParser |-> IF q \in DOMAIN f THEN f[q] ELSE others]

MCCommands ==
    Of(app :> [w \in {"remote", "log"} |-> IF w = "remote" THEN remote ELSE log]
       @@ remote :> [w \in {"add"} |-> add], << >>)
MCOptions ==
    Of(add :> [w \in {"-k", "-x"} |-> IF w = "-x" THEN "int" ELSE "string"]
       @@ app :> [w \in {"-k"} |-> "string"]
       @@ log :> [w \in {"-k", "-r"} |-> IF w = "-r" THEN "int" ELSE "string"],
       [w \in {"-k", "-r"} |-> "string"])
MCPositional == Of([q \in {add, log} |-> "file"], MCNoWord)
MCDestOf == Of(app :> "command" @@ remote :> "-r", "unused")
MCRequired ==
    Of(remote :> [k \in {"-x"} |-> "int"] @@ app :> [k \in {"-k"} |-> "string"]
       @@ log :> [k \in {"file"} |-> "string"], << >>)
MCRequires == Of(app :> {<<"-k", "command">>} @@ remote :> {<<"-k", "file">>}, {})
MCConflicts == Of(add :> {<<"-k", "file">>}, {})
MCDefaults ==
    Of(app :> [k \in {"-x", "file"} |-> "string"]
       @@ add :> [k \in {"-x", "file"} |-> IF k = "-x" THEN "zero" ELSE "string"],
       [k \in {"-k"} |-> "string"])
MCRefused == Of([q \in {log} |-> {"-r"}], {})
MCGroups == Of(app :> {{"-k"}} @@ add :> {{"-k", "-x"}} @@ log :> {{"-k", "-r"}}, {})
MCRequiredGroups == Of([q \in {log} |-> {{"-k", "-r"}}], {})

(***************************************************************************)
(* Bound: the words of a line after the program's name are three, or four  *)
(* where they name a command and a command of that.                        *)
(***************************************************************************)
MCLine ==
    UNION {[1..n -> MCWord] : n \in 0..3}
        \cup {l \in [1..4 -> MCWord] :
                 \E i, j \in 1..4 : i < j /\ l[i] = "remote" /\ l[j] = "add"}
=============================================================================
