SPECIFICATION Spec
CONSTANTS
    app = app
    remote = remote
    add = add
    log = log
    Parser <- MCParser
    Root = app
    Word <- MCWord
    HelpWord = "-h"
    NoWord <- MCNoWord
    Commands <- MCCommands
    Options <- MCOptions
    Positional <- MCPositional
    DestOf <- MCDestOf
    Required <- MCRequired
    Requires <- MCRequires
    Conflicts <- MCConflicts
    Defaults <- MCDefaults
    Refused <- MCRefused
    Groups <- MCGroups
    RequiredGroups <- MCRequiredGroups
    Line <- MCLine
    MaxParses = 2
    MaxFailures = 0
INVARIANT NameMeansCommand
