SPECIFICATION Spec
CONSTANTS
    Node = {n1, n2}
    Request = {http, cli}
    Cli = {cli}
    Reader = {d1}
    NoOne = NoOne
    Factor = 2
    MaxChanges = 1
    MaxErrors = 1
SYMMETRY Symmetry
INVARIANTS
    AnswersTellOutcome
    ReadYourCreate
PROPERTIES
    ViewsMoveForward
CHECK_DEADLOCK FALSE
