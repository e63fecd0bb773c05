SPECIFICATION Spec
CONSTANTS
    Page <- MCPage
    Width <- MCWidth
    Environment <- MCEnvironment
    MaxFailures = 1
INVARIANTS
    LinesFit
    BuffersHold
