\* Every line from every table of aliases; pipes of up to three stages that hold
\* one unit; a fork that fails anywhere, and every line after it.
CONSTANTS
    Home <- MCHome
    Lines <- MCLines
    NameOrder <- MCNameOrder
    Path <- MCPath
    Programs <- MCPrograms
    Dirs <- MCDirs
    InFiles <- MCInFiles
    OutFiles <- MCOutFiles
    PipeCap = 1
    MaxFails = 1
SPECIFICATION LineSpec
INVARIANTS
    ReadAsMeant
    AliasesAreMap
    RunsAsMeant
    ShellFdsClosed
PROPERTIES
    PromptComes
CHECK_DEADLOCK FALSE
