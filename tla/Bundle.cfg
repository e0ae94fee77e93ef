SPECIFICATION Spec
CONSTANTS
    A = A
    B = B
    C = C
    X = X
    Y = Y
    P = P
    Z = Z
    NoFile = NoFile
    NoPath = NoFile
    Corpora <- MCCorpora
    Main <- MCMain
    MaxTries = 5
SYMMETRY Symmetry
\* The build ends.
CHECK_DEADLOCK FALSE
INVARIANTS
    LinkerInputIsSound
    OneCopyOfAPackage
    AwaitsAreFound
    ModulesAreClassified
    ImportsBindAsTheLanguageSays
    NamespacesMatchImports
    PrintedCascadeIsTheSame
    NamesKeepTheirMeaning
