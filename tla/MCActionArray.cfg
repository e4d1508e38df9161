SPECIFICATION Spec
CONSTANTS
    States = {"s1", "s2", "s3"}
    Events = {"e1", "e2", "e3"}
    ViaMachine = {"s3"}
    Consumed = {"e3"}
    Declarations <- MCDeclarations
    MaxDecls = 3
    SequenceNodes <- MCSequenceNodes
    MaxNodes = 2
    EntryStates = {"s1", "s2"}
    ExitStates = {"s2"}
    DataEvents = {"e2", "e3"}
    Conditional <- MCConditional
INVARIANTS TypeOK ArrayHoldsTheMatrices InAllMeansOneDeclaration FiguresMatchTheArray DocumentsTellTheSame SequenceNotesAreTrue
    CodeObeysTheArray CasesPartitionTheArray PythonTakesTheSame
    FactsMatchTheArray TableNamesAreDefined
CHECK_DEADLOCK FALSE
