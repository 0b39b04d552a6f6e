\* The files of MCParser.tla through parser and formatter.
CONSTANTS
    Texts     <- MCTexts
    Opening   <- GrammarOpening
    Switches  <- GrammarSwitches
    Code      <- GrammarSteps
    Fields    <- GrammarFields
    NodeTypes <- GrammarNodeTypes
SPECIFICATION TestCaseSpec
INVARIANTS TypeOK OneParent SpansNested WellFormedNodes OperatorsBind
           ModulesListed StatementsApart OnlyElseIsLost NothingSkipped
           PrintedInFull
PROPERTY RunEnds
CHECK_DEADLOCK FALSE
