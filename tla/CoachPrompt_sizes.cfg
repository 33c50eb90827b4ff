SPECIFICATION Spec
CONSTANTS
    SessionLists <- MCSessionLists
    Trades       <- MCTrades
CHECK_DEADLOCK FALSE
INVARIANTS NewestKept PlainContextFits PlainInstructionSurvives PromptFits
