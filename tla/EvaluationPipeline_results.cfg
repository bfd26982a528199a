\* Three scenarios, every verdict, upload and LLM failure, a budget two calls exhaust.
SPECIFICATION Spec
CONSTANTS
    MaxScenarios = 3
    Prices = {1, 2}
    Budget = 2
    MinOverlap = 2
    NoKey = NoKey
INVARIANTS
    SavedWhatGraphComputed
    RowsAddUp
    TracedRunsJudged
    
PROPERTIES
    BudgetStopsGraph
\* The run ends.
CHECK_DEADLOCK FALSE
