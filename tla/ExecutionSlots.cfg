SPECIFICATION FairSpec
CONSTANTS
    Executions = {e1, e2, e3}
    Activities = {a1, a2}
    CapacityLimit = 3
    MaxExecutions = 3
    MaxActivities = 5
    MaxPerExecution = 2
INVARIANTS
    Coherent
    WorkConserving
PROPERTIES
    NoOverAdmission
    FirstComeFirstServed
    NoStarvation
