\* Two threads of one process: reviewers, a pipeline that enqueues and readers.
SPECIFICATION Spec
CONSTANTS
    t1 = t1  t2 = t2  p1 = p1
    daylight = daylight  lift = lift  e1 = e1  e2 = e2  e3 = e3
    Threads = {t1, t2}
    Processes = {p1}
    Plans = {plan}
    Home <- MCHome
    Findings <- MCFindings
    ResultOf <- MCResultOf
    MaxCalls <- MCMaxCalls
    MaxFaults = 1
    SuggestionThreshold = 2
    Nobody = Nobody
    Absent = Absent
    NoVerdict = NoVerdict
    Torn = Torn
INVARIANTS
    AnsweredDecisionKept
    ResolvedByOwnDecision
CHECK_DEADLOCK FALSE
