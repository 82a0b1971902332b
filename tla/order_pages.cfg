CONSTANTS
    Tabs = {t1}
    Desks = {d1}
    t1 = t1
    d1 = d1
    MaxClicks = 2
    MayThrow = TRUE
SPECIFICATION FairSpec
INVARIANTS TypeOK UnpaidStaysPending RestockedOnce SuccessSticks
PROPERTIES PayingEnds
