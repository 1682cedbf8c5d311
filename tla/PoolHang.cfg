SPECIFICATION FairSpec
CONSTANTS
    Workers = {w1, w2}
    Tasks = {t1}
    Main = Main
    NoTask = NoTask
    Nobody = Nobody
PROPERTY DestructorReturns
CHECK_DEADLOCK FALSE
