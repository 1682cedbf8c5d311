SPECIFICATION ProcessSpec
CONSTANTS
    Workers = {w1, w2}
    Tasks = {t1, t2, t3}
    Main = Main
    NoTask = NoTask
    Nobody = Nobody
INVARIANTS
    TypeOK
    NoTaskLostOrRepeated
    NoWorkerSleepsOverATask
    LateUseIsConfined
PROPERTIES
    EveryTaskIsRun
    PoolIsATaskQueue
CHECK_DEADLOCK FALSE
