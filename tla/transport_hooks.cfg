SPECIFICATION FairSpec
CONSTANTS
    None = None
    p1 = p1
    p2 = p2
    p3 = p3
    Requests = {r1}
    Tracers = {t1, t2}
    Plugins <- MCPlugins
    PluginLists <- MCPluginLists
INVARIANTS TypeOK HooksNest LogsReachTrace CompletedOnce
PROPERTIES TraceCompleted KeepsRounds
