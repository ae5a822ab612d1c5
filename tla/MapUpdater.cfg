CONSTANTS
    Workers = {w1, w2}
    World = world
    Continents = {c1, c2}
    Instances = {i1}
    Transports = {t1, t2}
    Stoppable = {t2}
    NoMap = noMap
    MaxTicks = 2
SPECIFICATION Spec
INVARIANTS TypeOK CountIsExact WorldAlone SoleUpdater NoNullRequest OnePlace OnceATick
PROPERTIES ImplementsWorldTick TickEnds ShutdownCompletes
