SPECIFICATION FairSpec
CONSTANTS
    Pids = {"p1", "p2", "p3"}
    Recursos = {"RA", "RB"}
    Instancias <- Una
    Cargas <- Todas
    Vuelta = 4
INVARIANTS
    TypeOK
    CuentaInstancias
    UsoExclusivo
PROPERTIES
    TodosTerminan
\* Every process ends, or waits for a resource that nobody gives back: the system stops.
CHECK_DEADLOCK FALSE
