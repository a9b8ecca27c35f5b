SPECIFICATION Spec
CONSTANTS
    Pids = {p1, p2}
    CantMarcos = 3
    TamPagina = 2
    Configuraciones <- ConfigsTlb
    Datos <- Registros
    Largos = {3}
    Paginas = {1, 3}
    Operaciones = 4
INVARIANTS
    TypeOK
    TlbCorrecta
PROPERTIES
    VirtualSpec
\* No more than Operaciones instructions are executed.
CHECK_DEADLOCK FALSE
