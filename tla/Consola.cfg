SPECIFICATION SpecC
CONSTANTS
    MaxPids = 2
    Interfaces = {"gen"}
    Conectadas = {"gen"}
    Programa <- ProgramasFin
    Grado = 2
    Algoritmo = "FIFO"
    ResultadosIO = {"IO_SUCCESS"}
    MaxDetenciones = 0
    MaxArranques = 1
    MaxInterrupciones = 1
    MaxFinales = 1
    MaxCambios = 2
    Grados = {0, 1}
INVARIANTS
    TypeOKC
    
    
    DevueltoUnaVez
    RespuestaPropia
    ConsolaVuelve
\* Every process may end, and a thread may hang or die: the system really stops.
CHECK_DEADLOCK FALSE
