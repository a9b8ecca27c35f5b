SPECIFICATION Spec
CONSTANTS
    MaxPids = 2
    Interfaces = {"gen"}
    Conectadas = {}
    Programa <- ProgIO
    Grado = 2
    Algoritmo = "VRR"
    ResultadosIO = {"IO_SUCCESS", "CERRAR_IO"}
    MaxDetenciones = 0
    MaxArranques = 1
    MaxInterrupciones = 1
INVARIANTS
    TypeOK
    
    UnSoloLugar
    EstadoCoherente
    TokenCpu
    ColasContadas
    ReposoVacio
PROPERTIES
    CicloSpec
\* Every process may end, and a thread may hang: the system really stops.
CHECK_DEADLOCK FALSE
