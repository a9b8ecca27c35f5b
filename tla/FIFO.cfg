SPECIFICATION Spec
CONSTANTS
    MaxPids = 3
    Interfaces = {"gen"}
    Conectadas = {"gen"}
    Programa <- ProgTres
    Grado = 2
    Algoritmo = "FIFO"
    ResultadosIO = {"IO_SUCCESS"}
    MaxDetenciones = 1
    MaxArranques = 1
    MaxInterrupciones = 1
INVARIANTS
    UnSoloLugar
    PlazasDeGrado
    ReposoVacio
    
PROPERTIES
    CicloSpec
    DetencionEstable
\* Every process may end, and a thread may hang: the system really stops.
CHECK_DEADLOCK FALSE
