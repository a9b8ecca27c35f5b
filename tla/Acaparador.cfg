SPECIFICATION FairSpec
CONSTANTS
    MaxPids = 2
    Interfaces = {}
    Conectadas = {}
    Programa <- ProgAcaparador
    Grado = 2
    Algoritmo = "RR"
    ResultadosIO = {"IO_SUCCESS"}
    MaxDetenciones = 0
    MaxArranques = 1
    MaxInterrupciones = 1
PROPERTIES
    Termina
\* Every process may end, and a thread may hang: the system really stops.
CHECK_DEADLOCK FALSE
