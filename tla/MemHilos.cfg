SPECIFICATION FairSpec
CONSTANTS
    Pids = {p1, p2}
    CantMarcos = 3
    TamPagina = 2
    MarcosPorByte = 8
    Tamanios <- Justos
    Pedidos = 2
    ConFinalizar = TRUE
    FinDoble = TRUE
INVARIANTS
    TypeOK
    MarcosJustos
    TamanioJusto
    ContenidoPropio
PROPERTIES
    TodoSeDevuelve
\* All processes end, or the module has died.
CHECK_DEADLOCK FALSE
