SPECIFICATION Spec
CONSTANTS
    Pids = {p1, p2}
    CantMarcos = 3
    TamPagina = 2
    MarcosPorByte = 8
    Tamanios <- Justos
    Pedidos = 2
    ConFinalizar = FALSE
    FinDoble = FALSE
SYMMETRY Simetria
INVARIANTS
    MarcoLibre
CHECK_DEADLOCK FALSE
