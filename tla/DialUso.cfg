SPECIFICATION Spec
CONSTANTS
    Archivos = {f1, f2}
    BlockSize = 2
    BlockCount = 4
    MaxBit = 4
    Ancho = 16
    Tamanios = {0, 1, 2, 3}
    Escrituras <- UnaYDos
    Operaciones = 7
    Cortes = 1
SYMMETRY Simetria
INVARIANTS
    TypeOK
    BloquesJustos
    ContenidoFiel
CHECK_DEADLOCK FALSE
