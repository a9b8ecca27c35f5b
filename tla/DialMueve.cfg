SPECIFICATION Spec
CONSTANTS
    Archivos = {f1, f2}
    BlockSize = 2
    BlockCount = 4
    MaxBit = 4
    Ancho = 16
    Tamanios = {1, 3}
    Escrituras <- Byte1
    Operaciones = 5
    Cortes = 0
SYMMETRY Simetria
INVARIANTS
    CompactarMueve
CHECK_DEADLOCK FALSE
