SPECIFICATION FairSpec
CONSTANTS
    Pids <- DosPids
    Cargas <- CargasMC
    Ancho8 = 4
    Ancho32 = 16
    Atoi <- AtoiMC
    Traduccion <- TraduccionMC
    Conexiones <- ConexionesMC
    Longitud <- LongitudMC
    Basura = Basura
    MaxInterrupciones = 1
INVARIANTS
    TypeOK
    PcCoherente
PROPERTIES
    ComputaSola
    Terminan
