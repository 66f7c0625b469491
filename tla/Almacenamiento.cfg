SPECIFICATION Spec
CONSTANTS
    v1 = v1
    w1 = w1
    v2 = v2
    v3 = v3
    NULL = NULL
    Claves = {k1, k2, k3}
    Valores = {v1, w1, v2, v3}
    Largo <- Largos
    cant_entrada = 4
    tam_entrada = 2
    MaxDescriptores = 1
SYMMETRY Simetria
INVARIANTS
    TypeOK
    ValorIntacto
    EntradasDeUno
PROPERTIES
    FugaSoloPorGet
    RechazoConRazon
    ArchivoFiel
CHECK_DEADLOCK FALSE
