SPECIFICATION SpecJusta
CONSTANTS
    k1 = k1
    k2 = k2
    NULL = NULL
    Instancias = {i1, i2}
    Esis = {e1}
    Claves = {k1, k2}
    Algoritmos = {"EL", "LSU", "KE"}
    Letra <- LetraAjena
    Largo <- LargosDistintos
    EspacioTotal = 4
    Desconectables = {i2}
    MaxOperaciones = 3
    MaxStatus = 1
INVARIANTS
    TypeOK
    ListaExacta
    RespuestaPropia
    RegistroEnTabla
    LSUOrdenada
    ELEquitativo
    SenalSinInstancias
PROPERTIES
    ImplementaRegistro
    OperacionTermina
    AltaYBaja
CHECK_DEADLOCK FALSE
