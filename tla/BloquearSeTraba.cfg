SPECIFICATION Spec
CONSTANTS
    e1 = e1
    e2 = e2
    e3 = e3
    k1 = k1
    k2 = k2
    k3 = k3
    NULL = NULL
    Esis = {e1, e2}
    Claves = {k1, k2}
    ClavesLargas = {}
    Algoritmo = "FIFO"
    ClavesIniciales <- SinIniciales
    Comandos = {"bloquear"}
    MaxComandos = 1
    BloqueadoInicial = {FALSE}
    MemoriaReutilizada = FALSE
    Guiones <- GuionesOrdenados
    Interrumpibles = {}
    Instancias = {i1}
    RespuestasInstancia = {"ok"}
INVARIANTS
    ConsolaNoSeTraba
CHECK_DEADLOCK FALSE
