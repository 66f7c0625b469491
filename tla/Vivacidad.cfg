SPECIFICATION SpecJusta
CONSTANTS
    e1 = e1
    e2 = e2
    e3 = e3
    k1 = k1
    k2 = k2
    k3 = k3
    NULL = NULL
    Esis = {e1, e2, e3}
    Claves = {k1}
    ClavesLargas = {}
    Algoritmo = "SJF_CD"
    ClavesIniciales <- SinIniciales
    Comandos = {}
    MaxComandos = 0
    BloqueadoInicial = {FALSE, TRUE}
    MemoriaReutilizada = FALSE
    Guiones <- GuionesBreves
    Interrumpibles = {}
    Instancias = {i1}
    RespuestasInstancia = {"ok"}
INVARIANTS
    NingunoPerdido
PROPERTIES
    TodoEsiTermina
