SPECIFICATION Spec
CONSTANTS
    e1 = e1
    e2 = e2
    e3 = e3
    k1 = k1
    k2 = k2
    k3 = k3
    NULL = NULL
    Esis = {e1, e2}
    Claves = {k1, k3}
    ClavesLargas = {k3}
    Algoritmo = "SJF_SD"
    ClavesIniciales <- SinIniciales
    Comandos = {}
    MaxComandos = 0
    BloqueadoInicial = {FALSE, TRUE}
    MemoriaReutilizada = TRUE
    Guiones <- GuionesConFallas
    Interrumpibles = {e1, e2}
    Instancias = {i1}
    RespuestasInstancia = {"ok", "fallo", "nunca"}
INVARIANTS
    RespuestaPropia
    RegistroNuncaNulo
    OrdenSinSigpipe
CHECK_DEADLOCK FALSE
