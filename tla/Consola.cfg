SPECIFICATION SpecConsola
CONSTANTS
    e1 = e1
    e2 = e2
    e3 = e3
    k1 = k1
    k2 = k2
    k3 = k3
    NULL = NULL
    Esis = {e1, e2}
    Claves = {k1, k2}
    ClavesLargas = {}
    Algoritmo = "HRRN"
    ClavesIniciales <- SoloK2
    Comandos = {"pausar", "bloquear", "desbloquear", "kill"}
    MaxComandos = 2
    BloqueadoInicial = {FALSE}
    MemoriaReutilizada = FALSE
    Guiones <- GuionesCruzados
    Interrumpibles = {}
    Instancias = {i1}
    RespuestasInstancia = {"ok", "nunca"}
INVARIANTS
    SemaforoExacto
    SoporteProtegido
    PosesionCompartida
    ExclusionSalvoDesbloquear
CHECK_DEADLOCK FALSE
