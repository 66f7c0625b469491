SPECIFICATION Spec
CONSTANTS
    e1 = e1
    e2 = e2
    e3 = e3
    k1 = k1
    k2 = k2
    k3 = k3
    NULL = NULL
    Esis = {e1, e2, e3}
    Claves = {k1, k2}
    ClavesLargas = {}
    Algoritmo = "SJF_CD"
    ClavesIniciales <- SinIniciales
    Comandos = {}
    MaxComandos = 0
    BloqueadoInicial = {FALSE}
    MemoriaReutilizada = FALSE
    Guiones <- GuionesCruzados
    Interrumpibles = {}
    Instancias = {i1}
    RespuestasInstancia = {"ok", "nunca"}
INVARIANTS
    TypeOK
    CandadosCoherentes
    SinDespertarPerdido
    RespuestaEnCamino
    SoloInterbloqueados
PROPERTIES
    ImplementaCerrojos
    InterbloqueoEstable
