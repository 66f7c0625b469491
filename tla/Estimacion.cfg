CONSTANTS
    Esis = {e1, e2, e3}
    Algoritmos = {"SJF_SD", "SJF_CD", "HRRN"}
    Alfa = 50
    EstimacionInicial = 1
    Escala = 10000
    MaxComandos = 1
    MaxTiempo = 10
    MaxRafaga = 2
    MaxBloqueos = 2
SPECIFICATION Spec
INVARIANTS
    TypeOK
    EstimacionEsPromedio
    DesalojoSalvoReset
    SinInanicion
CHECK_DEADLOCK FALSE
