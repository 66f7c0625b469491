CONSTANTS
    Esis = {e1, e2, e3}
    Claves = {k1, k2, k3}
SPECIFICATION SpecJusta
INVARIANTS TypeOK CaminoSinRepetir VeredictoCorrecto
PROPERTIES TodosJuzgados
