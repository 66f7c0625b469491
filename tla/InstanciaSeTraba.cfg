SPECIFICATION SpecJusta
PROPERTIES
    PedidoContestado
CHECK_DEADLOCK FALSE
