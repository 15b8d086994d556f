CONSTANTS
  Procs = {p1}
  Algoritmo = "RR"
  quantum_rr = 2
  Pedidos <- DosPatotas
  MaxTrips = 2
  MaxPausas = 1
  MaxInicios = 2
  Expulsables = {1, 2}
SPECIFICATION Spec
INVARIANTS
  RafagaUtil
  ExpulsionUnica
PROPERTIES
  DiagramaDeEstados
CHECK_DEADLOCK FALSE
