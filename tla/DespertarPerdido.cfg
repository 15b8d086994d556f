CONSTANTS
  Procs = {p1}
  Algoritmo = "FIFO"
  quantum_rr = 1
  Pedidos <- UnTripulante
  MaxTrips = 1
  MaxPausas = 0
  MaxInicios = 1
  Expulsables = {}
SPECIFICATION Spec
INVARIANTS
  LargoPlazoActua
CHECK_DEADLOCK FALSE
