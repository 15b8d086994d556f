CONSTANTS
  Procs = {p1}
  Algoritmo = "RR"
  quantum_rr = 1
  Pedidos <- DosPatotas
  MaxTrips = 2
  MaxPausas = 0
  MaxInicios = 1
  Expulsables = {1}
SPECIFICATION FairSpec
PROPERTIES
  TodosSalen
CHECK_DEADLOCK FALSE
