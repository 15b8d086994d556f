CONSTANTS
  Procs = {p1, p2}
  Algoritmo = "FIFO"
  quantum_rr = 1
  Pedidos <- DosConES
  MaxTrips = 2
  MaxPausas = 0
  MaxInicios = 1
  Expulsables = {1, 2}
SPECIFICATION Spec
INVARIANTS
  TypeOK
  UnSoloLugar
  FichasAlcanzan
  CicloUnico
  ColaCoherente
  SalidaConExit
SYMMETRY Simetria
CHECK_DEADLOCK FALSE
