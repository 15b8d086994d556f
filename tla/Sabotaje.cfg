CONSTANTS
  Procs = {p1, p2}
  Algoritmo = "FIFO"
  quantum_rr = 1
  Pedidos <- DosDeCPU
  MaxTrips = 2
  MaxPausas = 1
  MaxInicios = 1
  Expulsables = {}
  MaxSabotajes = 1
  Objetivos <- UnSitio
  duracion_sabotaje = 2
SPECIFICATION SSpec
INVARIANTS
  CicloDeSabotaje
  NadieSePierde
  FichasTrasSabotaje
PROPERTIES
  SoloElElegido
SYMMETRY Simetria
CHECK_DEADLOCK FALSE
