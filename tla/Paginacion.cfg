CONSTANTS
  TAMANIO_PAGINA = 64
  CantFrames = 2
  CantSwap = 2
  Algoritmos = {"LRU", "CLOCK"}
  Patotas <- TresPatotas
  Avisados <- UnTripulante
  Expulsables <- UnTripulante
  Solapadas = FALSE
  MaxHilos = 1
SPECIFICATION Spec
INVARIANTS
  TypeOK
  PresenteConMarco
  CopiaEnSwap
  SinFugas
  VictimaConLugar
PROPERTIES
  ImplementaMemoria
CHECK_DEADLOCK FALSE
