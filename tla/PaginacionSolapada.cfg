CONSTANTS
  TAMANIO_PAGINA = 64
  CantFrames = 2
  CantSwap = 2
  Algoritmos = {"LRU"}
  Patotas <- TresPatotas
  Avisados <- Ninguno
  Expulsables <- Ninguno
  Solapadas = TRUE
  MaxHilos = 1
SPECIFICATION Spec
INVARIANTS
  PresenteConMarco
CHECK_DEADLOCK FALSE
