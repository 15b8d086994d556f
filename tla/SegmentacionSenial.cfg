CONSTANTS
  TAMANIO_MEMORIA = 11
  CRITERIO_SELECCION = "FF"
  tam_pcb = 1
  tam_tcb = 3
  Patotas <- UnTripulante
  Expulsables <- Ninguno
  MaxSeniales = 1
SPECIFICATION FairSpec
PROPERTY SenialCompacta
CHECK_DEADLOCK FALSE
