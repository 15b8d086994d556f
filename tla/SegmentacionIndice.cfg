CONSTANTS
  TAMANIO_MEMORIA = 11
  CRITERIO_SELECCION = "FF"
  tam_pcb = 1
  tam_tcb = 3
  Patotas <- DosTripulantes
  Expulsables <- Ninguno
  MaxSeniales = 0
SPECIFICATION Spec
INVARIANT VaciaSeElimina
CHECK_DEADLOCK FALSE
