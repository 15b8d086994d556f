CONSTANTS
  TAMANIO_MEMORIA = 9
  CRITERIO_SELECCION = "BF"
  tam_pcb = 1
  tam_tcb = 2
  Patotas <- Compartida
  Expulsables <- LosPrimeros
  MaxSeniales = 1
SPECIFICATION Spec
INVARIANTS
  TypeOK
  Mosaico
  SiempreEntra
  ContenidoIntacto
  SinFugas
  TareasEnOrden
  PatotaConDuenio
CHECK_DEADLOCK FALSE
