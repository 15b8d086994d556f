CONSTANTS
  oxigeno = oxigeno
  comida = comida
  bitacora = bitacora
  Recursos <- UnRecurso
  Bitacoras <- UnaBitacora
  BLOCK_SIZE = 3
  BLOCK_COUNT = 8
  Escribibles = {1, 7}
  Consumibles = {1, 2, 5}
  MaxPedidos = 5
  MaxSabotajes = 1
  MaxCopias = 1
  MaxConCopia = 4
  MaxReinicios = 1
SPECIFICATION RSpec
INVARIANTS
  FTypeOK
  PropiosSiSano
  MarcadosSiSano
  ContenidoPropio
  MetadataCoherente
  DevuelveLoQueHabia
  SabotajeNoContagia
PROPERTIES
  ImplementaDeposito
CHECK_DEADLOCK FALSE
