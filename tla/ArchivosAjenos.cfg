CONSTANTS
  oxigeno = oxigeno
  comida = comida
  bitacora = bitacora
  Recursos <- UnRecurso
  Bitacoras <- UnaBitacora
  BLOCK_SIZE = 3
  BLOCK_COUNT = 8
  Escribibles = {1, 7}
  Consumibles = {7}
  MaxPedidos = 4
  MaxSabotajes = 0
  MaxCopias = 0
  MaxConCopia = 4
  MaxReinicios = 0
SPECIFICATION RSpec
INVARIANT BloquesPropios
CHECK_DEADLOCK FALSE
