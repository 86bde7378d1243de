CONSTANTS
    Procs = {p1, p2}
    Grande = p1
    Tamanio <- TamanioUno
    CantMarcos = 3
    Valor = {a, b}
    Basura = a
    PaginasPorTabla = 4
    Repiten = {}
    MaxSwap = 4
SPECIFICATION Spec
PROPERTY SuspendidosIntactos
CHECK_DEADLOCK FALSE
