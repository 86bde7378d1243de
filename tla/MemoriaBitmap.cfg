CONSTANTS
    Procs = {p1, p2, p3}
    Grande = p1
    Tamanio <- TamanioMixto
    CantMarcos = 3
    Valor = {a, b}
    Basura = a
    PaginasPorTabla = 4
    Repiten = {}
    MaxSwap = 4
SPECIFICATION Spec
INVARIANT BitmapFiel
CHECK_DEADLOCK FALSE
