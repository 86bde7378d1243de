CONSTANTS
    Procs = {p1, p2}
    Grande = p1
    Tamanio <- TamanioMixto
    CantMarcos = 4
    Valor = {a, b}
    Basura = a
    PaginasPorTabla = 4
    Repiten = {p2}
    MaxSwap = 4
SPECIFICATION Spec
INVARIANTS
    TypeOK
    SinFugaDeMarcos
    MarcosExclusivos
    PaginasHastaPrimerSwapIn
    PaginasASolas
CHECK_DEADLOCK FALSE
