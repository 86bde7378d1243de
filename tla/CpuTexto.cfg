CONSTANTS
    Procs = {p1}
    Grande = p1
    PaginasGrande = 2
    Tamanio <- TamanioCpu
    CantMarcos = 2
    a = a
    Letra = {a}
    Nulo = nulo
    TamPagina = 3
    Valor <- ValorCpu
    Basura <- PaginaCero
    PaginasPorTabla = 4
    Repiten = {}
    MaxSwap = 1
    Escrituras <- EnElMedio
    Configs <- Ambas
    Nadie = nadie
SPECIFICATION SpecCpu
PROPERTY LeeLoQueEscribio
CHECK_DEADLOCK FALSE
