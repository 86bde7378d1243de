CONSTANTS
    Procs = {p1, p2}
    Grande = p1
    PaginasGrande = 3
    Tamanio <- TamanioCpu
    CantMarcos = 4
    a = a
    Letra = {a}
    Nulo = nulo
    TamPagina = 3
    Valor <- ValorCpu
    Basura <- PaginaCero
    PaginasPorTabla = 4
    Repiten = {}
    MaxSwap = 1
    Escrituras <- DesdeElPrincipio
    Configs <- Todas
    Nadie = nadie
SPECIFICATION SpecCpu
INVARIANTS
    TypeOKCpu
    TlbAlDia
    SinDuplicados
    CacheAlDia
    VictimaComoElBucle
PROPERTIES
    MemoriaCumple
    LeeLoQueEscribio
    TablasPorNiveles
CHECK_DEADLOCK FALSE
