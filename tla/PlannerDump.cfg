SPECIFICATION Spec
CONSTANTS
    Procs = {p1, p2, p3}
    Primero = p1
    p1 = p1
    p2 = p2
    p3 = p3
    c1 = c1
    c2 = c2
    io1 = io1
    io2 = io2
    Nadie = Nadie
    MaxTimers = 2
    CantMarcos = 2
    Cpus = {c1}
    OrdenCpus <- UnaCpu
    Conexiones = {io1}
    Tamanio <- TamanioIgual
    AlgoritmoIngreso = "FIFO"
    Retardo = TRUE
    VenceTimer = TRUE
    Guiones <- ConDump
INVARIANTS
    UnaSolaCpu
    SiempreHayQuienDespierte
CHECK_DEADLOCK FALSE
