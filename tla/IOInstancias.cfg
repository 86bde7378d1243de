SPECIFICATION Spec
CONSTANTS
    Procs = {p1, p2, p3}
    Conexiones = {x1, x2}
    Nadie = Nadie
    Tomada = Tomada
    Otra = Nadie
    Disco = Disco
    Impresora = Impresora
    Nombre <- NombreComun
    Usa <- UsanDisco
    IOTarda = TRUE
    MaxPedidos = 1
INVARIANTS
    TypeOK
    Conservacion
    InstanciaAlDia
SYMMETRY Simetria
CHECK_DEADLOCK FALSE
