SPECIFICATION Spec
CONSTANTS
    Procs = {p1, p2, p3}
    Conexiones = {x1}
    Nadie = Nadie
    Tomada = Tomada
    Otra = Nadie
    Disco = Disco
    Impresora = Impresora
    Nombre <- NombreComun
    Usa <- UsanDisco
    IOTarda = TRUE
    MaxPedidos = 1
INVARIANT AtiendeLaCola
CHECK_DEADLOCK FALSE
