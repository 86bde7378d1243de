\* Three processes, one CPU, the three short-term algorithms.
SPECIFICATION SpecJusta
CONSTANTS
    p1 = p1
    p2 = p2
    p3 = p3
    c1 = c1
    Procs = {p1, p2, p3}
    Primero = p1
    OrdenCpus <- UnaCpu
    Algoritmos = {"FIFO", "SJFsD", "SJFcD"}
    AlfaNum = 1
    AlfaDen = 2
    EstimacionInicial = 3
    Guiones <- GuionesDeTres
    MaxRafaga = 2
    Nadie = Nadie
INVARIANTS TypeOK ReadyOrdenada EstimacionCuadra LibreEspera UnLugar CpuOcupada MasCorto
PROPERTY Terminan CumpleCiclo
