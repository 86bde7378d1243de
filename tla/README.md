# A specification of the Revenge-of-the-cth operating system simulator

The repository is a course project: an operating system simulated by four kinds
of processes that talk over TCP. This directory holds TLA+ modules that model
its kernel, its memory and its CPUs, the TLC configurations that check them, and proofs
checked by TLAPS. Definitions keep the names of the code, which is in Spanish,
and `PROJECT.json` gives the lines every definition stands for.

| file | what it is |
|---|---|
| `Marcos.tla` | frames and which of them `is_memory_sufficient` picks; used by `Memoria` and `KernelPlanner` |
| `Memoria.tla` | frames bitmap, page tables, user space, swap file |
| `TablasDePaginas.tla` | the levels of the page tables, as the tree of lists they are |
| `MemoriaPlana.tla` | abstract: what a process is promised about its memory |
| `Reemplazo.tla` | TLB and page cache: FIFO, LRU, CLOCK, CLOCK-M |
| `Cpu.tla` | a CPU, composed with `Memoria`: MMU, TLB, cache, change of process |
| `CicloDeVida.tla` | abstract: the seven states and the moves between them |
| `KernelPlanner.tla` | states and queues of the processes, the mutexes, the threads that move processes, suspension |
| `CortoPlazo.tla` | the short term: SJF with and without preemption, dispatch, interrupts |
| `KernelIO.tla` | `list_ios`, instances and waiting queues of the devices |
| `MemoriaProofs.tla` | theorems about `Memoria` |
| `CpuProofs.tla`, `CpuCacheProofs.tla`, `CpuPlanaProofs.tla` | lemmas about `Reemplazo`, theorems about `Cpu`: the TLB, the cache, the refinement of `MemoriaPlana` |
| `CortoPlazoProofs.tla` | theorems about `CortoPlazo`: with any CPUs, with one |
| `KernelPlannerProofs.tla`, `KernelCicloProofs.tla` | theorems about `KernelPlanner`; the latter, the life cycle of a process and the admissions with one CPU |
| `KernelIOProofs.tla` | theorems about `KernelIO` |
| `MC*.tla`, `*.cfg` | instances for TLC |

## 1. The system

| component | source | state | operations |
|---|---|---|---|
| Kernel planner | `kernel-planner.c`, `kernel-cambios-de-estado.c`, `kernel-blocked.c` | seven lists of pids, `list_procesos`, `mutex_traer`, a `mutex_estado`, timer and flags per PCB | `queue_process` for each state, `cambiar_estado`, `traer_proceso_a_MP`, `mandar_procesos_a_execute`, `timer_de_blockeo`, `carnicero` |
| Kernel dispatch and system calls | `kernel-escucha.c`, `kernel-syscalls.c`, `kernel-cpus-connections.c`, `kernel-free.c` | `list_cpus` | a thread per CPU: INIT_PROC, IO, DUMP_MEMORY, EXIT_SYS, CONTEXTO_DESALOJO |
| Kernel IO devices | `kernel-io-connections.c`, `kernel-escucha.c`, `kernel-free.c` | `list_ios`, for each its `instancias_IO` and `procesos_esperando` | a thread per connection: IDENTIFICAR_IO, DESBLOQUEO_IO, FIN_CONEXION_DE_IO; `gestionar_io` |
| Kernel client of Memoria | `kernel-memory-connection.c` | `mutex_memoria` | one connection per request |
| Memoria: frames, page tables, swap | `memoria-requests.c`, `memoria-processes.c`, `memoria-user-spaces.c`, `memoria-page-tables.c`, `swap-funtions.c` | bitmap, page tables, user space, swap file and metadata | INIT_PROC, WRITE_MEM, SUSPENDER, DESUSPENDER, EXIT_SYS, DUMP_MEMORY |
| Memoria: instructions, metrics | `memoria-instructions.c`, `memoria-handlers.c`, `memoria-protocols.c` | instructions and counters per pid | NEXT_INSTRUCTION, metrics |
| CPU: cache, TLB, MMU | `cpu-cache.c`, `cpu-tlb.c`, `mmu.c`, `cpu-read-write.c` | page cache, TLB | address translation, CLOCK, CLOCK-M, FIFO, LRU, write-back |
| CPU: instruction cycle | `cpu-ciclo-instruccion.c`, `cpu-comunicacion-*.c` | pid, pc, pending interrupt | fetch, execute, system calls, interrupts |
| IO module | `io-ciclo.c`, `io-finalizacion.c` | the pid it works for | waits and answers; tells the kernel when it stops |
| Utils, config, shutdown | `utils`, signal handlers | sockets, packets | send, receive, log |

**How they interact.** A system call arrives at the thread of its CPU, which
changes the state of the process, perhaps asks Memoria something (one request
at a time under `mutex_memoria`), perhaps hands the process to an IO instance,
and calls `mandar_procesos_a_execute` so that the CPU gets another one. A
blocked process has a timer thread that suspends it after
`TIEMPO_SUSPENSION`. The answer of a device comes to the thread of that
connection, which unblocks the process. `queue_process` calls itself and
`traer_proceso_a_MP`, and `traer_proceso_a_MP` calls `queue_process`, so every
one of these threads may dispatch any process at all.

**What is hard.** The locks guard single lists, and are released between
looking at a list and using what was seen. `mutex_estado` guards a PCB, but
is released before the recursive call and then released again. A timer is
stopped with `pthread_cancel`, which acts in whatever call it happens to be.
Devices connect and disconnect while processes wait for them. Memoria has one
stream position for the whole swap file. Section 3 lists the properties that
follow; `PROJECT.json` lists each hazard at the line where it bites.

**What makes each component correct.**

- *Planner*: a process in EXECUTE is on one CPU and a CPU is given one process;
  no CPU is idle beside a process in READY; a blocked process always has a way
  out pending (but for a failed dump, see below); kernel and Memoria agree on who is in memory;
  nobody waits for memory that is free; admission follows the order of its
  queues; every process ends.
- *IO devices*: a request is in one place at a time; an instance does not stay
  marked with a process it is done with; a free instance serves the queue.
- *Memoria*: no frame is lost or shared, if each process is initialised once; a
  page holds what its process last wrote, in memory or in swap.
- *Short term*: READY in the order of the estimates, the shortest process on the
  CPU, estimates that add up; a process preempted while others arrive, end or
  are dispatched is neither lost nor run twice.
- *CPU*: what a program reads through cache and TLB is what it wrote, and a
  process leaves nothing behind in either for the next one.

## 2. The modules

### Marcos and Memoria

Memory is counted in pages: a size, an address and a swap offset are all
multiples of TAM_PAGINA, and the content of a page is one of a small set of
values. `bitmap` is `frames_bitmap`; `tabla` is what a walk of the page tables
gives; `enSwap` and `offsets` are `diccionario_swap_metadata`; `archivoSwap` and
`posicion` are the swap file and its `FILE*` position. The bitmap is scanned
from its start, so the frames of a process are the first free ones
(`MarcosParaProceso` states this as a set of lists, all of one element).

Every request of the kernel is one action, `InitProcess`, `SuspendProcess`,
`SwapIn`, `FinishProcess`, `DumpProcess`: `mutex_memoria` lets the kernel make
one at a time, and Memoria answers after its last change. `WriteMemory` is the
request of a CPU. A request that Memoria refuses changes nothing, so refusal is
the absence of a step. `caida` says that Memoria walked the page table of a
process that has none. `escrito`, `huboSwapIn` and `readmitidos` are history
variables: what each process last wrote, whether some process has come back from
swap, and which ones were initialised again while they were loaded.

Memoria does not look whether the pid of an INIT_PROC is loaded, so `InitProcess`
may come for it again: `dictionary_put` drops the first page table and nobody
frees its frames. The kernel can do this (`kernel-cambios-de-estado.c:34-36`).
`Repiten` are the pids that may come again, any set of them; it bounds the runs,
and the theorems about `Memoria` hold for all. What is said of frames lost and
of the pages of a process is said while nobody, or not that process, is in
`readmitidos`; that a process initialised twice takes no frame of another and
does not disturb its pages is said without condition.

Three facts of the code shape the properties: `swap_in` does not mark the frames
it takes, `suspend_process` writes at the stream position wherever that is, and
`swap_in` moves that position. The properties that hold for every run of the
program before its first `swap_in` say so (`MarcosExclusivos`,
`PaginasHastaPrimerSwapIn`), and what happens after it is shown by the runs
`MemoriaBitmap` and `MemoriaSwap`.

### TablasDePaginas

`Memoria` keeps the table of a process flat. `Arbol` builds the tree of lists
`insert_each_frame` builds, with its rule that a missing child is added at the
end of its parent. Memoria puts a page in the child its own `calculate_index`
gives (`Indice`, over the `Divisor` of the level), a CPU looks for it with what
`mmu.c` computes (`EntradasPorNivel`): two programs that must agree. `Buscar` is
`find_frame_from_entries` and `Aplanar` is
`get_occupied_frames_from_page_table`. `ArbolComoTabla` says that both walks give
what the flat table says. `MCCpu` checks it (`TablasPorNiveles`, in `CpuPlana`) on
every table `Memoria` builds, with two levels of two entries and a process of
three pages, whose third one needs a second table; and on every list of up to
ten frames with one to three entries and levels, in which children of any index
are missing and lists do not fit. Its operators are recursive, so nothing is
proved of it.

### Reemplazo and Cpu

`tlb` and `cache` are `[entradas, puntero]`: entries are taken in order and none
is freed while a process is on the CPU, so the ones in use are a sequence. A
timestamp of LRU is abstracted to its rank. The two turns of the clock's hand
are given by what they find (`VictimaClock`, `VictimaClockM`, `PierdenUso`);
`MCCpu` also runs the loops of `elegir_victima_cache` one turn of the hand at a
time, and `VictimaComoElBucle` says that both agree on every full cache of up to
three entries, whatever its bits and hand: a fact about the operators, not about
the states a run reaches.

`Cpu` EXTENDS `Memoria`. An instruction is one action, with the requests it
makes: they touch only frames of the process on the CPU, and the kernel
suspends, dumps or ends only the others. `guardado_cache_por_desalojo` is one
action per entry (`Frenar`, `Guardar`, `Devolver`). Nothing in an entry tells
which process it belongs to, as in the code; that the next process finds none
of the last one's is a property. Pages travel as C strings: `CopiarTexto` and
`PaginasLeidas` say what arrives, and `desbordo` that a page without a byte 0
was read past its end. Accesses stay within one page of the process.
`programa` is what each process wrote: a history variable.

`MemoriaPlana` is the abstract specification: for each process a text per page,
changed only by its own writes. `LeeLoQueEscribio` is `Plana!Spec`, with the
text mapped to what the process would read now, in the cache, in its frame or
in swap, at the bytes it wrote. The promise ends with `desbordo`, a crash of
Memoria, or a `swap_in` while other processes exist (`Roto`): what happens then
is shown by `MemoriaBitmap` and `MemoriaSwap`. `MemoriaCumple` is the other
direction: all that the CPU does is what `Memoria` lets a process do.

### KernelPlanner

Threads call functions that call each other, so the model keeps a stack of
tasks for each thread: `pila[h]` for main, each CPU's thread, each IO
connection's thread and each timer. An action runs the task on top, up to the
next point where another thread can be told apart (a mutex taken or released, a
list or a flag that somebody else reads), and puts in its place what is left to
do. `queue_process(p, NEW)`, for example, is `New`, `NewTraer`, `NewInit` and
`NewFin`, and the call to `queue_process(p, READY)` it makes in the middle is the
task `READY` pushed before `NEW_FIN`.

- `estado` and `cola` are the queue each pid is in; only the queues whose order
  the program uses keep it (NEW, READY, READY_SUSPENDED).
- `mTraer` and `trabado` are `mutex_traer` and each `mutex_estado`. `huerfanos`
  are the mutexes a cancelled timer died holding.
- `posible`, `hiloActivo`, `hiloBlock`, `cancelado` are the flags of
  `timer_de_blockeo` and the pending cancellation of it. A timer with a pending
  cancel dies in `TimerCancelado` or `TimerMuere`, at any call that is a
  cancellation point.
- `cpuPid` and `contexto` are the pid in `list_cpus` and the contexts sent over
  the socket: the first one is what the CPU runs.
- `guion` is what each process runs: its system calls, in order. The other
  instructions change nothing the kernel sees.
- Memoria is its frames, with the same operators of `Marcos`.
- `caido`: NULL, or a PCB that was freed, was dereferenced. What the program
  does after that is undefined, so nothing is claimed of it.

`CicloDeVida` is the abstract specification: one process at a time moves, along
the seven states. `CumpleCiclo` says that `KernelPlanner`, with its timers,
suspensions and admissions, implements it, and `CortoPlazo`, with preemption,
does too. That processes fit in memory together is not part of it: after a
`swap_in` they do not (`MemoriaBitmap`).

### CortoPlazo

Stacks of tasks as in `KernelPlanner`, for one thread per CPU, one per process's
device, and main. Memory has room for every process and nothing is suspended:
this module is about what arrives in READY, from a system call, a device or a
preemption, while the CPU is given, asked for or given back.

- `ready`, `estimada`, `ultima`, `total`, `crono` are `queue_READY` and the
  `t_SJF` of each PCB. `CambiarEstado` is `cambiar_estado` with `queue_FIFO` or
  `queue_SJF`, `actualizar_rafagas_sjf` and the timer it frees. `crono` is NULL
  (`Nulo`), freed (`Liberado`) or what the timer has counted.
- `desalojo` is `mutex_desalojo` and what `desalojo_SJF` has read under it:
  choosing a CPU, seeing which process it runs and comparing are three actions
  (`Desalojar`, `MirarCpu`, `Comparar`).
- `interrupt` has the words of INTERRUPT packets a CPU has yet to read. Each
  packet is two (`enviar_paquete` sends the size of an empty buffer too) and
  `recibir_interrupciones` reads one per instruction, so a word sent for a process
  that left is read by the next one.
- `Ejecutar` is one turn of `realizar_ciclo_de_instruccion`. `Tic` is time:
  it passes in any amount between two steps, up to `MaxRafaga` on a CPU.
- A timer that was freed and is read gives anything; one that is NULL, or a PCB
  that is gone, sets `caido`, and nothing is claimed of what follows. Both
  happen: `mandar_procesos_a_execute` reserves a CPU for a process, a device ends,
  and its process compares itself with the one reserved before EXECUTE has
  created its timer.
- `colado` is a history variable, the CPUs whose process is not there for its
  estimate: given by the READY branch to the process that arrives, ahead of the
  others, or kept by a comparison with a freed timer.

### KernelIO

Threads are stacks of tasks again: one for the CPU thread inside `gestionar_io`
(`mutex_io` admits one) and one per IO connection. A device, `t_IO`, is named
after the connection that created it. `liberadas` are the structures that were
freed while another thread may still point at them, and using one sets
`caido`. Positions found in a list and used after its mutex is released are
parameters of the task (`n` and `k`), so a list that changed meanwhile makes the
thread remove something else, as in the code. The scan of a list is one step.

Every process may call at any moment, every connection may be identified,
finish what it was sent, or disconnect at any moment, whether or not it has
begun with it.

## 3. What is checked

| run | bounds | states | question |
|---|---|---|---|
| `MemoriaPedidos` | 2 processes (2 and 1 pages), 4 frames, 4 pages of swap, 2 values, INIT_PROC again for the small one | 2 453 000 | frames and pages through any order of requests |
| `PlannerSuspende` | 3 processes of 2, 1, 1 pages, 1 CPU, 1 IO, 2 frames, PMCP, suspension, a failed IO | 272 000 | kernel and Memoria agree; admission; the seven states; termination |
| `PlannerDump` | the same with equal sizes, FIFO and DUMP_MEMORY, good and failed | 118 000 | the timer and a dump of the same process |
| `CortoPlazo` | 3 processes, 1 CPU, FIFO, SJFsD and SJFcD, estimate 3, ALFA 1/2, 2 ticks, two scripts | 316 000 | estimates, preemption, arrivals and interrupts; termination |
| `IOInstancias` | 3 processes, 2 connections of a device, 1 call each | 472 000 | requests while instances come and go |
| `CpuPlana` | 2 processes (3 and 1 pages), 4 frames, 1 page of swap, pages of 3 bytes, 5 configurations of TLB and cache | 448 000 | a process reads what it wrote; the tree of page tables |

*Why the bounds are enough.* Three processes are the least in which one runs,
one is being moved and one waits; two frames make the next one not fit.
In `MemoriaPedidos` the process of two pages shows the order of pages, and the
other one is the neighbour whose frames and pages may be harmed, and the one
initialised again. Four frames hold both and one table more: a second INIT_PROC
fills the memory and a third is refused, unless the large one is suspended, which
then finds no room to come back. Four pages of swap let both be suspended, and one of them twice.
Two values tell a page from another one. `MaxTimers` = 2 is what a process that blocks twice creates.
`MaxPedidos` = 1 with three processes gives a queue of two behind a busy
instance. Connections do not return after disconnecting: a new one is another
member of `Conexiones`.
In the planner's runs the first process creates the others before it blocks.
Were one created while a timer suspends another, NEW would free `mutex_traer`
(`kernel-cambios-de-estado.c:34-36`) with the new process admitted and still in
`queue_NEW`, the timer would ask Memoria for it again, and it would be made
READY twice: `CumpleCiclo` and `MemoriaDeAcuerdo` are then false, with one CPU
too, and Memoria, which does not refuse the second request, loses the frames of
the first. `SiempreHayQuienDespierte`, `UnaSolaCpu` and `OrdenDeIngreso` do not depend on the
scripts: they are proved.
In `CpuPlana` two entries and three pages are the least in which the hand of
the clock, CLOCK-M's second turn and LRU have a choice; the cache is checked
without TLB, the TLB without cache, and both with one entry, where writing a
page back evicts the translation of the one that comes in. With one page of swap
only the process of one page is suspended: the round trip of several pages is
that of `MemoriaPedidos`. Three bytes give a
text, its 0 and a byte after it. There every text starts its page; `CpuTexto` is
what happens when one does not.
In `CortoPlazo` an estimate of 3 with 2 ticks at most takes two bursts to be
used up, so a process has a rest of an estimate while others arrive with the
whole or with another rest; the two scripts let the creator and another process
block, or one process block twice.

*What the properties say.* Each is stated in a comment where it is defined.

- `SinFugaDeMarcos`, `MarcosExclusivos`, `PaginasHastaPrimerSwapIn`,
  `PaginasASolas`: no frame is lost while no loaded process is initialised
  again; until the first `swap_in` none is shared, and the pages of a process
  initialised once keep what was written; for one that is alone too, pages
  survive any number of suspensions.
- `TablasPorNiveles`: the tree of lists says what the flat table says, to the
  walk of a CPU and to the one that lists its frames.
- `UnaSolaCpu`, `ExecuteEjecuta`, `CpusAprovechadas`: contexts, states and
  `list_cpus` agree.
- `MemoriaDeAcuerdo`: the page tables and swap metadata of Memoria match the
  state the kernel gives each process no thread is moving.
- `SiempreHayQuienDespierte`: the timer, the answer of the device and a dump,
  in any order, never lose a blocked process: it is in the queue of a device, or
  its way out is a task of a thread nobody cancels. Not that the thread gets to
  it. The one exception is a failed dump: its handler locks `mutex_estado`
  (`kernel-escucha.c:190`) and calls `queue_process(EXIT)`, which locks it again
  (`kernel-cambios-de-estado.c:196`), so nobody ever takes that process out of
  BLOCKED (`EsperaASiMismo`).
- `AdmisionCompleta`, `OrdenDeIngreso`: memory that is free is given, and to the
  first of its queue. Under PMCP `AdmisionCompleta` speaks of the last of
  READY_SUSPENDED: a smaller process that arrives is put ahead of it, but
  `queue_process` asks only for one that is alone there, so it waits beside
  memory it would fit in until the next event. It is checked with a single IO connection:
  with two, two processes arrive in READY_SUSPENDED together, each of them sees
  two there and neither asks Memoria.
- `Conservacion`, `InstanciaAlDia`: until freed memory is used, a request is in
  exactly one place and `actualizarIO_a_libre` frees the right instance.
- `CumpleCiclo`: the threads implement the seven states of `CicloDeVida`.
- `ReadyOrdenada`, `EstimacionCuadra`: `queue_SJF` compares only when a process
  comes in, and re-estimates only when an estimate is exactly used up; READY
  stays in order and no tick is lost or counted twice all the same.
- `UnLugar`, `LibreEspera`, `CpuOcupada`: a process is in one place whatever is
  preempting, dispatching or waking it; a CPU taken for free has nothing to run
  nor to say; none idles beside READY once the kernel is quiet.
- `MasCorto`: under SJFcD the process that runs has no more left than any in
  READY, once the kernel is quiet and unless `colado`.
- `TlbAlDia`, `SinDuplicados`, `CacheAlDia`: a translation is that of the page
  table of the process that runs; a page is cached once; what is not marked
  modified may be dropped.
- `VictimaComoElBucle`: the victims of `Reemplazo` are those of the loops.
- `LeeLoQueEscribio`, `MemoriaCumple`: the two refinements of section 2.
- `Terminan`: every process ends and is deleted (in `CortoPlazo`, unless the
  kernel crashes).

*Fairness.* `Terminan` assumes only `WF_vars(Next)`: while the kernel, a CPU or a
device can go on, one of them does. No thread is assumed to be scheduled
fairly against another.

*Timing.* The code has no lock that keeps some threads apart but times that do,
and the models take these as constants:

- `Retardo` (KernelPlanner): a process makes no system call while a kernel
  thread is still in the last lines of the `queue_process` that made it READY.
  The CPU has to fetch an instruction from Memoria first, which sleeps
  RETARDO_MEMORIA (100 to 550 ms in the repository's configurations). Without
  it the second unlock at `kernel-cambios-de-estado.c:34-42` opens a mutex that
  another thread holds, and TLC finds `MemoriaDeAcuerdo` violated.
- `IOTarda` (KernelIO): a device does not answer before
  `kernel-io-connections.c:195-197` note which process it was sent.
- `VenceTimer` (KernelPlanner): whether TIEMPO_SUSPENSION can elapse at all. It
  elapses at any moment when it is TRUE.

*Deadlock* is checked in `PlannerSuspende` and `CortoPlazo`, where `Reposo` is the
only state the system may stop in (in `CortoPlazo` also once it has crashed).
It is not checked where the system does stop: `Memoria`, `Cpu` and `KernelIO` when every
process has made its calls or memory was misused, and `PlannerDump`, in which
the thread that serves a failed dump locks `mutex_estado` twice. The other runs
look for one violation.

*Symmetry.* `MCKernelIO` permutes the processes, in a run that checks only
invariants.

### Where the program differs from what it says

Each has a run whose single property quotes the repository, and `PROJECT.json`
has the details and the line.

| run | property | what TLC finds |
|---|---|---|
| `MemoriaBitmap` | `BitmapFiel` | `swap_in` never marks its frames busy and the next process gets them too |
| `MemoriaSwap` | `SuspendidosIntactos` | a suspension writes over the pages of another suspended process |
| `PlannerDosCpus` | `CpusAprovechadas` | with two CPUs both are reserved for one process and one stays so |
| `PlannerCancela` | `ExecuteEjecuta` | the cancelled timer was dispatching another process |
| `IOCola` | `AtiendeLaCola` | a request is queued just after the device looked at its queue |
| `CpuTexto` | `LeeLoQueEscribio` | a text after a 0 in its page is lost when the page leaves the cache |

The double dispatch of `PlannerDosCpus` shows in `CortoPlazo` too if it is given
two CPUs: `UnLugar`, `LibreEspera`, `CpuOcupada` and `MasCorto` then fail. So its
run has one, and section 6 keeps the rest.

## 4. What is proved

For every value of the constants:

| module | theorem | says |
|---|---|---|
| `MemoriaProofs` | `TipoCorrecto` | `Spec => []TypeOK` |
| | `SinFuga` | no frame is lost while no loaded process is initialised again, if every process fits in its page table (`TablaSuficiente`) |
| | `Exclusivos` | until the first `swap_in` no frame is in two pages, and every frame of a table is busy |
| | `PaginasIntactas` | until the first `swap_in` every process initialised once finds what it wrote |
| | `IntactasASolas` | a process initialised once that has had the memory to itself finds it after any number of `swap_in` |
| `CpuProofs` | `TipoCpu` | TLB, cache and pages keep their types |
| | `TlbSiempreAlDia` | the TLB of the process that runs is always its page table's |
| | `CpuImplementaMemoria` | refinement: `SpecCpu => MemoriaCumple` |
| | `ExclusivosConCpu` | `Exclusivos` holds with CPUs, TLBs and caches at work |
| `CpuCacheProofs` | `SinDuplicadosSiempre` | no page is twice in the TLB or in the cache |
| | `CacheSiempreAlDia` | until the first `swap_in`, a page that is not marked modified may be dropped |
| `CpuPlanaProofs` | `LeeLoEscrito` | refinement: `SpecCpu /\ []SinHuecos => LeeLoQueEscribio` |
| | `LeeLoEscritoDesdeElPrincipio` | the same for programs that write from the start of a page |
| `CortoPlazoProofs` | `EstimacionSiempreCuadra` | the accounts of SJF, for any number of processes and CPUs |
| | `TiposSiempre` | `Spec => []TypeOK`, with one CPU, as the five that follow |
| | `SiempreUnLugar` | a process is in one place, and one thread at most is about to dispatch it |
| | `LaLibreEspera`, `SiempreOcupada` | a CPU taken for free is; none idles beside READY |
| | `SiempreOrdenada` | READY in the order of the estimates |
| | `SiempreMasCorto` | under SJFcD no process keeps the CPU that a shorter one in READY should have |
| | `CicloSiempreCumple` | refinement: `Spec => CumpleCiclo` |
| `KernelPlannerProofs` | `TiposDelKernel` | `Spec => []TypeOK` |
| | `SiempreDespierta` | a blocked process, suspended or not, is with a device or has its way out in the tasks of a thread nobody cancels, but for a failed dump (`EsperaASiMismo`) |
| | `UnaCpuUnProceso` | one CPU is never sent a context while it runs another |
| | `EntranEnOrden` | Memoria is given the first of NEW only (`EnOrden`) |
| | `CpuSiempreAprovechada` | one CPU is not idle beside READY (`MuereConLaCpu`) |
| | `ExecuteSiempreEjecuta` | a process in EXECUTE that nobody moves is on it (`MuereConLaCpu`) |
| | `CpuAprovechadaSinSuspension` | both, if TIEMPO_SUSPENSION never elapses |
| `KernelCicloProofs` | `CicloSiempreCumple` | refinement: `CumpleCiclo`, with one CPU (`AdmiteDosVeces`) |
| | `MemoriaSiempreDeAcuerdo` | a process that nobody moves is, in Memoria, where its state says (`AdmiteDosVeces`, `MuereEnMemoria`) |
| | `AcuerdoSinSuspension` | both, with one CPU, if TIEMPO_SUSPENSION never elapses |
| | `AdmisionSinSuspension` | `AdmisionCompleta` under the same conditions: nobody is left in NEW with room for it |
| `KernelIOProofs` | `TiposDeIOSiempre` | `Spec => []TypeOK` |
| | `ConservacionSiempre` | the request of a blocked process is in exactly one place |
| | `InstanciaAlDiaSiempre` | an instance marked with a process has it, or is about to be freed (`IOTarda`) |

The assumptions are those of the constants, named in the modules that declare
them, and nine that the code or the model justifies and the theorems name:

- `TablaSuficiente`: `insert_frame_in_table` drops the frames that do not fit in
  the tables and nobody frees them, so without it `SinFuga` is false.
- `UnaAdmisionAssumption` (`Cpu`): the kernel asks Memoria for each process once,
  `Repiten = {}`. It is an assumption about the kernel, which breaks it in the
  case of section 3; only the theorems about `Cpu` have it.
- `SinHuecos`: no program has an unwritten byte before a written one in a page.
  Pages travel as C strings, and `CpuTexto` shows what is lost otherwise.
  `LeeLoEscritoDesdeElPrincipio` replaces it by a condition on the writes alone,
  which is the one `CpuPlana` is checked under.
- `SolaCpu`: there is one CPU. With two the double dispatch of `PlannerDosCpus`
  breaks every theorem of `CortoPlazoProofs` but the accounts and the types, and
  `UnaSolaCpu`. Nothing else is fixed: processes, scripts, algorithm, ALFA,
  ESTIMACION_INICIAL.
- `EnOrden`: admission is FIFO, or there is one CPU. With PMCP and two CPUs that
  create processes at once, one comes in ahead of the process that another
  thread is asking Memoria for, and TLC finds `OrdenDeIngreso` violated.
- `[][~MuereConLaCpu]_vars`: no cancelled timer dies while it sends a process to
  the CPU (its cancel acts in the `log_info` of EXECUTE, or in the `send` after
  it). It is a hypothesis on the run and not on the constants, and `PlannerCancela` shows what
  such a death breaks: the CPU stays reserved for a process that never gets there.
  `CpuAprovechadaSinSuspension` replaces it by `VenceTimer = FALSE`.
- `[][~AdmiteDosVeces]_vars`: Memoria is not asked to admit from NEW a process that
  is on its way to READY already, or further on. `queue_process(p, NEW)` releases
  `mutex_traer` between the answer of Memoria and READY, and a
  `traer_proceso_a_MP` of a timer may find p in NEW still. A run breaks it only
  when a process is created while another is suspended, and then `CicloSiempreCumple` and
  `MemoriaSiempreDeAcuerdo` may fail: the hypothesis is the defect itself, and what they say is
  that nothing else takes a process off the diagram, or Memoria out of step with it.
  They also assume `Retardo`, as the runs do: no process makes its first call
  before the thread that made it READY is done with it.
- `[][~MuereEnMemoria]_vars`: no cancelled timer dies while it asks Memoria to suspend
  its process, or with one it was bringing in still to be made READY
  (`MutexDelPedido` and `EstadoDelPedido` in `KernelPlanner` say where a cancel acts).
  `AcuerdoSinSuspension` replaces this and the one before it by `VenceTimer = FALSE`,
  and `AdmisionSinSuspension` assumes that too.
- `IOTarda`, as in section 3: only `InstanciaAlDiaSiempre` needs it. Without it a
  DESBLOQUEO frees the instance first and `enviar_proceso_io` marks it then.

`CreadosAssumption` in `CortoPlazo` says that the scripts create each pid once: a pid
is a place in `list_procesos`, from which nobody is removed.

*Memoria.* `MarcosExclusivos` and `PaginasHastaPrimerSwapIn` are not inductive.
Pages stay as they were written only if a write to a frame changes one page
(frames exclusive), if a suspension writes past what is already in the file
(`ArchivoAcumulado`: until the first `swap_in` every offset is below the stream
position), and if a process is not in memory and in swap at once, unless it was
initialised again (`EnMemoriaOEnSwap`). Frames stay exclusive only if those of a table are busy,
since the next process is given free ones. `IInv` is the conjunction, with
`TypeOK`. `SinFuga` needs only `TypeOK` and `EnMemoriaOEnSwap`. There is a lemma
per action for the types and another for the pages; `MarcosElegidos` and
`TablaConPrefijo` state what the operators of the model return.

*Cpu.* A step of the CPU is a step of `Memoria` because every frame it writes is
that of a page of the process on it. That is `TlbAlDia`, which in turn needs the
page table of that process not to change (nobody suspends or ends it), the
pages in the cache to be pages of it, and both to be empty between two
processes. `IInvCpu` is this with `IInv` and the types. `CpuPaso` has a lemma per
action and gives both facts at once: the step is `[Next]_vars` of `Memoria`, so
`IInv` is kept by the lemmas of `MemoriaProofs`, and the rest of `IInvCpu` is kept.
The first lemmas of the module say what the replacement operators return: the
victim is an entry in use, the pointer stays in range, one entry changes and is the new one.

`IInvDistintas` adds that no page is twice in either: what comes in was looked
for first. For `CacheAlDia`, `Respaldada` says that an entry not marked
modified has the text of its frame, and is carried through the two halves of
`busqueda_cache`: the victim that is written back, which may change the frame of
the page that comes in if frames were shared (hence `MarcosExclusivos`), and
the read that follows.

*CpuPlana.* What a process wrote is in one of three places, and `TodoConservado`
says where: the cache (`CacheConserva`), its frames, except for the modified
pages that `guardado_cache_por_desalojo` has yet to write back
(`MarcosConservan`), or the swap file (`SwapConserva`). `Conserva` compares only
the bytes that were written, since the others may be lost. Each action has a
lemma, in two groups: those of the CPU, which move pages between cache and
frames, and those of the kernel, which touch a process that is not on the CPU
and leave the pages of the others alone (`OtrosQuietos`, `SuyasConservadas`).
`Roto` is the end of the promise: Memoria has broken a page itself.

*CortoPlazo, the accounts.* `EstimacionCuadra` is inductive with the types of the four counters
(`IInvCortoPlazo`). `CambiarEstadoCuadra` is the one that matters, by the cases of a
timer that runs, that was freed and is read anyway, or that does not exist, and
of an estimate that is renewed; every other action leaves the accounts alone.

*CortoPlazo, one CPU.* None of the properties is inductive: that a process is in one place
depends on the tasks of every thread. `IInvUnaCpu` says what they are. A thread
has at most one task about a process left, followed by those that free its CPU
and dispatch again (`Formas`), and only the CPU's thread has the latter
(`SoloLaCpu`). A task says in which state its process is (`TareasAlDia`), and
each state says which task, context, message or device has the process
(`LugaresAlDia`). READY holds each process in that state, once (`ReadyExacta`).
From the dispatch until its thread frees it, the CPU has one occupant: an order
to dispatch, a context, a last message or the order to free it (`UnOcupante`),
and if it is free beside READY somebody is about to look (`Despierta`). A process
whose last message was taken is nowhere else until it moves (`Parados`), each
process is yet to be created at most once (`PorCrear`), and the mutexes that
outlive an action are held by the thread whose task says so (`UnaTraba`,
`DesalojoAlDia`). There is a lemma per action (`...Mantiene`). Stacks and queues are
handled by lemmas about their operators: `Forma...` and `Pila...` for what a task
leaves on a stack, `CambiarAReady`, `CambiarDesdeReady` and `CambiarDesdeExecute`
for what `cambiar_estado` does to the queue and the estimates. `UnLugar` then
follows from `IInvUnaCpu` alone (`RastrosDicen`: what each trace says of the
state), `CumpleCiclo` step by step from `TareasAlDia`, and `ReadyOrdenada` is
inductive over it, since nobody changes the estimate of a process that waits.

`MasCorto` is about the kernel when it is quiet; what holds at every step is
`ElegidoAlDia`. A timer counts only for a process that was sent to the CPU and
has not been moved (`CronosAlDia`), so nothing lengthens what is left of the one
that has the CPU, or was given it (`Elegido`). The first of READY is then no
shorter than that one, or an INTERRUPT is on its way, or some thread is yet to
compare them (`Comparados`; `Vela` says which task of which thread). It is the
first of READY alone that `desalojo_SJF` compares, and by `ReadyOrdenada` it
stands for the rest. The invariant is conditional, as `MasCorto` is: it claims
nothing once the kernel has crashed (`caido`) or the CPU has a process that
nobody compared (`colado`).

*KernelPlanner.* `IInvTipos` adds to the types that a task is about a process unless
it is one of those about none (`TareasBien`), and that a timer runs, or is taken
for active, only after it was created (`RelojesBien`). The actions are grouped by
whose step they are (`DePlanificador`, `DeProceso`, `DeTimer`, `DeCpu`) and most
replace the task on top by others (`Toca`, `Sigue`), so the lemmas about stacks
(`Esta`, `Nuevas`) settle what a step leaves for each invariant.

For `UnaSolaCpu`, `Turnos` says that one thread at most has a task of those that send
to the CPU or free it (`Ocupan`), and `CpuTomada` that meanwhile the CPU is reserved
and runs nothing: that task is the right to use it, born in `set_cpu` and
ended by the send, or by the handler that frees the CPU. No step makes a second
one, because READY and `mandar_procesos_a_execute` both look for a free CPU under
`mutex_cpu`. A cancelled timer may die with the right, which loses the CPU and
breaks nothing here.

For `OrdenDeIngreso`, the process a thread asks Memoria for is the first of NEW when
the thread looks; that it still is when Memoria answers is `Admision`. It needs
NEW to be entered by one thread at a time (`UnCreador`), and that nobody but that
thread knows of a process that is not there yet (`SoloNacidos`). With FIFO others come in
behind; with PMCP they may come in ahead, hence `EnOrden`.

For `SiempreHayQuienDespierte`, `Bloqueantes` says that a thread blocks a process first of
all, and has its way out (ENCOLAR_IO, the dump, EXIT) below on its stack, which is
that of a handler and never of a timer (`Fijos`). `Despertados` is the property with
what the induction needs: the way out is in a device or on a stack nobody
cancels, and READY_SUSPENDED counts only for a process already suspended, since it
does nothing to another (`kernel-cambios-de-estado.c:174`). Suspending keeps
both, whichever came first, the timer or the answer. Nothing is assumed of
CPUs, scripts, connections or timing. A handler that waits for itself still has
its EXIT pending, so the exclusion in the property is no help to the proof: it is
there because that task is no way out.

For `CpusAprovechadas` and `ExecuteEjecuta`, `IInvUso` follows the one CPU around. It is
reserved for a process it runs, or that a thread is sending it or taking from it
(`Reservada`, over the right to use it of `Turnos`); whoever sends has it reserved for the
process sent (`ParaQuien`); if it is free beside READY somebody is about to look
(`Avisada`: READY_CPU of the process that came, or a `mandar_procesos_a_execute`); and a process in
EXECUTE is on it, or some thread has it on the way in or out (`EnEjecucion`). `PilasEnRegla`
keeps the promises on the stacks: LIBERAR_CPU has a MANDAR behind it, READY_CPU, EXECUTE
and ENVIAR are only ever on top, a timer never has the tasks of a handler, and a timer asleep does
nothing else. `Hay` and `Vigiladas` let one lemma (`UsoIgual`) settle the steps that
neither give nor take the CPU.

For `CumpleCiclo`, `IInvCiclo` says of each process what the tasks about it mean. At most
one task in all the stacks takes it somewhere (`Mueven`, `UnaSola`), and each says why it
may (`Motivo`: EXECUTE and ENVIAR that it has the CPU, READY_SUSPENDED that it is
suspended, READY where it comes from); BLOCKED only comes from EXECUTE. The rest is what
that needs: a process is in the queue of its state and once (`EnSuCola`, `NadieDosVeces`),
the CPU runs one in EXECUTE that nobody is moving (`EnLaCpu`), a device has one that is
blocked (`EnDispositivo`), and one that is swapped out, or about to be, stays suspended
until it is brought in (`Apartado`). A step is then a step of the diagram, or none,
because `Motivo` names the state it leaves (`VistoDeProceso`). TLC checked the
invariant on one CPU before the proof, over a million states.

For `MemoriaDeAcuerdo`, `Sitio` says where a process is at every step, with the task that
has yet to correct it (`Puntas`): a process in NEW is in the page tables exactly when
READY is on its way, one that is suspended while SUSPENDER_MEM or READY is, one in EXIT until
EXIT_MEM. Over `IInvCiclo`, most steps leave `Puntas` alone (`SitioDeQuietas`), and the
others are one lemma each. A timer that is created takes over an empty stack (`Novatos`).

`AcuerdoSinSuspension` proves that the two hypotheses on the run come from
suspension alone. If no timer expires, every stack of a timer has one that has not
started or is asleep (`Dormilones`), which no cancel hurts. And `IInvSolo` holds: no
process is suspended and no task that suspends, cancels or brings one back is in any stack
(`SinSuspension`; `Repertorio` is what a thread may have), so only the thread
of the CPU goes through `traer_proceso_a_MP`; a process on its way from NEW to
READY is in the task on top of that thread, or of main before anything else
runs (`Ingreso`, `MainSolo`), and in no other. Two threads then never have one
each (`UnoIngresa`), which is what `AdmiteDosVeces` takes.
TLC checked it on 20,110 states first.

`AdmisionSinSuspension` adds `Pedidos` to that invariant: while NEW has anybody, some thread
has yet to ask Memoria (`Pidiendo`), or its first was asked for and does not fit, or its first
is on its way in (`Camino`) and alone, unless the admission is PMCP and the second
does not fit (`Delante`): a smaller process came in ahead of one that was
refused. Each request happens at the head of the queue and a process leaves it from there, so
the next one to ask for is the one `Pedidos` speaks of. What no longer fits cannot begin
to before an EXIT frees frames, which asks again: `HayMemoriaSi` proves that first fit
finds n frames exactly when n are free, and `MenosLugar` that taking some makes no room.
Nothing is assumed of the number of processes or frames, or of which admission it is.

*KernelIO.* `Conservacion` counts places, so its proof says where a request may
be: one of `Sitios`, a thread, the queue of a device or what a connection was
sent. `Reparto` is that a process is blocked exactly when its request is in one
of them, and in one only; `Colas` that no list has it twice; `Formas` what the
tasks of a thread may be, among them at most one that carries a request.
`IInvIO`, their conjunction with the types and with `Calladas` (a connection that
has not been identified has no tasks), is inductive, and holds of memory that
was freed too: a step that reads it still moves a request whole. `MueveDe`,
`SaleDe` and `EntraEn` are the three things a step does to a request, and the
steps that do none are settled by `SigueNada`, `SigueUna` and `SigueDos`. That
there is one place then becomes a cardinality by `UnSoloPedido` and `ListaCorta`:
the request has one index in its stack or list, and a list without repetitions
is no longer than `Procs` (`ProcsAssumption`: the set is finite).
`InstanciaAlDia` needs two more parts (`IInvInstancias`). `Nuevas` and `Propias`: until the thread
of a connection lists its instance nobody has marked it or has a task about it,
and after that only `gestionar_io` and that thread do. `Marcas`: the process an instance is
marked with, or is about to be, is with it, is about to free it, or ends because
the connection was closed. `LiberarEnRegla` is the step that matters:
`actualizarIO_a_libre` looks for the first instance marked with the process, and
it is its own, because by `Reparto` the request is in no other.

*Only model-checked*: `AdmisionCompleta` when processes are suspended. Then it is false for
some values of the constants (with two IO connections).
*Beyond the prover*: `Terminan` (liveness under fairness, ENABLED), what a
recursive definition computes for every input, and so `TablasDePaginas` and
`VictimaComoElBucle`.

## 5. What is not modelled

- Preemption together with suspension: `CortoPlazo` has no timers of
  TIEMPO_SUSPENSION and `KernelPlanner` no SJF.
- A second INIT_PROC of a process under a CPU: `Memoria` and `KernelPlanner`
  have it, `Cpu` does not.
- GOTO, and accesses of a program beyond its pages or across two of them.
- The file a dump writes, and the metrics of states and times: data.
- Concurrent requests to Memoria: the threads of several CPUs and the kernel
  share its dictionaries without a lock. `Cpu` has one CPU.
- A send to a socket that was closed, and the FIN that an IO device sends
  between a DESBLOQUEO and clearing its pid (`io-ciclo.c:48-50`).
- In `KernelPlanner` and `CortoPlazo`, the devices (a set of processes they have
  yet to finish with), CPUs that connect during a run, and the order of the
  queues BLOCKED, BLOCKED_SUSPENDED, EXECUTE and EXIT, which the program never
  uses.
- `traer_proceso_a_MP` admits from NEW while READY_SUSPENDED is not empty, which the
  comment at `kernel-cambios-de-estado.c:28` excludes and only the NEW branch
  checks. `KernelPlanner` does what the code does; no property is about it.
- Shutdown, configuration, logs and sockets: I/O.

## 6. Plan

Done: `Marcos`, `Memoria`, `TablasDePaginas`, `Reemplazo`, `Cpu`, `KernelPlanner`,
`CortoPlazo`, `KernelIO`, the abstract `MemoriaPlana` and `CicloDeVida`, and the proofs
of section 4. Left, in order of importance:

1. Two CPUs over one Memoria: `Cpu` with a `pid`, `tlb` and `cache` per CPU.
