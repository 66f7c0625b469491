# Re Distinto in TLA+

Re Distinto is a distributed key store with a central scheduler, in C. Four kinds of
process talk over TCP:

    ESI  ── instruction results ──▶  Planificador ◀── locks ──▶  Coordinador ──▶ Instancia (n)
    ESI  ── GET / SET / STORE ────────────────────────────────▶  Coordinador

An ESI runs a script one instruction per order of the Planificador. Every instruction goes
through the Coordinador, which asks the Planificador whether the key may be used, has an
Instancia store it, orders the Planificador to change the locks, and answers the ESI; the
ESI then answers the Planificador, which has been waiting all along. The specifications in
this directory model that round trip with every thread of the Planificador and the
Coordinador in it; the exchange of the Coordinador with its instances, from their connection to
their end; the threads and the storage of an Instancia; and the two algorithms of the Planificador
that a round trip leaves open, the estimates and the search for deadlocks.

## 1. Inventory

| Component (source) | State | Operations | What makes it correct |
|---|---|---|---|
| Estimates (`algoritmos_planificacion.c`, `listas.c`) | estimate, burst and arrival of each ESI | estimar, response ratio, preempt | the average of the bursts that took place; the shortest goes first; no starvation |
| Search for deadlocks (`consola.c`) | the path being followed | follow the owner of the key waited for | says "deadlock" of the ESIs in one, and of no other; ends |
| `planificar` (`algoritmos_planificacion.c`) | `esi_a_ejecutar`, position in the loop, `llego_esi_nuevo` | choose, preempt, order, wait for the answer | never uses a freed ESI; abandons none; the answer it waits for comes |
| ESI lists (`listas.c`) | `listos`, `ejecutando`, `bloqueados`, `terminados`, `claves_bloqueadas`, fields of `t_esi`, `contador_esis` | admit, move, block, wake, `terminar_esi` | one list per ESI; semaphore = ready ESIs; list of locked keys = keys of the ESIs |
| `soporte` (`interfaz_planificador_coordinador.c`) | none of its own; works on the lists without a mutex | five requests of the Coordinador, status | acts on the ESI the Coordinador means |
| `consola` (`consola.c`) | `pausado` | pausar, continuar, bloquear, desbloquear, kill, listar, status, deadlock, salir | does not break the others, always finishes |
| finalizar (`finalizar.c`) | `cerrando` | terminate every ESI | frees each thing once |
| ESI (`esi.c`, `operaciones.c`) | script line, pending operation | GET, SET, STORE, end of script, Ctrl-C | repeats a blocked GET, answers each order once |
| Coordinador threads (`conexiones_coordinador.c`) | `mensaje_planificador` and its semaphore, `mutex_mensaje_planificador`, `registro_claves` | solicitar, asignar, persistir; listen to Planificador | takes the answer to its own question; finds the entry it needs |
| Distribution (`algoritmos_distribucion.c`, `conexiones_coordinador.c`) | `lista_instancias`, spaces, turn, one thread, message and semaphore per instance | EL, LSU, KE; admit, listen to, drop an instance; ask it and wait | chooses a connected instance; takes the answer to its own request; gives its mutexes back |
| Instancia threads (`get_set_store.c`, `dump.c`, `consola-instancia.c`) | `mutex_dump_compactar`, `pausado` | serve, dump, pausar, continuar | every request is answered |
| Instancia storage (`get_set_store.c`) | table of entries, bitmap, memory | GET, SET, STORE, compactar | entries do not overlap; a read returns what was written |
| Protocol (`protocolo.c`) | one connection per pair | send, receive, detect a close | in order, nothing lost before the close |

Interaction: `planificar`, `consola` and `aceptar_clientes` share the lists under
`mutex_listas`; `soporte` uses the same lists without it. `planificar` holds the mutex from
its order to the end of the answer, so the order of messages between three processes is
what protects `soporte`. In the Coordinador one thread per ESI shares one global
`mensaje_planificador` under a mutex held for a whole operation.

Hard behaviours: pointers kept across an unlock (`esi_a_ejecutar`), a semaphore kept in
step with a list by three files, waits for a semaphore or another process inside a mutex,
wakeups that only let the ESI try again, Ctrl-C while an operation is in flight, ESIs that
close in the middle of an exchange, and instances that refuse or never answer.

## 2. Modules

| Module | Models |
|---|---|
| `Protocolo` | the connections, as FIFO queues of headers, and how a close is seen |
| `Planificador` | lists, `planificar`, `terminar_esi`, `soporte`, `consola`, admission |
| `ESI` | the ESI processes |
| `Coordinador` | `escuchar_esi` per ESI, `escuchar_planificador`, the registry |
| `ReDistinto` | the composition, the fairness and the properties |
| `Cerrojos` | abstract specification: a table of locks, no processes |
| `HistoriaConsola` | `ReDistinto` with a history of the keys given to desbloquear |
| `MCReDistinto`, `MCConsola` | scripts and lists for TLC |
| `Distribucion` | the instances as the Coordinador sees them: `escuchar_instancia`, EL, LSU, KE, the exchange of an operation, status |
| `Registro` | abstract specification: operations served one by one over a registry of keys |
| `MCDistribucion` | letters and lengths of keys for TLC |
| `Instancia` | the threads of an instance over its two mutexes |
| `Almacenamiento`, `MCAlmacenamiento` | the storage of an instance; lengths of values for TLC |
| `Estimacion` | the estimates of SJF and HRRN, and what planificar makes of them |
| `Espera`, `Interbloqueo` | what a deadlock of ESIs is; how the command `deadlock` looks for it |
| `LemasListas` | lemmas about lists, and induction and recursion up to a number |
| `ReDistintoPruebas`, `CandadosPruebas`, `EsperasPruebas` | proofs about `ReDistinto`: types, the semaphore and the round trip of an instruction; the locks and who believes to hold them; the lists, the refinement of `Cerrojos`, deadlock and waits |
| `DistribucionPruebas`, `AlmacenamientoPruebas`, `EstimacionPruebas`, `InterbloqueoPruebas` | proofs about those modules |

`ReDistinto` EXTENDS `Planificador`, `ESI` and `Coordinador`, which EXTEND `Protocolo`. A step of
the system is a step of one of the three with the variables of the other two unchanged; the
connections are the only shared variables. Names of variables and functions are the source's.

### How state and actions correspond to the code

* **Critical sections.** A section of `mutex_listas` that cannot block is one action, guarded by
  `mutex_listas = "libre"`. Those that can block span actions, and `mutex_listas` names the owner:
  the wait for the ESI's answer, the `sem_wait` in kill and bloquear, the loops of `terminar_esi`.
* **Unprotected reads are steps of their own**: the emptiness test of
  `desalojar_si_corresponde`, `sigue_ejecutando`, the reset of `llego_esi_nuevo`, each `if(pausado)`.
* **`mutex_pausar_continuar`** is held exactly while `pausado`; waiting for it is the guard `~pausado`.
* **Memory.** `memoria[e]` says whether the `t_esi` is alive, being terminated or freed. A step that
  would dereference a null pointer or a freed `t_esi`, or that frees `mensaje_planificador` twice,
  leads to `caida = "indefinido"`, after which nothing is modelled. What `malloc` leaves in
  `bloqueado` is `BloqueadoInicial`; `sigue_ejecutando` on a freed block reads the old value, or any
  value when `MemoriaReutilizada`. The ID of a freed block matches no ESI (`free` overwrites the
  first bytes of the block, where `socket` and `ID` are).
* **Estimates** are not kept in `Planificador`: a sort by estimate or response ratio leaves any
  permutation of `listos`, and the comparison that decides a preemption may go either way. FIFO keeps
  the order. `Estimacion` is the other half: it keeps the estimates and what changes them, and the order
  of an instruction with its answer, which planificar sends and awaits under `mutex_listas`, is one step.
* **Messages.** The size and the body that `prot_enviar_mensaje` sends are one message; the last
  messages of an ESI and the closing of its sockets are one step, since a peer reads them in order.
* **Instances.** In `Coordinador` the exchange with the chosen instance is its outcome, in
  `RespuestasInstancia`: `"ok"`, `"fallo"` (refused, or none connected), `"nunca"` (it hung or
  disconnected, and the operation waits for ever holding the mutex). `Distribucion` shows where each
  comes from.
* **Registry.** `registro_claves` is the list of entries, duplicates included: a GET appends, a STORE
  removes the first.

### The modules beside the round trip

* **`Distribucion`.** `mutex_mensaje_planificador` admits one operation at a time (that is
  `SoporteProtegido` and `RespuestaPropia` of `ReDistinto`): `oper` is where it is, and the choice, the send,
  the wait, the read and the change of the registry are steps of their own, so that an instance may
  close, be noticed and leave the list between any two. An instance that is connected may answer or not: nothing
  obliges it (`Instancia` says why). `dueno` stands for what `soporte` allows: a GET of a
  key nobody owns, a SET or STORE of an own key. A member of `Instancias` is a connection; an instance
  that returns is another. The thread of an instance reads, announces, drops and frees in separate steps;
  reading or freeing its message after that is `caida = "indefinido"`, a null pointer or a division by zero
  `"senal"`. The socket of an instance is closed where its end is noticed (`protocolo.c:53`), so from there on its
  number may be that of a later connection: comparing it, closing it again or sending to it may then concern that one
  (`caida = "ajena"`), and nothing is modelled after that. `repartidas` is a history of what EL gave out since the list last changed.
* **`Almacenamiento`.** Each of `guardar_clave`, `setear_valor` (a case per branch) and `storear_valor` runs
  whole under `mutex_dump_compactar`, and so does a dump: one action each. They follow one another as if the
  mutex were given back, which it is not (`Instancia`); without that assumption there would be one request to
  speak of. Within a request it is taken, so a SET that needs `compactar` hangs (`estado = "colgado"`). What
  is beyond the bitmap reads as marked or as free; as free, the value is written past the memory and the
  model stops (`"desborde"`). A value is the parts of it that lie in each entry, so that an overlap or a
  stale entry is seen when it is read. `asignado` is a history: the value of the last SET since the last GET.
* **`Estimacion`.** Estimates are integers in units of 1/`Escala`, with the rounding of doubles left out:
  `Escala` is a multiple of 100 to the `MaxBloqueos` (`UnidadExacta`), so that every division of `estimar` is exact
  whatever the weight. `historia` and
  `ordenes` record the orders really sent, `sin_comparar` and `perdidos` the ESIs whose arrival planificar has
  not compared, `sobrecontados` those that bloquear took from execution. The console acts where planificar is
  between instructions; what it may do to the pointers at other points is in `Planificador`.
* **`Interbloqueo`.** The command holds `mutex_listas`, so the lists stand still; it starts from any list of
  blocked ESIs and any owners, more than `ReDistinto` reaches, since bloquear and desbloquear make almost all of
  them possible. `Espera` says what a deadlock is, without paths: a set of blocked ESIs each of which waits
  for one of the set. `ReDistinto` uses the same definition for what the scripts may do (`SoloInterbloqueados`).

## 3. Runs

| Run | Instance | Shows |
|---|---|---|
| `nucleo` | SJF-CD, 3 ESIs, 2 keys, crossed scripts, no commands but continuar; instances answer or hang | locks and lists stay in step, no wakeup is lost, the refinement of `Cerrojos`, that a deadlock of ESIs stays, that who is left at a standstill waits without end |
| `consola` | HRRN, 2 ESIs, 2 keys (one locked by configuration), pausar and up to 2 bloquear / desbloquear / kill | the invariants that survive the operator |
| `fallas` | SJF-SD, 2 ESIs, a key too long, invalid lines, foreign STORE, refusals, silence, Ctrl-C | the invariants that survive failures |
| `vivacidad` | SJF-CD, 3 ESIs, each created with either value of `bloqueado`, 1 key, fair | no ESI is lost and every admitted ESI ends, but for what one created blocked holds up |
| `distribucion` | EL, LSU and KE, 2 instances of which one may leave, 2 keys (one without a letter), 3 operations, 1 status; fair | the list, the mutex, the registry and the answers stay in step, the refinement of `Registro`, that operations and instances end unless an instance never answers |
| `almacenamiento` | 3 keys, values of 1, 1, 2 and 3 entries, 4 entries of 2 bytes, 1 descriptor | entries of one key each, values read back and dumped, entries lost and SETs refused only for the reason named |
| `estimacion` | SJF-SD, SJF-CD and HRRN, 3 ESIs, bursts of up to 2 orders, 10 orders, one command | the estimates, the preemption, no starvation |
| `interbloqueo` | 3 ESIs, 3 keys, any lists and owners; fair | the verdicts against the definition, the end of the search |
| `kill_en_pausa` | FIFO, one kill | counterexample, §6 |
| `bloquear_se_traba` | FIFO, one bloquear | counterexample, §6 |
| `ctrl_c` | FIFO, one ESI may be interrupted | counterexample, §6 |
| `instancia_se_traba` | the threads of one instance, fair | counterexample, §6 |

Properties (defined with a statement in `ReDistinto`):

* **Lists and semaphore**: `SemaforoExacto`, `NingunoPerdido` (every live ESI in one list, none left behind in
  `ejecutando`, until one that was created with `bloqueado` set is left there).
* **Protection without a mutex**: `SoporteProtegido` (while the Coordinador serves an ESI, that one is
  executing and `planificar` holds `mutex_listas`), `RespuestaEnCamino` (exactly one message or
  thread carries the instruction `planificar` waits for).
* **Locks**: `CandadosCoherentes` (one owner per key; the global list is the keys of the ESIs),
  `PosesionCompartida` (what an ESI believes it owns is recorded for it in both other processes),
  `SinDespertarPerdido`, and `ImplementaCerrojos`, the refinement: the tables of the Planificador, spread over
  lists, fields and messages, step as `Cerrojos` allows.
* **Coordinador**: `RespuestaPropia`, `RegistroNuncaNulo`.
* **Failure**: `OrdenSinSigpipe` (the order goes to an ESI that has not closed).
* **Liveness**: `TodoEsiTermina` (in the end no ESI that was admitted is left, with the same exception).
* **Waiting**: `SoloInterbloqueados` (when the system stands still every ESI that has not ended waits without end: for a key
  of the configuration, or for an ESI that waits without end too. The standstill, `SinTrabajo`, says nothing of what they wait
  for: an ESI whose wakeup was lost, that waits for a free key, violates it) and `InterbloqueoEstable` (without the operator
  nothing frees an ESI in deadlock: the report of the command stays true).
* **Console** (`HistoriaConsola`): `ExclusionSalvoDesbloquear` (only a key given to desbloquear has two owners).

In `Distribucion`: `ListaExacta`, `RespuestaPropia` (the shared message and semaphore of an instance carry one
answer, that of the operation that waits), `RegistroEnTabla` (the entry that a SET or STORE follows leads to an
instance that has the key), `LSUOrdenada` (LSU gives the mutex back, and keeps the instance it asks in the
list), `ELEquitativo`, `SenalSinInstancias`, `ImplementaRegistro`, `OperacionTermina`, `AltaYBaja`. In
`Almacenamiento`: `ValorIntacto`, `EntradasDeUno`, `FugaSoloPorGet`, `RechazoConRazon`, `ArchivoFiel`. In
`Estimacion`: `EstimacionEsPromedio`, `DesalojoSalvoReset`, `SinInanicion`. In `Interbloqueo`: `VeredictoCorrecto`,
`CaminoSinRepetir`, `TodosJuzgados`.

Several name an exception, and the exception is where the code falls short; without it TLC finds a
counterexample at once. They are listed at the end of §6.

Which hold where: each property is checked where the most can disturb it and it still holds. With desbloquear
a key may have two owners (§6), so `CandadosCoherentes`, `SinDespertarPerdido` and the refinement are not claimed
of `consola`; with Ctrl-C the Planificador and the Coordinador part ways, so `SoporteProtegido`,
`RespuestaEnCamino`, `PosesionCompartida` and those that follow from them are not claimed of `fallas`. A refused GET ends the ESI that was woken, and the next
one waits for a free key for ever (§4, `NadieSinDespertar`), so `SinDespertarPerdido` and
`SoloInterbloqueados` are asked of `nucleo`, where no instance refuses. `bloqueado` starts with
either value in `vivacidad` and `fallas`, as FALSE in the others: an ESI created blocked keeps its place and its keys, and
is what the exceptions of `NingunoPerdido` and `TodoEsiTermina` name. An ESI left in `ejecutando` for any other reason violates
`SoloInterbloqueados` in `nucleo` as well. What is checked with the operator or with failures is not
asked of `nucleo` again; of these, `SemaforoExacto` and `RespuestaPropia` are proved of every instance,
`SoporteProtegido`, `RespuestaEnCamino`, `OrdenSinSigpipe`, `PosesionCompartida` and `RegistroNuncaNulo` of every
instance without Ctrl-C, `CandadosCoherentes` of those without desbloquear either, and the
properties of `nucleo` about lists and waits of those where the operator only pauses and resumes (§4).

### Bounds

* `Esis`: three ESIs let two wait for a key a third one owns, the least for wakeups to be in an order,
  and for a preempted, a waiting and an executing ESI at once. The runs with the console or with
  failures have two, one to act and one to be acted upon, as their commands and interrupts multiply
  the states.
* `Guiones`: `GuionesCruzados` has keys taken in both orders (ESIs in deadlock), a key given back
  by STORE, one kept until the end and a GET of an own key; `GuionesConFallas` adds a key too long, a
  line that does not parse and a STORE of a foreign key. Each ESI may have any of the scripts.
  A STORE follows a SET, since an instance refuses to store a key without a value; the refusal
  itself is `"fallo"`.
* `MaxComandos` bounds bloquear, desbloquear and kill together; pausar and continuar are not bounded.
* `Instancias` is one instance: the properties do not tell instances apart.
* `vivacidad`: three ESIs and short scripts (`GuionesBreves`, a key given back by STORE or by the end of its ESI)
  still have two wait for the key of the third, and with an ESI set aside two more to go on.
* No bound is needed for messages or semaphores: they are bounded by the protocol.
* `distribucion`: one instance stays and one may leave at any step, which is enough for an answer to be lost,
  for the turn of EL to fall on a list that changed, and for the list to be empty at the start. Three
  operations let a key be registered twice (its first owner ends in between), or go through GET, SET and
  STORE. The positions of KE and EL with any number of instances are proved (§4), not enumerated.
* `almacenamiento`: four entries hold values of one, two and three with gaps between them, so that a value
  grows in place, moves, finds no gap though there is room, and runs off the end. The keys are symmetric.
  One descriptor is the last one: a dump of one value takes it and the next request finds none.
* `estimacion`: `Escala = 10000` makes the estimates of two blocked bursts (`MaxBloqueos`) of an ESI exact.
  Bursts of two orders and an initial estimate of one are the least for an estimate to exceed the initial one,
  so that a new ESI should preempt. Ten orders outlast the bound of `SinInanicion`, four to seven orders, as
  its mutant shows.
* `interbloqueo`: three ESIs have cycles that do not contain the ESI the search starts from.

### Standing still

`Reposo` is a stuttering step that is enabled in three situations, so that TLC reports any other
standstill of `nucleo` and `vivacidad` as a deadlock: a process has died (`caida`); an instance never answers
(`Colgado`); or `planificar` waits for a ready ESI, there is none, and every ESI has ended or waits for an order
(`SinTrabajo`). Whether those that wait should is not part of it: two ESIs that
wait for each other are a deadlock of their scripts, which the program lets happen and the command
`deadlock` reports, and any other wait is what `SoloInterbloqueados` excludes. `consola` and `fallas` switch the check off: there the system may
really stop (§6, and an instance that never answers).

### Fairness

`SpecJusta` assumes weak fairness of each thread that can go on: `planificar` and `terminar_esi`,
`soporte`, `escuchar_planificador`, each ESI process and each thread of the Coordinador. Weak fairness is
enough because no mutex is fought for without end: `mutex_listas` is contended by a finite number of
admissions, `mutex_mensaje_planificador` by one operation at a time, since one ESI executes at a time.
ESIs need not connect, and Ctrl-C and commands need not happen; the only act of the operator that is
assumed is the `continuar` without which the program, born paused, does nothing.
`vivacidad` also assumes that instances answer (`RespuestasInstancia = {"ok"}`). That is an assumption
about the environment of the Planificador and the Coordinador, and not one that the Instancia of
this repository meets (§6, `instancia_se_traba`). In `Instancia` itself the mutexes are granted fairly (strong
fairness), so that its counterexample is not one of starvation.

`SpecJusta` of `Distribucion` assumes weak fairness of the operation in progress, of a status already begun,
and of the thread of each instance once it is connected. `Justicia` asks nobody to connect, leave or ask for anything,
and no instance to answer: the Instancia of this repository answers its first request and no other
(`get_set_store.c:14`). What is shown is that an answer that is given reaches its operation, whatever the instance
does next, and that only a missing one stops anything. Weak is enough: an operation and a thread
that want `mutex_instancia` compete with finitely many others (`MaxOperaciones`, `MaxStatus`, the instances).
`SpecJusta` of `Interbloqueo` is that of a thread that runs alone under a mutex.

## 4. Proofs

Checked by TLAPS for every set of ESIs, keys, scripts and commands, every scheduling algorithm
and every outcome of the instances, from the assumptions named next to the constants
(`ProtocoloAssumption`, `PlanificadorAssumption`, `EsiAssumption`, `CoordinadorAssumption`).

* `TiposCorrectos`: `Spec => []TypeOK`. `TypeOK` is not inductive: that a step has the types depends on
  where the threads are. `InvTipos` adds that `planificar` waits for an ESI and not for a null pointer, that
  `terminar_esi` has a victim (`PunterosReales`); that a pending line has been read, so that the script has it
  (`LineasLeidas`); and that a thread that holds the mutex of the Coordinador serves an operation, so that
  what it asks `soporte` has a key (`PedidosServidos`). One lemma per thread shows that its
  actions preserve it.
* `SemaforoCuenta`: `Spec => []SemaforoExacto`. `InvCuenta` adds to `InvTipos` who may own `mutex_listas`:
  `planificar` exactly while it waits for an answer (`MutexDePlanificar`), and whoever runs `terminar_esi` or the
  `sem_wait` after it; only kill terminates an ESI that is in `listos`, where it stays until it is taken out
  (`MutexDeQuienTermina`). Without the last, the removal of the victim might remove
  nothing, and the count would be off by one; without the first two, two threads could run `terminar_esi` at
  once.

* `RespuestaDeSoporte`: `Spec => []RespuestaPropia`. `InvSoporte` says who holds the mutex of the Coordinador
  (`UnaOperacion`) and what is under way (`SoporteEnVuelo`): nothing, or of the one thread that waits either its
  request, or the answer, or the message left with the semaphore at one, each of the key and kind it waits for.
* `SoporteSinMutex`, `InstruccionEnCamino`, `OrdenAQuienEscucha`, `StoreSinCtrlC`: assuming in addition that no ESI may
  be interrupted (`SinCtrlC`; with Ctrl-C the first and the last are false, as `ctrl_c` shows). `InvVuelta` follows the
  instruction from hand to hand: the ESI that `planificar` waits for is in one of eight situations (`EnCurso`: the
  order sent, read, the operation requested, served, resolved, about to be answered, answered, or the ESI has said
  goodbye), each with what is on its four connections. Any other ESI has nothing under way (`Quieto`), or
  has been dismissed (`Echado`), or has ended and asks for no more operations (`Acabado`). A step of the
  ESI or of its thread leads from one situation to the next; orders, answers and dismissals of the Planificador
  go in and out of them. `terminar_esi` closes the connection of an ESI outside of them only because it
  has one victim at a time, under the mutex (`UnaVictima`).
* `CandadosSinDesbloquear`: `CandadosCoherentes` without Ctrl-C and without the command desbloquear (with it the
  exclusion is false, and `ExclusionConConsola` says of which keys). The decision to grant a GET and the record of it are
  separate requests to `soporte`, with the instance in between. `InvPedidos` adds to `InvVuelta` that what is under way
  to `soporte` is what the operation of its thread calls for (`PedidosDebidos`), and that a key granted and not yet
  recorded is still free (`Concedidas`): nobody else can record it, because there is one operation at a time, and it is of
  the ESI that executes (`SoporteProtegido`). `Candados` says what the lists hold in the middle of `terminar_esi` too: the
  global list lacks the keys of the victim up to the index of the second pass (`Devueltas`). A key that has an owner
  is on the global list once, so that removing the first occurrence removes it.

  The proof goes key by key (`CandadoDe`): a step on one key leaves the lock of any other as it was. That is what
  makes the next theorem follow from the same lemmas.
* `ExclusionConConsola`: `SpecConsola => []ExclusionSalvoDesbloquear` without Ctrl-C, with every command. `InvPedidos` holds with
  desbloquear too, which only takes keys off the global list; and the lock of a key that was never given to desbloquear
  is kept by every step (`PasoCandado`).
* `PosesionAcordada`, `EntradaPresente`: `PosesionCompartida` and `RegistroNuncaNulo`, without Ctrl-C, with every command.
  `InvPosesion` adds to `InvPedidos` what the instruction in hand is. An ESI that waits for the Coordinador waits for its
  current line (`GuionServido`), its thread serves that line and has answered what the line wants (`Servicios`), and the
  key of an operation that was allowed is of its ESI until soporte takes it (`Tenencias`). With it, what an ESI
  believes to own the Planificador has (`Posesiones`).

  Of what the Planificador has there is an entry in the Coordinador. That is not inductive key by key: after
  desbloquear a key may have several owners, and be several times in the list of one, and STORE takes out one
  entry. What every step keeps is a count (`Registradas`): the registry has at least as many entries of a key as there
  are places with it in the lists of the ESIs (`Registros`), give or take the one that is on its way to soporte
  (`Anotando`, `Borrando`), since GET and STORE change the registry before they order the same of the Planificador.
  The owner of an entry that is being taken out still has its place, so that of another owner has an entry too (`Cubierto`).
* `NadieSePierde`: `NingunoPerdido`, without Ctrl-C, when the operator only pauses and resumes (`SinOrdenes`), with any values in
  `BloqueadoInicial`. An ESI killed while it waits for one of its own keys is woken by its own end, and
  is in `listos` when it is freed: hence `SinOrdenes`. An ESI created with `bloqueado` true, which `agregar_nuevo_esi`
  (`listas.c:30-51`) does not exclude, passes for blocked after its first instruction:
  planificar goes on to another one and leaves it in `ejecutando`. From then on `ejecutando` is never empty, and the preemption may move to `listos` an ESI that soporte has
  blocked. So the invariant, `InvOrden`, has two parts: the lists are exact (`InvListas`), or an ESI is set aside
  (`Apartado`), which no step undoes, since nothing takes it out of `ejecutando`, kills it or makes planificar choose it (`SigueApartado`).
  A step leads from the first to the second only by leaving such an ESI behind (`PasoOrden`). `InvListas` adds to
  `InvCandados` and `InvPosesion` that the lists are disjoint and repeat nobody (`Listas`), that only `esi_a_ejecutar` executes, except that it may
  be blocked already (`Ejecutor`), and when it may be: only after its instruction was answered that way
  (`BloqueoEnCurso`), so that planificar never moves an ESI that soporte has moved. If `bloqueado` starts false (`BloqueadoEnFalso`) nobody can be set
  aside and `InvListas` holds always (`ListasSiempre`); the theorems below state that hypothesis. For them it
  also says that a key GET was refused for is still locked when the ESI is blocked (`Negadas`), that dead ESIs own
  nothing (`DuenosVivos`) and how far `terminar_esi` is (`Recorrido`).
* `CerrojosImplementados`: `Spec => ImplementaCerrojos`, without Ctrl-C, with `SinOrdenes` and `BloqueadoEnFalso`. The abstract table says who owns a key and
  who waits for it; the code decides by the global list, which holds the keys with an owner and the configured
  ones when nobody is being terminated (`TablaDeClaves`). So what a GET finds free has no owner, and what it finds
  locked has one; every request of `soporte` and every step of `terminar_esi` is a step of `Cerrojos`, of the key and the
  ESI the request means, by `PedidosDebidos` and `Concedidas`, or leaves the table alone.
* `InterbloqueoSinSalida`: `InterbloqueoEstable`, with the same hypotheses. The ESIs of a circle are blocked, so none of them executes or ends
  and their keys stay with them; only a key given back wakes an ESI, and no key of a circle is.
* `NadieSinDespertar`: `SinDespertarPerdido`, with the same hypotheses, assuming also that no instance refuses a GET (`SinFallo`: a refused GET ends
  the ESI that was woken, and nobody wakes the next one, as that ESI does not own the key). A STORE wakes one ESI,
  so the others count on it. `InvEsperas` says that whoever is woken still has its GET pending and
  will get to ask again (`Insistentes`, `Pendientes`), and that a key somebody waits for is locked or asked for
  (`Esperas`), where a key that `terminar_esi` has woken the waiters of, and not yet given back, counts as free
  (`Atendidas`).
* `SoloEsperasSinFin`: `SoloInterbloqueados`, with the same hypotheses, `SinFallo` among them: without it the ESI that waits after a
  refused one waits for a free key at a standstill. With the semaphore at zero `listos` is empty, and `ejecutando` is where
  planificar waits for it, so every live ESI is blocked. The key it waits for is locked, as nobody is on the way
  to ask for it (`Esperas`); so the configuration has it, or an ESI does, which is alive and therefore blocked too.

`LemasListas` holds what the arguments need of sequences: removal of an element that is there
shortens the list by one and of one that is not changes nothing, a reordering has the same length,
appending and receiving keep the types of connections. It also has induction up to a number
(`InduccionHasta`), by the least element of a set instead of the theorems of the library with an operator as
parameter, and from it that a recursive function is defined (`HayRecursion`).

For every set of instances, ESIs and keys, every letter and length and every algorithm
(`DistribucionAssumption`):

* `DistribucionImplementa`: `Spec => ImplementaRegistro`, the step simulation of `Registro`. A step of the exchange is
  one of `Registro` or leaves its two variables alone, as long as the pointers the operation follows are real.
  `InvDistribucion` says they are: what an operation has at each step (`OperCoherente`), that the SET or STORE in
  progress is of a key its ESI still owns (`OperDeDueno`), and that an owned key is registered
  (`DuenoRegistrado`), from which `Primera(k)` exists. `PosicionEnRango` proves that KE with its share rounded up
  indexes inside the list for any number of instances, `TurnoReal` the same of EL.
* `DistribucionLSU`: `LSUOrdenada`, from the same invariant, with `MutexExacto`: the operation holds
  `mutex_instancia` exactly while a GET of LSU waits, and status otherwise excludes it. Then no thread takes an
  instance off the list under LSU's feet.
* `DistribucionLista`, `DistribucionRespuesta`, `DistribucionTabla`, `DistribucionSenal`, `DistribucionTipos`.
  `InvRed` follows a request from hand to hand: only the operation that waits has anything under way
  (`UnPedidoEnCurso`), and the request, the answer and the shared message are those of its head and key
  (`PedidoPropio`, `LecturaPropia`); who stops listening overwrites the last answer (`RespuestaEscuchada`). An
  answer is read once because the `sem_post` it came with is taken once. A thread adds its instance once and LSU
  only permutes the list. An entry is added after its instance answered the GET, and no instance forgets a key
  (`Conocidas`). A signal needs an empty list or a key without a letter.
* `DistribucionEL`. `PorTurnos`: the instances from some place of the list up to the turn, going round, have been given one
  key more than the others. With these, every property of the run of
  `Distribucion` but the two of liveness holds for every value of the constants.

For any number and size of entries, any keys and values (`AlmacenamientoAssumption`):

* `StorageEntradas`, `StorageIntacto`, `StorageTipos`: the invariants are inductive only
  together (`InvStorage`): a value is intact because nobody else writes its entries, they do not because
  the bitmap marks them, and the bitmap is right because the entries freed by a SET are those of its own
  key and of no other. All the cases of SET go through one lemma about `escribir_valor`.
* `StorageArchivo`, `StorageFuga`, `StorageRechazo`: the three action properties, from the same invariant. What is
  read from the entries of a key is what was assigned to it, because a value has at least one part and its parts
  determine it (`LeidoEsAsignado`), so a dump writes that. `escribir_valor` neither loses nor finds
  entries (`EscribirNoPierde`); with none lost, a run of entries that no other key occupies is one the search of
  the bitmap finds and the count of free entries covers (`LugarEsHueco`). With these, every
  property of the run of `Almacenamiento` holds for every value of the constants.

For any ESIs, weights of the estimate and bounds (`EstimacionAssumption`):

* `EstimacionDesalojo`, `EstimacionTipos`. What SJF compares is `rafaga_actaual`; the property speaks of the orders the ESI
  really ran. `InvEstimacion` says that they are the same for the one that executes and for those that will
  go on with their burst (`RafagaDeOrdenes`), and that after the comparison only an ESI that came later can be
  shorter (`ComparadoAntesDeReset`): `sin_comparar`, which the reset turns into `perdidos`.
* `EstimacionPromedio`: `EstimacionEsPromedio`, also from `UnidadExacta`. The code makes an estimate from the one
  before; the property has all the bursts, each with its weight. That the closed form obeys the recursion
  (`PromedioMas`) is about sums and powers, recursive functions here, and goes by induction on the number of
  bursts. `InvPromedio` adds to `InvEstimacion` that the estimate after n bursts is a whole number of what n
  divisions by 100 leave of the unit (`TodosEnUnidades`): so the next one is exact too (`EstimarExacto`).
* `EstimacionSinInanicion`: `SinInanicion`, with a bound for any number of ESIs. That one ESI has waited for no more than j
  bursts per unit of its estimate is not inductive: it depends on who else has. `Escalonados` counts: those
  that have waited for more than j (`Atrasados`) are, together with j, at most the ESIs but one when planificar is to
  choose, and one less while an ESI executes, whose own orders are not counted. HRRN chooses the greatest
  ratio, so if some have waited for more than j, who is chosen is one of them (`RatioMayor`), and starts again;
  when its burst ends, those that have waited for more than j + 1 were waiting for more than j when it was
  chosen, because no estimate is less than one order (`AlMenosUna`). So nobody has waited for more than
  there are others. With these, every property of the run of `Estimacion` holds for every value of the constants.

For any ESIs, keys, list and owners:

* `DeadlockCorrecto`, `DeadlockSinVueltas`, `DeadlockTipos`. When the path meets itself, the part from there on is a set of
  ESIs that wait for one another, and with the ESI it started from it still is (`Encadenado`). When the path
  ends, any set of ESIs in deadlock that had its first would have its last (`Alcanzados`), which waits for
  nobody blocked; that needs each key to have one owner.

Model-checked only: what is out of the prover's reach, that is liveness under fairness and the absence of deadlock.

## 5. Not modelled, and why

* `finalizar` and `salir`: they free every ESI and list without a mutex, while the other threads go on using
  them, and then the process exits; almost any step after the first is undefined. For the same
  reason the loss of the Coordinador, which calls `finalizar`.
* The Planificador's side of `status` (the Coordinador's is in `Distribucion`): it holds `mutex_listas` until the answer
  comes, and the answer is freed twice. `listar`, `mostrar-estado` and `debug` print.
* The body of `compactar`: no execution reaches it. It begins by locking a mutex that its own thread holds.
* The inputs beyond what the program can survive once: an initial estimate of zero in HRRN.
* What a descriptor number that was given to another connection does there. `Distribucion` has the outcome and stops
  (`"ajena"`); the Planificador, which keeps `socket` in the `t_esi` of an ESI that has closed, is modelled as if the
  numbers were not used again.
* SIGPIPE between the two `send` calls of one message; the byte layout of payloads.
* Configuration files, the script parser and the commons libraries: input, and external code.

## 6. What the violation runs show

* **`kill_en_pausa`** (`algoritmos_planificacion.c:48`): planificar selects an ESI and lets go of the mutex before it takes it
  again to send the order. A kill in between frees the `t_esi`, and the order goes through a dangling pointer.
* **`bloquear_se_traba`** (`listas.c:104`): planificar does `sem_wait` for the only ready ESI, and before it selects it
  the operator blocks that ESI. `listo_a_bloqueado` waits for the semaphore, which is zero, owning
  `mutex_listas`; admission needs the mutex to post.
* **`ctrl_c`** (`interfaz_planificador_coordinador.c:98`): the interrupted ESI tells the Planificador to forget it while
  its STORE is still in the Coordinador; the order to unlock then acts upon the ESI executing by then.
* **`instancia_se_traba`** (`get_set_store.c:14`): `escuchar_coordinador` never unlocks `mutex_dump_compactar`. The first
  request is answered, the second never.

### What the exceptions in passing properties stand for

* `ExclusionSalvoDesbloquear`: desbloquear takes the key off the global list and leaves it with its owner
  (`consola.c:188`); the next GET gets it too. The search for deadlocks then looks at one owner of two:
  hence `UnicoDueno` in `VeredictoCompleto`.
* `NingunoPerdido`, `TodoEsiTermina` (`NacioBloqueado`): `agregar_nuevo_esi` does not set `bloqueado` (`listas.c:30-51`). An ESI for which malloc
  leaves it true is left in `ejecutando` after its first instruction and never runs again.
* `OperacionTermina` (`[]Desatendida`): an instance that disconnects while an operation waits for it leaves its loop
  without `sem_post` (`conexiones_coordinador.c:562`), and one that stays connected may never answer: from its second
  request on (`get_set_store.c:14`), or a SET for which it has no room (`:243`, `:251`, `:288`). The operation, and with it every later one, waits for ever.
* `AltaYBaja` (`[]Impedida`): under LSU that wait holds `mutex_instancia` (`algoritmos_distribucion.c:41`), and no instance
  can join or leave any more.
* `SenalSinInstancias`: the list is tested for emptiness before the lock (`algoritmos_distribucion.c:5`), and a
  status does not test it (`:94` of `conexiones_coordinador.c`); nothing else makes the Coordinador follow a null pointer.
* `RegistroEnTabla` ("or an older one"): an entry outlives an ESI that ends without STORE, and the next
  owner's SET goes to the instance of the older entry.
* The space that LSU compares decreases as an instance fills (`algoritmos_distribucion.c:42`): no property of
  the model is about which instance LSU prefers, since the code prefers the fullest.
* `FugaSoloPorGet`, and `Perdidas = {}` in `RechazoConRazon`: a GET of a key with a value forgets its entries and leaves
  them marked (`get_set_store.c:61`). `estado = "sigue"` in `BitmapCubre` leaves out the SET that hangs in `compactar`.
* `ArchivoFiel` speaks of dumps only: STORE opens the file, closes it and writes nothing (`get_set_store.c:305`).
  Dumps never close theirs (`dump.c:22`), and one of them ends with none left.
* `EstimacionEsPromedio` (`sobrecontados`): bloquear of the executing ESI counts one order that was never sent
  (`listas.c:77`).
* `DesalojoSalvoReset` (`perdidos`): `llego_esi_nuevo` is reset outside the mutex (`algoritmos_planificacion.c:18`); an ESI
  that arrives in between does not preempt until another arrives.

## 7. Plan

1. *Done*: the round trip (`Protocolo`, `Planificador`, `ESI`, `Coordinador`, `ReDistinto`) and the abstract lock table; the
   threads of the Instancia and its storage; the instances of the Coordinador and the abstract registry; the
   estimates; the search for deadlocks; the theorems of §4.
2. The end of a process of the other side: the loss of the Coordinador or of the Planificador seen by
   the ESIs, if `finalizar` comes to be synchronised with the other threads.
