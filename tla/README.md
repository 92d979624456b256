# A verification project for the seven-segment scroller

The repository is an FPGA design (Nios II/e on a Cyclone V board, Quartus and
Platform Designer) with its software. A C program writes a text of 32 characters,
a speed and a pause bit into a memory-mapped peripheral written in VHDL; the
peripheral turns the text over six seven-segment displays. Three keys pause the
text and change its speed, SW 0 blanks the displays (standby), KEY 0 resets the
board. Under the program lies a board support package: the drivers of console,
UART, SPI and timer, and the HAL with its descriptors, interrupts, alarms, clock,
log, caches, heap, profiler and start-up code.

The TLA+ modules here model the peripheral completely, the program, and the
package part by part. TLC checks them on small instances; TLAPS proves the main
safety properties of the peripheral, of the program on the board, of the character
drivers and of the support package's clock, alarms, interrupts, descriptors, log,
caches, heap and start-up, for every value of the constants.

## 1. Inventory

| Part | Source | State | Operations | Modules |
|---|---|---|---|---|
| Control block | `src/bloco_controle.vhd` | `speed_counter`, `speed_limit`, `scroll_idx`, `is_paused`, `btn_prev` | one clocked process: reset; standby; operation with bus writes, three edge-detected buttons, time divider | `BlocoControle`, `Faixa`, `Travas`, `Letreiro`, `Acionamento`, `Amostragem` |
| Display block | `src/bloco_operacional.vhd` | `ram` | clocked text write; combinational window through `char_to_seg` | `BlocoOperacional`, `Painel` |
| Bus slave | `src/scroller_avalon.vhd` | none | address decoder, wiring of the two blocks | `ScrollerAvalon` |
| Board | `src/hardware.vhd` | none | pins: KEY 0 reset, KEY 3..1, SW 0, HEX | `Sistema` |
| Program | `display/hello_world_small.c` | place, loop index | print; write speed, pause, text; print; pause and resume for ever | `Sistema` |
| Common reset | `myhardware.vhd` | none | resets processor, console and scroller together | `Sistema` (`Boot`) |
| Polled JTAG console | `altera_avalon_jtag_uart_write.c`, `myhardware_jtag_uart_0.v` | driver's pointer, bus handshake, FIFO | polled write; two-edge transfers; a host empties the FIFO | `JtagUart`, `Canal` |
| JTAG UART driver | `altera_avalon_jtag_uart_*.c` | two circular buffers, saved interrupt enables, host activity | write, read, close, ioctl; handler; alarm that looks for a host | `JtagRapida` |
| UART driver | `altera_avalon_uart_*.c`, `myhardware_uart_0.v` | two circular buffers, control word | write, read, close; handler; transmitter and receiver | `UartRapida` |
| SPI driver | `altera_avalon_spi.c`, `myhardware_spi_0.v` | credits, pointers; holding and shift registers | `alt_avalon_spi_command` with its flags | `Spi` |
| Timer | `altera_avalon_timer_*.c`, `myhardware_timer_0.v` | counter, period, snapshot; ticks | system clock handler; timestamp start and read | `Temporizador` |
| Alarms | `alt_alarm_start.c`, `alt_tick.c` | doubly linked list, `_alt_nticks` | start, stop, walk with callbacks | `Alarmes` |
| Time of day | `alt_gettod.c`, `alt_settod.c`, `alt_times.c` | tick counter of two words, time at reset | set, get, times, clock registration | `HoraDoDia` |
| File descriptors | `alt_open.c` and 24 others | pool, device and file-system lists, lock flags | open, close, read, write, ioctl, fcntl, lseek, fstat, isatty | `Descritores` |
| Interrupts | `alt_iic*.c`, `alt_irq_*.{c,h,S}`, `alt_exception_entry.S` ... | `ienable`, PIE, table of handlers | register, critical sections, entry, dispatcher, nesting, exceptions | `Interrupcoes` |
| Addresses | `system.h`, register headers, `myhardware*.{v,vhd}` | none | macros against decoder, interrupt mapper, read multiplexers | `Enderecos` |
| Log, small printf | `alt_log_printf.*`, `alt_printf.c`, `alt_putcharbuf.c` | on-flags, port, buffer | levels, echo, heartbeat, poll and write; the two formatters | `Registro`, `Impressao` |
| Caches | `alt_dcache_*.c`, `alt_icache_*.c`, `alt_uncached_*.c`, `alt_remap_cached.c` | lines, dirty bits | flush, discard, uncached memory | `Cache` |
| Heap | `alt_sbrk.c`, `alt_stack.h` | heap end, stack limit | sbrk from program and exception, stack check | `Monte` |
| Profiling | `alt_gmon.c`, `alt_mcount.S` | lists of functions and arcs, samples | count a call, interrupted anywhere; sampler | `Perfil` |
| Start-up | `crt0.S`, `alt_load.c`, `alt_main.c` ... | sections, processor state | copy, clear, constructors, main, destructors, exit | `Arranque` |
| `usleep` | `alt_busy_sleep.c` | a register, microseconds left | three asm loops | `AltBusySleep` |

(`src/` left out where a name is unique; drivers and HAL are under
`src/software/display_bsp/`, generated hardware under `src/myhardware/synthesis/`.
`PROJECT.json` lists the files of each part and what of it is left out.)

Interaction. The program and the user act on the same registers: the program
through single-cycle Avalon writes, the user through levels that the control
block samples at the clock. The control block hands `scroll_idx` and the switch to
the display block. The program waits for the console whenever its FIFO is full; a
reset restarts the program and clears the FIFO and the registers, but neither the
text memory nor `btn_prev`. In the support package the timer's interrupt drives
the ticks, the ticks the alarms, an alarm the host check of the console; the
descriptors hand a call to a driver. These parts meet only in interfaces of a
call or an interrupt, so each is a module that takes the other side as "any
caller" or "any handler".

What is hard: two writers of one register at one edge (the last assignment of the
VHDL process wins); a branch (standby) that silently drops writes and leaves the
edge detectors alone; locks tested before a step is applied; a 26-bit counter
against a 32-bit limit; inputs without synchroniser; resets in the middle of
anything; a polled write that blocks when nobody reads; in the package, words that
program and handler both read, modify and write; lists walked while they change;
counters read in two halves; buffers at their limit; caches that are stale.

What makes each part correct:

* control block: the limit keeps to its locks, the counter to its range; the text
  advances letter by letter, for ever, each letter for a bounded time; a press
  acts once.
* display block: a picture that a person can read. Bus slave: an address reaches
  one register or the text, never two. Scroller as a whole: the picture only moves
  left by one letter, while it is being rewritten, too.
* program and board: the phrase gets into the memory whatever resets, standby and
  a missing host do; what the program announces is true.
* character drivers: nothing lost, doubled or reordered; no buffer overflows; no
  interrupt stays off with characters to move; nobody waits for ever.
* timer, alarms, time: ticks keep up with the clock, an alarm rings when it is
  due and never after it was stopped, the time of day is the time set plus the
  time since.
* descriptors: a slot is given back however a call fails; the reduced calls do
  what the full ones do; an exclusive device is alone.
* interrupts: a handler gets its own context, masks survive nesting, the most
  urgent request is served.
* memory: heap and stack stay apart, no store is lost in a cache, every start
  begins from the compiled images.
* formatters, profiler, addresses: the digits printed are those of the number;
  no call is lost or counted twice; software and hardware agree on the map.

## 2. Modules

Names are those of the source. Bits are 0 and 1; the keys are active low. An
operator `X_Suffix` beside an operator `X` is a deliberately wrong version of `X`
that no specification uses: each property is tried on one of them (`PROJECT.json`,
`mutants`) to see that it can fail.

### The peripheral and the program

* **`BlocoControle`** - one step is a rising edge or the change of one input level
  between edges. `ResetEdge`, `StandbyEdge` and `RunEdge` are the three branches of
  the process (48-52, 55-57, 60-108). In `RunEdge` all right-hand sides read the old
  values and `NextLimit` and `NextPaused` give the assignment that comes last
  (slower, faster, write; toggle, write). The bus presents at most one of its two
  enables, as the decoder guarantees (`ControlRefinement`).
* **`Faixa`** - properties of the control block when the bus writes any speed less
  than one `Step` outside the locks; **`Travas`** - when the speeds are whole numbers
  of `Step`s above the lower lock, as the program's 5 000 000 is.
* **`Letreiro`** - the abstract marquee, with no limit, divider, button or bus: tick,
  advance by one when the dwell is long enough, restart the dwell, rewind.
  `Travas!ImplementsMarquee` says that the control block implements it, with
  `idx <- scroll_idx`, `elapsed <- speed_counter`.
* **`Acionamento`** - `BlocoControle` with an observer that counts how often the block
  acts on a key since it went down; **`Amostragem`** - the same with a key that moves
  at the clock edge, when `is_paused` and `btn_prev` may each catch either level.
* **`BlocoOperacional`** - memory, write port, segment table, window; operators that
  **`Painel`** turns into a specification and **`ScrollerAvalon`** composes with the
  control block (`INSTANCE`s of both; one bus cycle is one step of both).
* **`Canal`** - abstract console, a bounded queue that delivers a text in order;
  **`JtagUart`** - driver, two-edge Avalon transfers and FIFO, edge by edge. The
  character enters the FIFO one edge after the slave accepted the write and is taken
  from the bus then. `ImplementsConsole` is its refinement of `Canal`.
* **`Sistema`** - the program as a sequence of places, at most one bus access per
  edge, `Idle` edges in between; the scroller as an `INSTANCE`; the console's FIFO by
  its occupancy (what `JtagUart` shows to be enough: the driver waits exactly while it
  is full); the user, the reset, and a host that is never there, comes and goes. The
  four statements of lines 42-46 are the loop body of 50-54 once more and share its
  places.

### The character drivers

* **`JtagRapida`**, **`UartRapida`** - the interrupt-driven drivers. A call of the
  program is cut wherever it touches what the handler touches; the handler runs with
  interrupts off, but device and host go on meanwhile. Characters are numbered, so
  that order and loss are visible. The device is what the generated Verilog and the
  register descriptions of the drivers say: the interrupt-pending bits follow the
  FIFO levels, TRDY and RRDY the holding registers. What both promise,
  `CharactersInOrder`, is stated in `Consoles`.
* **`Spi`** - `alt_avalon_spi_command` access by access. The transmitter, the shift
  register and the receiver's holding register each hold a word; the credits are
  what keeps the third from being overwritten.

### The rest of the support package

* **`Temporizador`** - the counter of the timer at every edge, the interrupt handler
  in its three accesses, the timestamp driver with its snapshot.
* **`Alarmes`** - the doubly linked list as two functions `next` and `previous`; the
  walk of `alt_tick` one alarm per step, its callback starting and stopping alarms.
* **`HoraDoDia`** - `settimeofday`, `gettimeofday`, `times`; the tick counter has twice
  the word of the processor, and a tick may come between the two loads.
* **`Descritores`** - lists of devices and file systems, pool, every call on a
  descriptor; the reduced calls of a build with direct drivers beside the full ones,
  which they are compared with (`StdioAlike`).
* **`Interrupcoes`** - a stack of frames: program, critical sections, the steps of a
  registration, entry code, dispatcher, handlers, nested handlers, exceptions. Handlers
  enable, disable and register lines; with `CallsNested` they do so inside an
  interruptible one, too.
* **`Enderecos`** - a step is one access through a macro; the address decoder, the
  mapper of interrupts and the read multiplexers say what it reaches.
* **`Registro`** - the log: switches, port, heartbeat, echo; **`Impressao`** - the two
  formatters, one character of the format per step. What the small one prints goes one
  character at a time into the buffer of `alt_putcharbuf`; a flush gives it to a `write`
  that may take any part of it, and forgets the rest (`alt_putcharbuf.c:76-77`).
* **`Cache`** - of a byte only the age of its copies (memory, line) is kept; the text of
  the program is larger than the memory that is written, so that instruction lines compete.
* **`Monte`** - `sbrk` against a stack that grows and exceptions that switch stacks, built
  with ALT_STACK_CHECK or without, as this board's is (`public.mk`): an initial choice.
* **`Perfil`** - `mcount` cut at every access to its lists; the sampler. The lists
  are sequences with the newest entry last, so that an entry keeps its place when others
  are put in front of it.
* **`Arranque`** - from reset to `_exit`, with resets at any moment.
* **`AltBusySleep`** - `alt_busy_sleep` in the processor's words, as compiled: the
  register of the big loop is loaded once (`display.objdump:795`).

### Modules for the runs

`MCScrollerAvalon`, `MCSistema`, `MCAltBusySleep`, `MCDescritores`, `MCConsole`,
`MCControle` and `MCPlaca` give values to constants that a `.cfg` cannot write, and do
nothing else. `Controle`, `Consoles` and `Placa` are sums:
parts that share no state stand side by side, an initial choice (`block`, `part`) says
which one runs, and the others rest in their initial states. The behaviours of a sum are
the behaviours of its parts, so that the properties of a part hold of the part alone,
and its size is the sum and not the product of theirs. Each part's own `Init`, `Next`,
fairness and specification are in its module and can be run alone. `Placa` is the sum of
the thirteen parts of the support package, with the assumptions on its constants that
its proofs need. `Controle` is the sum of the two blocks of the scroller, `Consoles` that
of the four drivers that carry characters.

## 3. Runs

| Run | Properties | Instance |
|---|---|---|
| `faixa` | `LimitInWindow`, `CounterInRange`, `ScrollKeepsMoving` | text 3, Step 2, locks 2..6, speeds 1, 2, 5, 7 |
| `controle` | control block: `SpeedLocks`, `DwellBounded`, `ActsOncePerPress`, `ImplementsMarquee`; display block: `PanelReadable` | text 3, Step 1, locks 1..4, speed 2; two cells with every digit, letter and neighbour of their ranges, so that every pair is seen |
| `scroller` | `ImplementsControl`, `TurnsSmoothly` | text 4, window 3; text at three positions, both pauses, a speed and a stray write |
| `sistema` | `TextLoaded`, `TextEventuallyStays`, `SpeedConfigured`, `PauseLeftAlone`, `TextNeverStops`, `ImplementsScroller` | text 3, FIFO 2, 1 + 3 characters printed, KEY 1, switch, reset, host |
| `console` | `NoOverflow`, `ImplementsConsole`, `JtagSafe`, `UartSafe`, `SpiSafe`, `CharactersInOrder` | polled: FIFO 3, text 7, two resets; buffers of 3, FIFOs of 1, four characters; two SPI slaves, two commands of up to 2 + 2 bytes |
| `console_espera` | `PolledDelivers`, `ConsoleLive` | the same with buffers of 2 and fewer characters |
| `placa` | `BspTypeOK`, `TimeSafe`, `AlarmSafe`, `FdSafe`, `IrqSafe`, `AddressesAgree`, `PrintSafe`, `LogSafe`, `MemorySafe`, `ProfileSafe`, `Calibrated`, `DescriptorsKept`, `BspLive` | see below |
| `amostragem` | violated: `ActsOncePerPress` | text 2, locks 1..2 |
| `sistema_anuncio` | violated: `HardwareInCharge` | as `sistema` |
| `sistema_configurada` | violated: `ConfigurationDone` | as `sistema` |
| `busy_sleep_long` | violated: `Calibrated` | delays 0..306 in words of 10 bits |
| `trava_exclusiva` | violated: `ExclusiveMeansAlone` | pool of 5, two devices |

Properties that are conjunctions, and where their conjuncts are stated: `JtagSafe` = the
FIFO is not overrun, what lies in the transmit buffer has an interrupt or a write on its
way to arm it, receiving is off only while there is no room or a read is about to turn
it on. `UartSafe` = the same of the UART's two directions. `SpiSafe` = no overrun, a
command exchanges the bytes it was asked for with the slave it names, the select line is
held throughout. `CharactersInOrder` = both directions of both drivers. `PanelReadable`
= `DigitsReadable`, `LettersReadable`, `NoOthersConfused` (the segment table draws 0 O,
1 I, 2 Z, 5 S, 6 G, A M, H K X and U V W alike, and nothing else). `ImplementsControl` =
the refinement, and `EachToItsOwn`, that a write reaches what it addresses and nothing
else. `ConsoleLive` = `NoWaitForEver` (JTAG calls whose timeout is on), `TxDrains`
(UART), `SpiReturns`. `TimeSafe` = `TicksKeepUp`, `TimestampTrue`, `Truthful`.
`AlarmSafe` = `ListIsRing`, `AlarmsOnTime`, `CalledOnce`. `FdSafe` = `HandlesExact`,
`StandardOpen`, `StdioAlike`; `DescriptorsKept` = `LockRespected`, `HandlesKept`, at
every step. `IrqSafe` = `TableConsistent`, `NestedByPriority`, `ControllerRestored`,
`InstructionsOnce`. `MemorySafe` = `HeapApartFromStack`, `LimitFollowsHeap`,
`ReadsLastStore`, `FlushReachesMemory`, `CodeIsFetched`, `StartsAfresh`,
`DestroysAsConstructed`. `PrintSafe` = `ConversionsExact`, `NothingLeftInBuffer`,
`HexShortest`. `LogSafe` = `LostOnlyInGaps`, `EchoIsHarmless`, `SilentMeansSilent`.
`ProfileSafe` = `CallsCounted`, `CopiesBounded`. `BspLive` = `ClockTicks`, `TickEnds`,
`MostUrgentServed`.

### Bounds

The control block's constants keep the order of the real ones: Step = lower lock (or
below it) < configured and default speed < upper lock < declared range of the counter <
its synthesised width < word. The real values only lengthen the runs of ticks between
two advances. The text is longer than the window where windows matter and wraps several
times. In `sistema` what is printed first fits in the FIFO and the rest does not, as the
44 and more than 200 characters and the FIFO of 64 do. `JtagUart` bounds the resets
(`MaxResets`) and the printed text.

The circular buffers have the fewest slots with which they are empty, neither, and full
in either direction of wrapping, and more characters travel than they hold; the alarm's
timeout and INT_MAX are close enough for silence to reach both. In `placa`: a timer
whose period is longer than its handler; three alarms, so that one is inserted, removed
and run before, at and behind the walk; a tick counter whose low word carries twice; two
lines and two versions of each handler; a pool of 5 with two devices, a file system and
a name nobody knows; words of 8 bits with the extremes of both signs, formats of any
text with conversions of at most 4 characters; a buffer that a printf fills and a
`write` that takes anything from none of it to all; 4 bytes of memory in lines of 2, 8
bytes of text against an instruction cache of two such lines, so that a flush must find
the line that holds the address and leave the other; a heap of 6 words; one profiled
function with two callers and two calls in every context (a second function would share
nothing with the first but the bucket, whose list the two callers already lengthen); the
sections as the linker laid them out. `IdModulus`, `PtWord`, `WordMod` and `Factor` are
the widths of words.

### Fairness

The clock does not stop (`WF(Clock)`); the processor goes on executing (`WF(Work)`,
`WF` of `Working`); a host that stays plugged in goes on reading (`WF(Drain)`,
`HostFair`). Nothing is assumed of the user: liveness properties that need a quiet user
say so with `<>[]`, and `TextNeverStops` lets him press KEY 1 at every edge.

In the drivers, handler and device are weakly fair. The program is strongly fair: it
runs only while no handler does, so that it is disabled and enabled again and again, and
a handler that returns leaves it an instruction. The alarm that looks for the JTAG host
is strongly fair, as it comes with every tick; and a host that is there again and again
takes what waits for it. In the support package the timer, the walk of the alarms, the
entry, the dispatcher and the handlers are weakly fair, which is the processor
executing.

### Stated and not run

Some sentences of the documentation and comments are stated as properties next to the
models, and TLC finds each violated by what the code does, but no run repeats it:

* `Spi!MergedTogether` - `alt_avalon_spi_command` writes 0 to the control register only
  without MERGE, so that the flag must be on every access but the last, where the
  header's comment (`altera_avalon_spi.h:55-58`) says all but the first.
* `JtagRapida!EioMeansNoHost` - a blocking write that took nothing answers EIO as soon as
  the host was silent for one period, not for the timeout.
* `UartRapida!FullBufferKept` - a read ends by switching the receive interrupt on whether
  or not there is room (`altera_avalon_uart_read.c:226-229`). If the buffer filled after
  the read took its last character, or the read asked for none, the next character moves
  `rx_end` onto `rx_start`, and a full buffer counts as empty.
* `UartRapida!DiscardsDamaged` - the handler clears the error flag of a damaged character
  and returns without taking it from the device; it is still there at the next interrupt,
  now without its flag, and is stored.
* `Monte!OverflowMeansOverflow` - on the exception stack line 124 compares a limit with
  itself plus the increment and so reports at every `sbrk`. This build has no exception
  stack.
* `Monte!LimitFollowsHeap`, with increments that are no whole words - `sbrk` aligns the end
  of the heap at the beginning of a call, not at its end. After a request of one byte the
  stack limit is the unaligned end; the next call aligns first, no longer finds the limit
  there, takes the stack for another one and leaves the limit behind for good, so that
  what is allocated later is not part of the check for stack overflow. `malloc` asks for
  whole words, with which the run `placa` checks the property and a theorem proves it.
* `Monte!NeverRefuses` - the comment of `sbrk` (`alt_sbrk.c:46-48`) says that it does no
  bounds checking and gives memory even where that collides with the stack; line 88
  refuses what lies beyond the heap's limit. Of the stack the comment is right: without
  ALT_STACK_CHECK nothing keeps the two apart, and `HeapApartFromStack` claims it only
  with.
* `Temporizador!RolloverIsMinusOne` - after a whole turn `alt_timestamp` returns 0, as
  the comment inside it explains; the one above it (`altera_avalon_timer_ts.c:96-98`)
  promises -1.
* `Registro!EchoesTheFirst` - `alt_write` echoes the first `ALT_LOG_WRITE_ECHO_LEN`
  characters of a printf, says `alt_log_printf.c:437-439`; the end of the line takes the
  place of the last of them, and a text of one character is not echoed.
* `Registro!HeartbeatEveryInterval` - the heartbeat comes every `INTERVAL` + 1 ticks,
  where `alt_log_printf.c:464-466` says every `INTERVAL`: the count starts again only
  once it has passed it.
* `Interrupcoes!NestedByPriority`, with `CallsNested` - `alt_irq_enable`,
  `alt_irq_disable` and a registration write `ienable` without the priority mask
  (`alt_legacy_irq.h:75-76` and 93-94). A handler that calls one of them between
  `alt_irq_interruptible` and `alt_irq_non_interruptible` lets less urgent interrupts
  in. No document forbids it and no driver of the package does it: the run and the
  theorem have such calls in handlers, but not while a line is held back.
* `HoraDoDia!ReadsATick` - the two loads of the tick counter are not locked
  (`alt_alarm.h:112`); a tick that carries between them gives a value the counter never
  had.
* `Registro!WaitsUntilReady` - between the poll of the port and the write an interrupt
  that logs may take the last room.

## 4. What the violated runs show

* `sistema_anuncio` - the program announces that from now on the hardware controls
  everything (line 36, and the comment of line 55), and then pauses and resumes the text
  every ten seconds, over what the user chose with KEY 1. With no host it never gets that
  far (`PauseLeftAlone`): the printfs fill the FIFO and it stops.
* `sistema_configurada` - with SW 0 off while the program configures, the standby branch
  drops speed and pause; the text gets through. The program announces a finished
  configuration, and the text later runs at half the configured speed. With the switch on
  throughout, `SpeedConfigured` holds.
* `amostragem` - a key that goes down at the clock edge can be seen by `is_paused` and
  missed by `btn_prev`, and the next edge toggles again.
* `busy_sleep_long` - a delay of one big loop exactly, or of more than one, sends a
  decrement-then-test loop in with 0, and it turns through the whole word. The program's
  delays (10 s, the limit is 429 s) do not get there.
* `trava_exclusiva` - `alt_fd_lock` looks for other descriptors of the device with
  `i < alt_max_fd`, and `alt_max_fd` is the highest descriptor, not a count: the highest
  one is not looked at. It takes two descriptors beyond the standard three; the build's
  pool of 4 has room for one.

Two things worth knowing are no findings. The locks are tested before a step is applied,
so that a speed off the notches can pass a lock by less than a step (`LimitInWindow` is
the exact statement); the program never writes one. And a key pressed in standby and held
acts when the switch goes on: no document says whether it should.

## 5. Proofs

All proofs are checked by TLAPS (SMT, Zenon, and LS4 for the temporal steps), for every
value of the constants that the named assumptions admit. These keep order and divisibility
of the real constants; only `PtAssumption` also bounds one from above: a word has at most
eight digits to the base 16, as the HAL's have with their 32 bits. The addresses in
`Enderecos` are no constants but the numbers of `system.h`.

* `BlocoControle_proofs`: `TypeCorrect`, from `ControlAssumption` alone. `StepType` is
  the step, `ClockCases` the case split that all others reuse.
* `Controle_proofs`, first about `Faixa`: `LimitStaysInWindow`, `CounterStaysInRange`,
  under `WindowAssumption`. Neither the counter's range nor its increment can be bounded
  without the limit, so that `FaixaInv`, the conjunction of the two, is what is
  inductive (with `TypeOK`). Then about `Travas`: `LocksHold` and `MarqueeRefinement`,
  under `NotchAssumption`. `SpeedLocks` is not inductive: at 1.5 steps above a lock it
  holds and fails after one press. The strengthening is `DwellBounded`: the limit is on
  a notch, and the counter is at most the upper lock. `NotchAbove` and `NotchBelow`
  carry the arithmetic; the refinement is one lemma for the divider (`ScrollMarquee`:
  stutter, tick or advance) and one step per other action. Next about `Acionamento`:
  `OncePerPress`, for every value of the constants. The invariant is `DetectorInv`:
  after an action on a key, key and detector are both down; standby and reset leave the
  detector alone. Then about the panel, with `PanelAssumption` not even needed:
  `PanelIsReadable` follows from the segment table alone (`DrawnAs`). `DigitsDrawn` goes
  through the ten digits, `CharactersShown` through the two cases of the letters and the
  groups drawn alike, at any position of a window of any width over a text of any
  length. Last about `Controle`, the specification of the run: `BlocksAreSafe` and
  `BlocksScroll` carry the above over to it.
* `ScrollerAvalon_proofs`: `ControlRefinement`, that the control block behind the
  decoder sees only cycles that `BlocoControle` admits, and that a write reaches what it
  addresses and nothing else; from it, through an instance of `BlocoControle_proofs`,
  `SlaveTypes`; and `PictureTurns`, that the picture turns smoothly. Its heart is
  `RingOfCells`: the six positions of a window that is no longer than the text are
  different cells, and moving the index by one moves each display to the cell of its
  right neighbour. A display that shows something else then shows a cell written at that
  edge (`ChangesAreRewritten`).
* `Consoles_proofs`, first about `JtagUart`: `FifoNeverOverflows`, `TypeCorrect`,
  `ConsoleRefinement`. `NoOverflow` is not inductive, since the driver's test lies two
  transfers before the entry. The invariant `ConsoleInv` adds `Handover` (the driver has
  seen room, then the character stands on the bus, then its strobe is up, and the room
  is still there) and `Counted` (delivered and queued make up what the driver's pointer
  has passed). A character entered is then the next of the text, which is the abstract
  console's step.

  About `UartRapida` and `JtagRapida`: `UartNeverStranded` and `JtagNeverStranded`.
  Neither safety property is inductive: they speak of the register, while program and
  handler decide from the saved copy. `ControlKept` relates the two (they agree but at
  the end of a transmit interrupt, where the copy is ahead); `TxArmed` holds in the
  handler, too. For the JTAG UART, `JtagArmed` says the same, and that the receive loop
  runs only while receiving is on, so that no read can overtake it; a read that took
  something counts more than 0 (`JtagNumbers`). `FifoRoom` bounds what the handler may
  still write by what the host can only reduce.

  `ConsolesInOrder` joins four theorems, one for each driver and direction, about
  characters numbered as they are written or come in. Their invariants say what each
  place on the way holds: for the JTAG UART `OutChain` and `InChain`, that the buffer
  between its two ends and the FIFO hold just the numbers between the first counter and
  the last, a piece counting as it is copied, before its end is published (`Piece`,
  `Taken`), and that the piece a call works on was found between the ends and is still
  there (`PieceFits`, `PieceThere`). For the UART `TxChain` adds the transmit and the
  shift register, and `SeenEmpty`, that the register the handler saw empty stays so until
  it fills it. Its receiver may lose characters and its handler may lap a read, so that
  `RxChain` only orders them: whatever a read can still come to (`Unread`, which after a
  lap is the whole buffer) came after what it has read, stands in the order it came in,
  and the receive register comes after it.

  About `Spi`: `SpiIsSafe`, the invariant `SpiSafe` of the run `console`, for any slaves
  and any number of bytes. Nothing of it is inductive. `Credits` is the account: the one
  credit is either the driver's or a byte in the holding register, in the shift register
  or waiting in RXDATA, so that `SpiNoOverrun` follows. `Exchange` says what has been
  exchanged so far: the wire holds the first `Shifted` bytes of the command, the byte on
  its way is the next, and the answers taken are those of the bytes sent to read.
  `Holding` keeps the select line under them.

  Last about `Consoles`, the specification that the run checks: `ConsolesAreSafe` and
  `ConsolesKeepOrder` carry the above over to it (`PartsAlone`: a step of one part leaves
  the others as they are). `ConsoleTypes` is its type invariant `ConsoleTypeOK`. That
  counts and indices stay in range needs what the drivers have still to move:
  `JtagBudget` and `UartBudget` say that the characters left, written, come and given to
  a write but not copied yet are together no more than there are, and that a call has
  not moved more than it was asked to; that the write FIFO holds numbers of
  characters rests on `OutChain`, that pieces lie in the buffers on `PieceFits` and
  `PieceThere`. For SPI, `AnswersFit`: each answer kept stands for a
  byte sent, by `Exchange`.
* `Sistema_proofs`, under `SystemAssumption`: `PhraseIsLoaded` needs `LoopInv`, that the
  index stays inside the text and is 0 before the loop; everything before the index is
  written. `ScrollerRefinement`: whatever the program puts on the bus is a cycle of the
  scroller. `SpeedInForce` (for a user who keeps to KEY 1, and a configured speed that is
  not a negative word) by `SpeedInv`, that the speed is in force from the end of its
  write on. `NobodyReadsNobodyPauses` (less room than the two groups of printfs need) by
  `UnreadInv`, that until a host comes the FIFO holds all that was printed.
  `BoardTypes`, under `ScrollerAssumption` as well, is the board's `TypeOK`: the scroller's
  part comes from an instance of `ScrollerAvalon_proofs` at the words the program writes,
  the rest from `PlaceInv`, which says where the program is in its loops.
* `Tempo_proofs`, four parts.

  `IrqIsSafe`: `IrqInv` describes the stack of frames: all but the innermost are
  handlers that have let more urgent interrupts in (`Nesting`), each keeps the mask of
  the frame below it (`Masks`), so that `ControllerRestored` follows at any depth, and
  inside a critical section there are only exceptions of instructions (`Outermost`).
  What handlers call on the controller they call with every line let through, so that it
  leaves no mask undone (`HandlerCallKeeps`). `Table` says that only the entry under
  registration may be half written; its line is then not served.

  `ClockIsTrue`: `TimerInv` = `BootInv` (the ports before and after the drivers have
  started), `ClockInv` (the counter and how many ticks the handler is behind, at most
  one) and `StampInv` (the counter of the timestamp is as many edges below its period as
  have passed since its start, until it stops at the end of the turn; a snapshot is what
  it was when it was taken).

  `TimeOfDayIsTrue`: what a call has read of the counter are the low word of one time and
  the high word of a later one, both during the call (`CallOK`); what is stored is the
  time set less what was so read (`SetOK`); so an answer lies between two bounds
  (`AnswerOK`). The sum is within a second of its range, so that the two normalising
  loops take one turn at most.

  `AlarmsAreSafe`: `AlarmInv` says that there is an order of the running alarms in which
  `next` and `previous` are each other's inverses, and how far the walk of `alt_tick` has
  come in it: all before the place it remembers have been called in this tick or were
  not due, and what is late is at or behind it (`Progress`), whence `CalledOnce`. Arguments
  that would go by induction take the least number with a property instead
  (`LeastNatural`, `NaturalSteps`), since no prover here can instantiate the induction
  theorems.
* `Suporte_proofs`, seven parts.

  `CacheIsCoherent`: `CcInv` says that what is in the cache is fresh, what is not in a
  dirty line is in memory, and the lines of a block that is accessed around the cache are
  its own and not in the cache.

  `HeapAndStackApart`, without the stack check and with it: `HpInv` adds to the
  properties that the end of the heap is aligned and the stack whole words from its top,
  and that on the exception stack the limit put aside is the end of the heap.

  `BootIsSound`: `BtInv` says which sections are as compiled at each place of the
  start (`LoadOK`), what has been constructed and destroyed (`RanOK`), and which lines the
  drivers' initialisations have enabled (`LinesOK`).

  `FilesAreSafe`: `FdInv` adds to `HandlesExact` that a flag is only on a descriptor of
  a device at or below `alt_max_fd` (`Flagged`) and, after the redirection, the
  console's (`Redirected`), from which `AlikeDrivers` compares the reduced calls with
  the full ones. `DescriptorsKept` is the action property (`KeptForHolders`).

  `LogIsSafe`: `LostOnlyInGaps` is not inductive; `LogInv` counts with the characters
  lost the one that may still be (`Owed`: that of the program, when it polled before an
  interrupt logged and until it is written or the port has a place again).

  `PrintfIsWhole`: what was written, what was lost in a short `write`, what waits in the
  buffer and what is still to be put into it are together as long as what was to be
  printed, and as long as nothing was lost they are just that (`PtInv`).

  `NumbersAreExact`: the recursive functions that count digits and take them are shown to
  exist (`CountExists`, `DownExists`: the least word for which one did not would have one,
  since it asks only for smaller words) and so to be what they say (`CountIs`, `DownIs`).
  `LargestPlace` finds a row of places, each the base times the next, that ends in 1 and
  whose first is at most the number; `DigitsAtPlaces` says that the digit printed at each
  is the one of that place, and `Numeral` that the digits have no leading 0 and read back
  as the number. `RowIsHex` and `HexIsDigits` compare the row to the base 16 with
  the shifts of `alt_printf`. `IntegerIsNumber` adds sign and filling. What a conversion has
  asked for is invariant while it is read (`AskedInv`): the width that the formatter
  has counted up is the one read from the characters alone (`PtReading`, `WidthsGrow`), so
  that the letter at its end prints the number in that width (`ConversionEnds`). The width
  is a number of any size there; the `int` of the code holds those of nine digits.

  `ProfileIsTrue`: neither count is inductive. `PfInv` says of every call under way what
  it knows of the lists (`Knows`: until it adds to it, the entry it has found is the
  newest of its function, and an interrupt that found none is still right) and bounds
  the copies of an arc together with those still to come (`CopiesFit`): that of a call
  of an interrupt that has not found the arc (`Entering`), that of the program's
  (`Recording`), and the copies hidden below a newer entry of their function, of which
  there is at most one per interrupt. `Entered` is a new arc in the lists, under a new
  function or an old one, and the lemmas on it count marks and copies.
* `Placa_proofs`: the board support package as a whole, with `StepOfParts` (a step of the
  sum is a step of each part or leaves it alone), from which `TimeIsTrue`,
  `MemoryIsSafe`, `AlarmsKeepTime`, `InterruptsAreSafe`, `DescriptorsAreSafe`,
  `LogKeepsItsLines`, `PrintsAreExact`, `ProfileIsSafe`, `DelaysAreTrue` and the type
  invariant of them all, `BoardStaysInRange`, follow for the specification that the run
  `placa` checks; and `SleepIsCalibrated`, whose invariant `SleepInv` says what each of
  the three loops has left to wait.

  `AddressesAreRight` is proved from the addresses themselves. A slave answers exactly in
  its range (`RangeReached`), since every span is a power of two (`Pads`), every base a
  multiple of it (`RangesAligned`) and no two ranges meet (`RangesApart`). So a macro
  reaches its register (`MacroHits`). `MasksOfBits` and `WordMasks` say that a mask finds
  the wire it names, in a word of any value. `ReachesKept` and `ComparedByAge` carry both
  and the comparison of time stamps through the steps.

Hypotheses. What is not an assumption on the constants, but a condition that the code
leaves to the board or to its callers, stands in the theorem:

* `Prompt`: the handler's four waits, of `Latency` edges at most each, fit in the period of
  the system clock. The period is 50 000 edges (`system.h:506`), a wait is the few hundred
  edges in which the processor enters an interrupt or makes an access.
* `LaidOut`: the sections of the program do not overlap, as the linker leaves them
  (`src/software/display/display.objdump`).
* `Room`: the pool has a slot beside the three standard streams (`ALT_MAX_FD` > 3;
  `system.h:380` has 4). With three, the redirection of the standard streams finds no
  slot for the files it opens.
* `AlignedIncrements`: `sbrk` is asked for whole words. For others see section 3,
  "Stated and not run".
* `ShortRequests`: delays of less than two chunks and not of exactly one. For others see
  `busy_sleep_long`.
* `~CallsNested`: no handler enables, disables or registers a line while less urgent
  ones are held back. For others see section 3, "Stated and not run".
* `~StopsOthers`: no callback stops an alarm other than its own. For others see section 6.

Only model-checked: liveness (`ScrollKeepsMoving`, `TextEventuallyStays`, `TextNeverStops`,
`PolledDelivers`, `ConsoleLive`, `BspLive`): under fairness it is out of the prover's
reach, as is ENABLED. Every safety invariant and action property of the passing runs is
proved, and so are the refinements.

## 6. Not modelled

* The polled drivers' read functions; the UART's flow control, its ioctl and its polled
  driver. The board's UART has no CTS line, and the program reads nothing.
* `sbrk` with a negative increment; the slabs of the profiler and the writing of
  `gmon.out`; the external interrupt controller and ECC, which this processor does not
  have; the calls of the HAL that only set `errno`; DMA channels and flash devices, which
  the board does not have; `alt_remap_uncached`, which only raises a link error.
* Blocks that do not begin and end on a line, given to
  `alt_dcache_flush_no_writeback`: it throws away what neighbours stored in the same
  line, and its description leaves that to the caller. `Cache` only calls it with whole
  lines.
* Alarms: starting one that is running (left to the caller); callbacks that stop the
  alarm the walk goes to next (`StopsOthers` admits them, and the ring breaks; no
  document says whether it is allowed). Tick rates that do not divide 1 000 000.
* The histogram of the profiler has `.text` divided by 32 buckets (`alt_gmon.c:226`),
  and the sampler counts an address in its quotient by 32 (line 265): what is left of
  `.text` behind the last whole bucket (here 24 of 1816 bytes, `display.objdump:24`) is
  counted past the buffer. `PfTypeOK` admits that bucket; the memory it lies in is not
  modelled.
* `close` of the standard descriptors. SPI commands with nothing to
  write and nothing to read.
* The Avalon interconnect (single-cycle writes to the scroller have no wait states), LEDs,
  SPI and UART pins, clock networks and PIO; contact bounce other than as keys that move
  at any time; the wording of what is printed; real time: sleeps end eventually, and
  nothing relates their length to the speed.
* The copies of the three VHDL files that the synthesis reads, and the results of builds.

## 7. What could come next

1. `Sistema` with the console of `JtagUart` instead of its occupancy, and with the speed
   buttons.
2. Alarms, timer and JTAG driver composed: the host check with its real period.
3. The switch and the other keys moving at the clock edge (`Amostragem`), and an observer
   for presses that are lost across standby.
4. The length of the program's sleeps against the dwell of a letter.
