# TLA+ models of panog1_opl3

panog1_opl3 turns a Pano Logic G1 thin client into an OPL2/OPL3 music player: a
Verilog system on chip (`src/fpga/`) around a PicoRV32 CPU, and the firmware it
runs (`src/fw/`). This directory holds TLA+ models of its parts, the TLC
configurations that check them and TLAPS proofs about them. Paths below are
relative to the repository root.

## 1. The system

| Part | Source | State it keeps | Operations |
|---|---|---|---|
| LPDDR cache | `src/fpga/mig/ddr_cache.v`, `bram_256_72.v` | two ways of block RAM with their output registers, registered comparators, sweep counter, write source, request to the memory | reset sweep, hit, clean miss, dirty miss with write-back, byte overlay |
| LPDDR bridge | `src/fpga/mig/cache_mig_bridge.v` | `bridge_state`, `datapath_state`, wait counter, read buffer | start-up, refresh wait, write burst, read burst, one-pulse answer |
| MIG controller | `src/fpga/mig/mig_controller_0.v` and the data path beside it | command registers, refresh requester, timing counters, main and initialisation state machines | initialisation, activate/burst/precharge, auto refresh |
| CPU and bus | `src/fpga/picorv32.v`, `src/fpga/pano_top.v` | the CPU's request registers, decoded address registers, `default_ready`, `cpu_irq` | look-ahead decode, one answer per access, trap on an unmapped address |
| Reset chain | `src/fpga/pano_top.v`, `src/fpga/mig/mig_infrastructure_top.v`, `src/fpga/idt_clkgen.v` | reset counters, clock-chip loader | release the CPU after the LPDDR has initialised |
| OPL2 core | `src/fpga/opl3/` | register file, operator and channel sequencer, phase, envelope, vibrato and tremolo banks, feedback | one sample of 18 operators in every 50 kHz period |
| Sample capture | `src/fpga/pano_top.v` | `opl3_data_rdy`, `opl3_data_ovfl`, latched sample | set at every sample, cleared by the CPU's read |
| Audio serializer | `src/fpga/audio.v` | start flag, bit counter, last bit and sample clocks | 32 bits of every sample to the codec, picked from the live sample registers |
| UART | `src/fpga/simple_uart.v` | baud divider, shift register | one byte per CPU write, ready when sent |
| USB bridge | `src/fpga/usb_picorv_bridge.v` | bus state machine, strobe counter | one 16-bit chip access for each CPU access; writes answered at once |
| Video | `src/fpga/vga_*.v`, `dualport_ram.v` | scan counters, text RAM | text screen |
| Boot loader | `src/fw/bootloader/` | SPI pins, block and word of the copy, screen cursor | identify the flash, copy the application, verify it, test memory, retry, jump |
| DRO player | `src/fw/imfplay_port/imfplay.c`, `mfs_filesys.c` | file position, type, code map, pending delay | open and recognise a file, parse a command, delay, write a register |
| Player main program | `src/fw/imfplay_port/main.c`, `src/fw/common/pano_time.c` | screen cursor, capture buffer, cycle counter | log to screen and UART, set up the codec, play, delay, capture samples |
| I2C and codec | `src/fw/common/i2c.c`, `audio.c` | line directions of SCL and SDA | start, byte, acknowledge, stop; codec set-up |
| C library | `src/fw/common/stdlib.c`, `printf.c` | pointers of a loop; flags, width, precision and index of a format | memory and string functions, formatted output |
| Vendored or generated | `picorv32.v` (core), `mobile_ddr.v`, `spimemio.v`, `mig_*.v` physical layer | - | - |

The CPU reaches everything through one valid/ready bus. Addresses in the LPDDR
window go to the cache; a miss becomes one or two line requests to the bridge,
which speaks the command protocol of the MIG controller on the falling clock
edge; the controller interleaves them with refreshes. The OPL2 core is written
through the same bus and runs freely at its sample rate; the player paces its
writes with a timer, and a capture program reads the samples back. Nothing on
the chip runs an operating system: the concurrency is that of clocked blocks
and of the firmware against the free-running OPL2 core.

What is hard here: registers that are read one edge after the state that wrote
them (the cache's block RAMs and comparators); two state machines on opposite
clock edges holding one handshake; a refresh that may come at any moment; the
fixed pipeline delays of the bridge against the controller's; events shorter
than a sample of the OPL2 core; a read that clears the flag it reads. In the
firmware: a copy that is verified and repeated, a device on the I2C bus that
refuses a byte anywhere, results that are ignored (the file that could not be
opened, the row of the loader), a counter that wraps during a wait, and string
functions that work by words.

## 2. Modules

| Module | Models |
|---|---|
| `WordMemory` | what the CPU is promised: a flat word memory behind valid/ready |
| `DdrCache` | `ddr_cache.v`, one step per rising edge |
| `LinePort` | what the cache is promised by the bridge: one line per request, one answer pulse |
| `CachedMemory` | the cache over the line port, both clock edges; safety and liveness properties; refinement of `WordMemory` |
| `CachedMemoryInv` | the inductive invariant of `CachedMemory` |
| `CachedMemoryProofs` | TLAPS proofs about `CachedMemory`: its invariants, that it implements `WordMemory` and that it replaces what was used least recently |
| `MCCachedMemory` | instances for TLC |
| `MigBridge` | `cache_mig_bridge.v`: both state machines and the data path |
| `MigController` | `mig_controller_0.v`: commands, timers, refreshes, initialisation |
| `LineService` | bridge, controller, data path registers, LPDDR chip and cache together; refinement of `LinePort` |
| `LineServiceProofs` | theorems about `LineService` |
| `MCLineService` | instances for TLC |
| `SimpleUart` | `simple_uart.v`, a device of `SystemBus` |
| `UsbBridge` | `usb_picorv_bridge.v` and the chip behind it, a device of `SystemBus` |
| `SystemBus` | the bus of `pano_top.v`: CPU, decoder, answers, trap, all devices |
| `SystemBusProofs` | the inductive invariant of `SystemBus`, TLAPS proofs about it |
| `MCSystemBus` | instances for TLC |
| `Opl2Core` | `opl3/opl2.v`, `operator.v` and the control of its generators |
| `MCOpl2Core` | instances for TLC |
| `AudioSerializer` | `audio.v` and the codec it feeds |
| `SynthAudio` | `Opl2Core` driving `AudioSerializer` |
| `SynthAudioInv`, `SynthAudioProofs` | the inductive invariants of `Opl2Core` and `SynthAudio`, and the instance with the numbers of the code; TLAPS proofs about them |
| `Envelope`, `MCEnvelope` | the level of one operator: `envelope_generator.v`, `env_rate_counter.v`, `ksl_add_rom.v` |
| `Oscillators` | the counters of `vibrato.v` and `tremolo.v` |
| `EnvelopeProofs` | TLAPS proofs about `Envelope` |
| `Terminal` | the screen and its two writers, `term_putchar` of the loader and `_putchar` of the player |
| `SpiFlash` | the serial flash at its pins |
| `BootLoader` | `bootloader.c` over both |
| `I2cMaster` | `i2c.c` on its two lines, with one device |
| `Firmware`, `MCFirmware` | loader, `main.c` and `audio.c` in one: from a reset to the end of the song |
| `FirmwareProofs` | the inductive invariants of `Firmware`, TLAPS proofs about it |
| `SongPlayer` | what a player of songs promises |
| `DroPlayer`, `MCDroPlayer` | `imfplay.c` and `mfs_filesys.c`; implements `SongPlayer` |
| `DroPlayerProofs` | the inductive invariant of `DroPlayer`, TLAPS proofs about it |
| `CString` | `stdlib.c` and what C says of it |
| `Printf`, `PrintfC` | `printf.c`; what C says a conversion prints |
| `TimerDelay` | `delay_us`, `delay_ms`, `TimerDelay` over the cycle counter |
| `SampleCapture` | `CaptureData` against the sample registers of `pano_top.v` |
| `LibraryProofs` | TLAPS proofs about `TimerDelay`, `SampleCapture`, `CString` and `Printf`'s buffer |
| `Library`, `MCLibrary` | one program that calls any of these: `TimerDelay`, `I2cMaster`, `CString`, `PrintfC`, `SampleCapture` |

### The cache (`DdrCache`, `CachedMemory`)

One step of `Rise` is one rising edge of the 100 MHz clock and moves everything
the edge moves: the state machine (one action per state, `Reset` ... `Wait`),
the block RAMs with their write-first output registers (`RamEdge`), the
registered comparators (`CompareEdge`) and the CPU (`CpuEdge`). `Fall` is the
falling edge, on which only the bridge moves. Wires of the code are operators
(`Victim`, `WriteValue`, `MemWdata`, ...). The CPU is PicoRV32 seen at its bus:
a request is held until ready, then valid is low for at least one edge; while
it is low the request wires carry whatever the CPU says to other devices, so
they are arbitrary. The CPU is held in reset until the LPDDR controller has
initialised (`pano_top.v` lines 426-439), which takes hundreds of microseconds,
while the sweep takes 256 clocks: no request arrives during `RESET`.

`Leftover` is what the block RAM may hold when the reset begins: the RAM is
zero after configuration, but a push-button reset finds the lines of the
previous session in it. `ref` and `recent` are history variables: the memory
the CPU has been told about, and the last two tags served in each line.

### The line port (`LinePort`)

The abstract interface between cache and bridge. A request is taken while
`memValid` is up, the data moves at some edge after that, the answer is a pulse
of one clock registered on the rising edge, and the port is free when the
request has been dropped. How long each part takes is left open, so everything
proved about the cache holds for every delay of the memory.

### The memory below the port (`MigBridge`, `MigController`, `LineService`)

A clock has three edges, `Rise`, `Quarter` and `Fall`. On the rising edge move
the bridge's data state machine (`DataIdle` ... `DataWait`), the cache side and
the chip; on the 90 degree clock the write and read data registers; on the
falling edge the bridge's main state machine and every register of the
controller. Each edge is one conjunction of register updates, one operator per
always-block: `CommandEdge` (acceptance of a command), `RefreshEdge` (the
refresh requester), `BootEdge` (initialisation), the timers and `NextState` (the
main state machine). The path between bridge and pins is counted in registers:
seven for write data, three for the write enable, five for the read enable.

The chip is the vendored simulation model seen at its pins: which rows are
open, which burst is under way, and how many clocks ago each command came
(`since`, counted up to `Horizon`). The minimum distances are those of
`mobile_ddr_parameters.vh`, speed grade sg6, at 10 ns. The cache side
(`Raise`, `Hold`, `Linger`, `Drop`) raises a request when the last answer has
gone and drops it one edge after the answer to a write, one or two after the
answer to a read, as `RW_FLUSH_WAIT`, `RW_MISS` and `WRITE_MISS_APPLY` do.

`IsLinePort` says that all this implements `LinePort` under the mapping `Port`.
Two assumptions meet here. `CachedMemory` assumes `LinePort`; that is
`IsLinePort`, checked and proved of the memory. `LineService` assumes that the cache holds
its request until it is answered. `LinePort` takes address and direction when it
accepts a request and the data at any later edge before the answer, so a cache
that let go of its write data would store a line nobody wrote, which
`NothingLost` forbids. Each side assumes of the other only what has happened
before, so both hold of the whole.

### The bus and its devices (`SystemBus`, `SimpleUart`, `UsbBridge`)

One step of `Edge` is one edge of the CPU clock; every register of the bus
moves in it, one operator per always-block. There is one place in each address
window, one for each register of the USB controller, and a `"hole"` outside all
of them. The CPU is PicoRV32 at its bus, as in the cache. Its look-ahead address
is decoded on every edge (`DecodeEdge`): it is the address of the request in the
clock before valid rises and stays in the window while valid is up; between
requests it is arbitrary. Three things are assumed about the CPU and its
programs: instructions are not compressed (`COMPRESSED_ISA` is off), so one
fetch is one request; a look-ahead address that changes while a prefetch is open
stays in the window the program runs in; and the firmware does not read the UART
or the synthesiser, whose selects ignore the write strobes and would take a read
for a write.

`SimpleUart` keeps the byte as one value and numbers its bits: the line shows
bit `shifted` of the frame. `Count` and `Shift` are the two branches of its
always-block; the strobe is looked at in `Count` only. `UsbBridge` has one
action per state (`Start`/`Rest`, `WriteCycle`, `ReadCycle`, `Latch`). The USB
controller (`ChipEdge`, `Din`, external) takes a write when the strobe ends
after `AccessClocks` clocks with select, data and direction held, and its
register is spoilt otherwise; read data appears when the strobe has lasted as
long. Reads and writes of the firmware there are 16-bit halves. The LPDDR
subsystem is what `CachedMemory` is shown to be, a word memory that answers
after any time with a pulse. `ref` (what was stored last at each place) and
`usbOpen` (the strobes the chip saw of the open access) are history variables.

### The OPL2 core (`Opl2Core`)

`Tick` is one edge of the 25 MHz clock. In a sample of `Period` ticks the
sequencer (`Sequence`) opens a slot of seven ticks for each operator in turn;
the key and drum edge detectors (`Detect`), the envelope state (`Envelope`) and
the phase (`Phase`) of that operator move in its slot, its result passes the
three registers of `Output` and is latched in the last tick; `Accumulate` adds
up the channels on a counter of its own. The CPU writes registers at any tick
(`WriteKey`, `WriteRhythm`), at least `Gap` ticks apart; the core takes them
over once in a sample (`SampleRegisters`).

A value of the data path is a tag: the operator and the sample it was computed
for. So every property can say which sample a value belongs to, and nothing
depends on what it sounds like. Envelope levels and rates, phase increments,
tremolo, noise and the choice between FM and additive channels are abstracted:
when an envelope leaves a state by itself is nondeterministic (`Onward`), and
the mixer takes both operators of a channel. `sampleNo` and `before` are
history variables.

### The way to the codec (`AudioSerializer`, `SynthAudio`)

`Serialize` is the always-block of `audio.v`; `Codec` (external) is the
receiver, which takes a bit when the bit clock rises and starts a frame where
the word clock is up. A bit is a pair: the sample on the sample registers when
it was picked, and its number. `SynthAudio` adds the sample clock and the bit
clock that `opl2.v` derives from its counter (`AudioClock`) and connects the
sample registers of `Opl2Core`. `stored` is a history variable: what the codec
gets before the first sample is whatever the unreset registers hold.

### The level of an operator (`Envelope`, `Oscillators`)

`Slot` is the time slot of one operator in one sample: the three ticks of it
that count are folded into one step, in their order (state with the pulse of the
sample before, counter, state with the new pulse, level). `Press` and `Program`
are the CPU between two slots. The widths are the code's: nine bits of level,
fifteen of the rate counter, eleven signed ones of the attenuation sum. Where
`Opl2Core` leaves open when an envelope moves on by itself (`Onward`), this
module says it. `Oscillators` sets the vibrato counter beside the tremolo
counter, one slot a step.

### The firmware (`Terminal`, `SpiFlash`, `BootLoader`, `I2cMaster`, `Firmware`)

The firmware is one thread, but what it talks to is not: the flash answers bit
by bit, the codec pulls the lines, the LPDDR may store a word wrongly. A
function that writes pins or characters in a fixed order is a *script*, a
sequence of operations; an action of the caller is enabled when the script is
empty, makes its decision and lays out the next one, and `LoaderStep`, `Wire`
and `Log` perform one operation of it. A refused byte replaces the rest of the
script by the way out the code takes (`I2cRest`), which is the `return` in the
middle of `i2c_write_buf` and its callers.

`pc` names the place in the two `main`s. `BeginBlock`, `LoadWord` and
`VerifyWord` are `copy_loop`, `Fill` and `Check` `DDR_memtest`. A fault is a
word that is stored wrongly, at most `MaxFaults` of them, in the copy or in the
memory test. The device on the I2C bus refuses any byte it likes and holds SCL
low for up to `MaxStretch` polls where the master polls. Each writer of the
screen has its own cursor, and the code's: `At(r, c)` is `SetVRAMPtr`.

### The player (`DroPlayer`, `SongPlayer`)

An action is one call of a function of `imfplay.c`: `Open...` the outcomes of
`file_open`, `Read...` the outcomes of `read_next_cmd`, `Apply`, `Wait`, `Stop`
the parts of the loop. Reading past the end, a command cut short and the
ignored result of `file_open` are there. `SongPlayer` knows nothing of files: it
strikes the notes of a score in order, rests as long as it is told, and is
silent at the end. `Score` translates a file into a score by cutting it into
commands, independent of the parser.

### Under the firmware (`CString`, `Printf`, `TimerDelay`, `SampleCapture`, `Library`)

`CString` has one action per function, a step is one turn of its loop; `Legal` says
what C asks of a caller and `Promised` what it gets for it. `Printf`
reads a format character by character and performs a conversion in one step;
characters are strings of length one, a double is a dyadic rational, and
integer widths are constants. `PrintfC` states what the standard prescribes,
from the parts the format was put together from, sharing only the digits with
the code. `TimerDelay` counts cycles between two readings of the counter.
`SampleCapture` is clocked: the CPU polls, the select of the GPIO is up for two
clocks, and the sample clock rises `StoreClock` clocks before the sample is
stored. `Library` gives each of them a caller and asks that every call return.

## 3. Runs

All runs check deadlock. The runs marked *finding* find the violation described
in section 5; the others finish without error.

| Run | Bounds | Shows |
|---|---|---|
| `cache_evict` | 1 line, 3 tags, 1 word of 1 byte, 2 values | every access competes for the two ways: hits in both ways, clean and dirty misses, read and write refills under every delay of the line port; the cache implements `WordMemory`, with its liveness |
| `line_serve` | 2 lines in different banks, 2 contents, a refresh every 40 clocks | reads and writes meet refreshes in every phase; `IsLinePort`; every request is answered, every refresh made |
| `bus_serve` | one place in each window, 2 USB registers, 2 words, a UART divider of 3 clocks (868 in the code), at most 2 places with a word of their own | every access in every order; `TrapExactly`, `UartFrames`; every request is answered |
| `opl_slots` | the 18 operators, 9 channels and 500 ticks of the code, serializer and codec | pipeline, modulation, feedback, mixing and serializing in every tick of four samples, after which the tags repeat |
| `opl_keys` | 3 operators, one of them plain and two the bass drum, 24 ticks, one channel's key and all of register BD | every key and drum event in every slot |
| `envelope` | 3 patches, fast rates | every level that keys and register writes between any two slots can reach; notes end |
| `dro_play` | bytes of 3 bits; bodies of up to 4 bytes or 2 commands after every header, refused headers | every format against `SongPlayer`; every file whose type is defined is played to its end, refused ones too |
| `power_up` | 2 blocks of 2 words, 3 KB of LPDDR, up to 2 faults, 2 flashes, a screen of 6 by 14, the code's codec table | reset to the end of the song, with every refusal of the codec |
| `library` | see below | every function under the firmware against what it is called for |
| `opl_keyoff` | 500 ticks, writes 25 ticks (1 us) apart | *finding* |
| `opl_feedback` | 3 operators, 500 ticks | *finding* |
| `opl_vibrato` | the code's counters | *finding* |

Why the bounds are enough to be interesting. Cache: two ways and three tags give
every replacement situation of a line; lines interact only through the address
multiplexer and the sweep, and for those there are the theorems, which hold for
all sizes. Memory: a request takes at most
some twenty clocks and the requester's gap is arbitrary, so that with a refresh
every 40 clocks (742 in the code) a refresh falls into every clock of every kind
of request; two lines that differ in bank, row and
column show every stale address. OPL2 core: the
slot structure is checked at the code's own size; key events concern one
operator and the detector it shares, so a plain operator and a pair that shares
the bass drum are all the kinds there are, and since the core reads the register
file at one edge of the sample, writes at two fixed ticks (`MCKeys`) reach every
value it can see.

Bus: devices interact only through the shared answer, the decoder and the request
registers, so that two marked words tell which of two devices took or gave a
word; the UART divider matters only by the clock in which it reloads, and three
clocks put that clock before, on and after each strobe edge. A strobe of the USB
controller lasts four clocks.

Envelope: a sustained note, a percussive one with everything that attenuates at
once in the highest octave, and one with rates of zero. Slow rates only repeat
the same counter more often; fast ones keep it to a few values and reach the
largest overflow, 4. The theorem below covers every rate.

Player: three bits hold every code that means something in every format
(`0` to `4` of DRO 1, two delay codes and the bank bit of DRO 2), and after four
bytes the parser has been through each pair of them. Power-up: two blocks and
two words tell a wrong block address, word index or pointer apart; the first
fault costs a retry and the second may hit that retry or its memory test.
Library: strings of up to five bytes over two letters, one of them above 127, at
every alignment that matters, so that each string ends in every byte of a word;
every flag and pair of flags of `printf` with six widths and six precisions, in
integers of half their width and with its 32 byte buffers halved accordingly, and
formats with two conversions cut off at every length of the buffer; a cycle counter of
16 cycles that starts anywhere; two I2C transfers in a row, to the device and
past it; a sample of 24 clocks instead of 2000, where half a sample is still
longer than the CPU takes from one access to the next.

`cache_evict` uses a view that leaves out registers nobody reads before they are
rewritten, `opl_keys` one that leaves out the data path, which key
events do not read and its properties do not mention, and
`bus_serve` one that leaves out registers and outputs nobody looks at. Where a
liveness property is checked under a view, what the view leaves out enables and
disables nothing, and fairness is that of whole clock edges or of actions whose
guards the view keeps. The bus run starts with the same word in every place.

Properties of the cache: `ReadReturnsLastWrite` (read data), `NothingLost` (the
union of cache and LPDDR is always the memory the CPU believes in), `OneCopy` (a
hit is unambiguous), `CleanIsStored` (a clean line may be dropped), `LruExact`
(the line holds exactly the last two tags served although the LRU order is one
bit in each way), `FlatMemory` (refinement of `WordMemory`, fairness included).

Properties of the memory: `BlocksArrive` (whenever the controller rests, what is
in the chip is what was written, both halves in order),
`RefreshesKept` (a command taken by the controller is carried out although a
refresh came first; the refresh timer never fires while a
refresh is still pending), `ChipProtocol` (no access to a closed row, no
activation or refresh of an open one, one burst for each
activation, the seven minimum distances of the chip),
`IsLinePort` (a line is taken once, moved whole and answered once, with the
contents of the chip), `Answered`, `Refreshed`.

Properties of the bus: `NoStrayAnswer` (four ready lines are or-ed without an
address: only that of the addressed device is ever up, and only while a request
is open), `DevicesRight` (every device gives and holds what was stored there,
nothing else was touched in passing, the USB chip gets
one strobe for each access, or its FIFO would be
popped twice), `TrapExactly` (the interrupt is raised by an unmapped access and
by nothing else, however the decoder moves), `UartFrames` (full bit periods,
undisturbed frames, ready at the end of the stop bit of the CPU's byte),
`Answered`.

Properties of the OPL2 core: `SlotsInOrder` (seven ticks are just enough, the
modulator comes before its carrier, feedback is of the two samples before),
`SamplesDelivered` (mixer and operators share their outputs without a
lock, yet the codec gets each sample once, whole, and of one sample only),
`KeysHeard` (key events reach envelope and phase in their sample),
`NoKeyOffSkipped` (what the player's pacing must achieve). Of the level:
`LevelSane` (it moves towards loud in an attack only and never wraps; what
the registers add never makes it louder), `NotesEnd` (a released note, and a percussive one
that is held, falls silent and stays so).

Properties of the firmware: `RunsVerifiedImage` (whatever was stored wrongly and
however often the copy was repeated, the CPU jumps into the image of the flash),
`CodecTransfers` (whole registers, in the order of the table, up to the first
refusal, and the lines released when the song begins), `ConsoleKept` (no line of the log is overwritten before the screen is
full), `Settles` (every boot ends in the right one of its loops: a memory that stores
everything rightly never leads to the memory failure). Of the player:
`PlaysScore` (refinement of `SongPlayer`, for songs for one OPL2 that need none
of the codes section 5 mentions) and `Finishes`. Of the library: `CallsRight` (string
functions and `printf` do what C says), `I2cDelivers` (success means the bytes
have arrived; failure leaves the lines released), `SamplesCaptured` (no sample
twice, none lost), `DelayHolds` (no delay ends early, however the counter wraps),
`Returns`.

Fairness. `CachedMemory!Fairness`: the clock runs (weak fairness of both
edges); a request that can be taken, moved or answered again and again is so at
last (strong fairness of `Accept`, `Transfer`, `Finish`): a refresh delays a
request but refreshes are 742 clocks apart, and the controller answers every
command it acknowledges. The CPU is not assumed to make requests.
`MCLineService!MCLive`: only that the clock runs; the answer then follows from
the state machines, which is what the strong fairness above stands for.
`SystemBus`: the clock runs, and the LPDDR, asked
again and again, answers (strong fairness of `DdrServe`), which is `FlatMemory`
of the cache; `MCSystemBus!MCSpec` writes the same out, as its bound on marked
places is not part of the actions. `Envelope`: the sample clock runs (weak
fairness of `Slot`); `NotesEnd` speaks of a key and a patch that stay as they
are from some time on, which is where the CPU leaves them after the last note.
`Firmware`, `DroPlayer`: the CPU runs (weak fairness of `Next`). `Library`: the CPU
runs (weak fairness of `Loops`); a device stretches the clock for a bounded
number of polls. The other OPL2 runs check no liveness.

## 4. Proofs

`CachedMemoryProofs` proves for every number of lines, tags, words, bytes and
values, every content of the RAMs at reset and every delay of the line port:

* `TypeCorrect`: `Safety => []TypeOK`;
* `Inductive`: `Safety => []IInv`;
* `ReadsAreRight`, `NoByteIsLost`, `HitsAreUnambiguous`, `CleanLinesAreStored`:
  the four data invariants of the run.

The only assumption is `CacheAssumption`: at least one line, word and byte, the
cleared tag and byte belong to their sets, the leftovers are RAM words.

The properties are not inductive: that a refill leaves every word readable
needs the victim to be clean, which needs the flush to have moved the victim's
data, which needs the port's command to be the cache's request, the output
registers to show the requested line and the write enables to be set in exactly
the states that mean to write. `IInv` says this register by register: `CpuInv`
and `PortInv` (who waits for whom in the two handshakes), `WriteInv` (when a
RAM is written and with what), `SweepInv` (what the sweep has cleared, and that
the last line is cleared by the first edge of IDLE), `ReadInv` (output registers
and comparators describe the open request), `MoveInv` (what travels between
cache and LPDDR) and `DataInv` (the data). The proof has one lemma per part and
edge, and one step per state of the machine; the four ways the readable memory
can be touched (nothing written, refill, clearing after a flush, overlay of the
CPU's bytes) are lemmas of their own (`DataKeep`, `DataFill`, `DataClear`,
`DataOverlay`).

It also proves, from the same invariant:

* `ImplementsFlatMemory`: `Safety => Flat!Safety`, the refinement step by step. The
  one access of the flat memory is the acknowledgement (`AccessServes`), every
  other rising edge drives or holds the wires of the CPU (`QuietDrives`), and a
  falling edge is a stutter. That requests are answered (the fairness of
  `WordMemory`) stays with TLC;
* `ReplacementIsLru`: `Safety => []LruExact`. It needs more than `IInv`: `LruInv`
  says which way the use bits of a line designate in each state of a miss, from
  the moment the victim is chosen over the flush, which writes the bits again, to
  the refill that must choose the same way.

`LineServiceProofs` proves for every set of lines and contents, every content of
the chip at power-up, every sequence and distance of requests and every interval
of refreshes:

* `LineTypes`, `NothingForgotten`, `LinesArrive`: the three invariants of the run
  (`TypeOK`, `RefreshesKept`, `BlocksArrive`);
* `ProtocolKept`: `Safety => ChipProtocol`, the rows, the bursts and the seven
  minimum distances of the chip;
* `PortImplemented`: `Safety => IsLinePort`, the step simulation of `LinePort`. With
  it what `CachedMemory` assumes of its port is proved of the memory that is there,
  as far as safety goes; the two assumptions of section 2 close the circle.

It assumes `RefreshAssumption` (at least 25 clocks from one refresh tick to the
next, 742 in the code: a line and the refresh behind it must fit between two
ticks, or one is dropped), `AddrAssumption` (a line has a bank, a row and a column)
and `LinesAssumption` (a line is two halves).

None of the five can be seen to hold from one state to the next: bridge, controller,
data path and chip each count clocks of their own after one common event, and
nothing compares the counts. The invariant therefore brings in the two clocks the
hardware does not have: `k`, the clocks since a row was opened (0 at rest, up to
13 for a write, 10 for a read), and `m`, the clocks since a read was taken (up to
17, because the data come back after the row is closed and the next one may open
meanwhile). Every register is a function of them: `At(k)` gives the row machine, its
counters, the bridge, the commands, the refresh request and the initialisation;
`ChipAt(k)` the pins, the addresses, the open row, the burst and the least age
of each command; `Whole(k, m)` the cache side, the data state machine, the seven
write registers and three write enables, the five read enables, the FIFO, the read
buffer and the chip's memory. `InStep`, `ChipInStep` and `DataInStep` are these three
as invariants; TLC checked `WholeInv` on the instance of the run before it was
proved. A falling edge moves `k` to `k + 1` or back to 0, and the
lemmas follow the three edges: what each does to each part, given that the others
hold. `PortImplemented` then reads off which step of the port each edge is.

`SystemBusProofs` proves for all data, all registers of the USB chip, every
divider of the UART and every access time of the chip that the strobe of the
bridge covers (`AccessAssumption`: at most four clocks; `RegAssumption`: a register
is not named like a window):

* `TypeCorrect`, `AnswersAreOwed`, `AccessesArrive`: the three invariants of the run;
* `TrapsExactly`, `FramesWhole`: its two action properties.

None of them is inductive. Ready is registered in every device, so that nothing
stray answers depends on how far the device is with the access that is open:
`AnswerInv` ties each ready to the state of its device, `UartInv` the shift
register, the bit counter and the clocks of the bit to one another, `UsbInv` the
strobes to the counter, and `DataInv` says of each window whether the stored word
is already in the device, already acknowledged, or neither. There is one lemma
for each device and each kind of edge; the theorems are read off the invariant.

`SynthAudioProofs` proves for every number of operators and channels, every
assignment of channels and modulators, every pace of register writes and every
length of the sample that has room for the slots and for the frame:

* `KeyEventsHeard`, `SlotsKept`: `Spec => []KeysHeard`, `Spec => []SlotsInOrder` of
  `Opl2Core`;
* `SynthTypeCorrect`, `SamplesArrive`: the invariants of the run `opl_slots`, for
  core and serializer together.

Everything in this part happens at a tick of the sample counter, so the invariant
is a timetable: `SeqInv` gives the slot and its phase as a function of the counter,
`PhaseInv`, `PipeInv` and `OutInv` say from which tick on a register belongs to the
running sample, `MixInv` what the mixer has added after each of its ticks,
`OnInv`, `OffInv` and `DrumInv` what the edge detectors hold before and after
the slot has passed, and `ClockInv`, `LineInv` and `FrameInv` which bit is on the
line and in the codec at each tick of the frame. Two assumptions appear only
here, because they relate parts the code keeps apart: `MixerAssumption` (the mixer
reads the outputs of a channel before its operators have their slots again; the
channels of `opl2.v` satisfy it with room to spare) and `FrameAssumption` (a sample
lasts longer than the 32 bits of a frame at two ticks each; 500 ticks in the code).

`LibraryProofs` proves for every range of the counter, every cycle rate and
every pace of polling, from `TimerAssumption` (all four constants are positive):

* `TimerInvariant`: the counter shows the cycles since `start`, reduced to its
  range, and what was asked for is covered by what has been waited and the delay
  that runs;
* `NoDelayEndsEarly`: `TimerSpec => DelayHolds`. A wrap of the counter cancels
  in the subtraction; the loop may notice late but never early.

and, for every length of a sample, every pace of the program, every length of the
capture and every content of the flags at its start:

* `NoSampleLost`: `CaptureSpec => []SamplesCaptured`.

It rests on `CaptureAssumption`: the new sample is in `channel_a` before a program
that has seen the flag can read it (at most four clocks, one access and one pause
after the edge), and two accesses as far apart as they may be fit into one sample.
The flag and the sample are different pieces of state and change at different
clocks, so the invariant dates the flag: while the program polls, `rdy` has been up
no longer than since the last access (`PollInv`), and when it takes the sample, the
clock lies between the store and the next edge (`TakeInv`). With that, the clearing
of both clocks of a read never meets a rising edge (`ClearInv`), and the sample
announced is the successor of the last one in the buffer. The proof of a step is one
lemma per part, by the seven ways the program moves (`Moves`).

The third part is about `Library` and every set of calls that C allows
(`StringAssumption`: areas inside the memory, strings with their end, no copy into
what is copied; `PrintfAssumption`: sizes are numbers):

* `StringFunctionsRight`: `Spec => []StringsRight`, and with it
  `CallsRightButPrintf`: `Spec => [](caller # "printf" => CallsRight)`. What is to
  be returned is a minimum over the whole string, the code sees a byte or a word of it,
  so each loop has an invariant of its own (`MemcpyAt` to `StrstrAt`): how far both
  pointers are, what is copied already, and that no byte so far ended or decided it.
  `strcpy` and `strcmp` read words that reach past the strings, and in `strcpy` into
  bytes it has written itself: only the bytes up to the first zero are shown to count
  (`CopyMore`, `ComparedAt`). `strstr` keeps that no place before its pointer is a match.
* `PrintfKeepsBuffer`: `Spec => []BufferKept`. For every format and every argument.

`EnvelopeProofs` proves, from `PatchAssumption` (the register fields have their
widths) and nothing else about the settings, the key or the order of the writes:

* `LevelTyped`: state, counter and level keep their widths. `TypeInv` is
  inductive as it stands, because every operand of the arithmetic is bounded by
  it: the increment of a rate is at most four times the counter's length
  (`IncrementBound`: only the sixteenth power of two exceeds 16384, and the rate
  that reaches it has no fraction), so the overflow is at most four;
* `LevelNeverWraps`: `Spec => LevelSane`. An attack subtracts something between
  one and the level (`AttackStep`), the other states only add and saturate
  (`LevelStep`), and the attenuation is a sum of at most 1013 (`AttenuationBound`),
  which fits the eleven signed bits.

`FirmwareProofs` proves for every image, every flash, every number and size of
blocks, every number of words stored wrongly, every chip identification, every
refusal and every stretching of the clock by the codec:

* `FirmwareRunsTheImage`: `Spec => []RunsVerifiedImage`;
* `FirmwareSetsUpTheCodec`: `Spec => []CodecTransfers`;
* `FirmwareTypes`: `Spec => []TypeOK`;
* `FirmwareConsole`: `Spec => []ConsoleKept`, for every size of the screen that
  `ScreenAssumption` allows.

It assumes `BootAssumption` (the image ends below 2^24, so that its addresses fit the
read command, and the LPDDR has room for it), `FlashAssumption` (the flash holds
bytes), `ScreenAssumption` (the screen has room for the loader's longest line and for
the lines that the player assumes above its own) and `DeviceAssumption` (the codec
has an even seven-bit address).

The first two properties are not inductive, and for the same reason: a call is a sequence of single
operations on pins (the *script*), the device on the other side counts
the clocks it sees, and nothing in the state compares the two. `FirmwareInv` and
`CodecInv` make that comparison. `FirmwareInv` has two parts. `LoaderInv`: which
operations each call of the loader may still have before it, and that it
leaves the flash's clock up. `CopyInv`: while a block is copied or compared, a position
`d` in 0..197 of the read command gives the clocks the flash has seen, the
command and address it has shifted in (`Prefix`), the pins, and the bits the CPU has
received (`Reading`); and the words verified so far are the words of the image
(`Compared`). A word stored wrongly is then found by the comparison because the byte
clocked out is the byte at the address that was clocked in.

`CodecInv` does the same for the other bus: a position `p` in 0..91 of a register
write (`WriteAt`: 4 operations for the start, 28 for each of three bytes, 3 for the
stop) gives both lines, the device's count of the bits (`InByte`) and the bits it
has taken so far (`Top`); `Leaving` and `GivingUp` are the way from a refused byte
to the stop; `Whole(n)` and `CutAt(n, q)` say what the device has taken; `SetUp` ties
all of it to the register the program is at. A polled clock that the device stretches is
a step that leaves the position alone. The lemmas first work out the scripts
(what `WriteOp`, the start, a byte and the stop put at each position), then follow each of
the operations, then the calls.

`TypeOK` says of the flash that its command register (`head`) has no more than 32
bits and of the codec that a byte has no more than nine clocks, and neither follows from
the step before. The second is in `CodecInv`. For the first, `TypesInv`
adds the identification of the chip to `FirmwareInv`: a position `d` in 0..106
(`Identifying`), with the command as far as it has been clocked in; after its eight
bits the register is no longer shifted.

`ConsoleKept` relates two programs that never see each other's cursor. `ConsoleInv`
has a part for each. `Straight`, as long as no word has been stored wrongly: the
comparison cannot fail, because what has been copied is the image (`Compared`, now during
the copy too), so that the loader never leaves the way from its second line (`Heading`:
its column is what is still to be printed away from the end of `Load ` or `ver `) to its
last (`Ending`), and its cursor at the jump is known. `ScreenInv`, for the player: line
`i` is in row `RowOf(i)`, any `Rows` lines in a row are in different rows (`RowsDiffer`), a
line has at most ten characters and the screen at least fourteen columns, so that
no cell belongs to two of them (`CellsDiffer`); the pointer, which is stepped without a
column, is where the last line ends (`Standing`); and `Tidy` says that what the script still
prints fits this line and ends it, also when a refusal replaces it by the way out,
which prints a line of its own. TLC checked the four invariants on the instance of the run
`power_up` before they were proved.

`DroPlayerProofs` proves for every file, of whatever length and contents:

* `PlayerTypes`: `Spec => []TypeOK`, also for files that are refused or cut short;
* `PlaysTheScore`: `Spec => PlaysScore`, the refinement of `SongPlayer` step by step.

It assumes `ByteSizeAssumption` (a byte has three to eight bits) and `FilesAssumption`
(the files are bytes; the signature of a DRO file has eight, the first not 0).
`PlayerTypes` is inductive as it stands. `PlaysScore` is not: that the next
note is the right one depends on the whole file before it. `ScoreInv` says that the player
stands at the beginning of a command, and that the items of the commands before it are
what has been played: `AheadAt(o, p)`, for each format in its own way. In IMF a
command is one item or two, so `Marks` counts the items of the first `n` commands; in
DRO 1 a command has two or three bytes, so what is left of the file is cut again from `o` on;
in DRO 2 the offset is a linear function of `p`. Between reading a command and the wait
behind it the player is up to two items behind its offset (`Due`, `Pending`). TLC checked
`ScoreInv` on the instance of `dro_play` before it was proved.

What a file means is recursive: the commands of a DRO 1 song (`Dro1Cut`) and the items
of an IMF file put end to end (`FlattenSeq`). The library's induction theorems cannot be
instantiated with the installed provers, but a set of numbers has a least one
(`LeastNumber`), so that a set that holds 0 and the successor of each of its
numbers holds them all (`Climb`), and neither takes an operator as a parameter.
`CutUnfolds` and `FlatUnfolds` use it to show that the two recursive functions exist and
equal their definitions, `CutTyped` and `FlatItems` what they return.

Left to TLC: liveness and fairness (out of the prover's reach: `Answered`,
`Refreshed`, `NotesEnd`, `Settles`, `Finishes`, `Returns`); and of `Library`
`I2cDelivers`, `TypeOK` and the part of `CallsRight` that is about `printf`: what `printf` writes and what the wires of a read carry are folds
over formats and bit sequences, and an invariant of every position in them has not
been found.

## 5. Findings

* `opl_keyoff`: the player pauses 1 us after a command without delay so that
  the core does not "miss key-off, key-on event" (`imfplay.c` 460-466), but the
  core samples its registers every 20 us. Counting only the pause, a key-off and
  the next key-on can fall between two samples; the note is then not restarted.
  A pause of one sample would do. The run takes the pause as the
  only guaranteed distance; the time the CPU spends parsing a command comes on
  top and is not bounded below by the code.
* `opl_feedback`: the comment at `operator.v` 188-191 places the feedback latch
  in the last cycle of the operator's slot. The pulse is `delay_counter == 6`,
  and the counter also runs between the last slot and the next sample, when
  operator 0 is selected: both feedback registers of operator 0 hold the same
  output, so it feeds back one sample instead of the mean of two.
* `opl_vibrato`: `vibrato.v` 69-72 promises an oscillator at sample frequency /
  2^13 (6.07 Hz). Its counter is enabled in each of the 18 slots of a sample.

Seen while modelling and not claimed as findings, because no document says what
is intended: the key-off detectors stop in rhythm mode with their pulse possibly
standing; the second operator of the bass drum does not restart its phase; in
rhythm mode the connection bit of channel 6 selects the modulator when clear;
`pano_top.v` 679-683 clamps a loud sample to `16'hffff` and `16'h0000`, which are
-1 and 0 in the two's complement the codec is set to; with a requested rate of 0
the overflow of the rate counter is still computed, so a counter left near its
end moves the level on every sample (the level never wraps: overflow is at most
4). The attenuation sum is at most 1013 and fits its eleven bits.

Of the player: a chip-select code of a DRO 1 file leaves the inner `switch` only
and falls into the DRO 2 case, which reads the next byte as a code
(`imfplay.c` 220); the writes meant for the second bank of an OPL3 go to the
same register of the first (123, 395-396); the result of `file_open` is ignored
and a refused file is read with an unset type (369); delays longer than 65535 ms
wrap (217, 258). `PlaysScore` is about songs that need none of this. `Finishes` is about
all of it but one case: a refused file whose unset type is none of the four is never left
again, as `read_next_cmd` then reads nothing.

Of `printf`: what `PrintfC` calls right leaves out the differences that are the
library's own: `%f` beyond `thres_max` (362) writes at the start of the buffer again
and the infinite and NaN cases ignore padding; `%#x` whose digits fill the width loses two
of them; a `-` with a precision does not pad with zeros; `%hhd` prints an
unsigned value where `char` is unsigned; `%#.<n>o` has a zero too many;
`snprintf` returns the length of the whole text where it had to cut it off, as C
says, while `printf.h` 79 says that it returns the size of the buffer; and `fctprintf` counts
zero characters it does not pass on, while `printf.h` 93 says that it returns the number of
characters passed on. `CallsRight` asks in the first case only that the number is not
smaller than the buffer, on which both agree, and in the second case nothing. Rounding of a double is exact in the model; in the code the
half-way branch (354-357) does not carry into the whole part.

Of the rest: a byte written to the I2C bus does not wait for a stretched clock
(`i2c.c` 104-118), only a byte read does; a push-button reset in the middle of a
transfer can leave the codec holding SDA, which `i2c_init` does not clock out;
the product of microseconds and cycles wraps at 43 seconds (`pano_time.c` 38);
the player starts in row 3 whatever row the loader returns (`main.c` 14);
`SamplesCaptured` needs the CPU to take less than half a sample from one access
to the next, beyond that a sample can vanish without an overflow.

## 6. What could come next

1. `Opl2Core` with the levels of `Envelope` in place of `Onward`, and the phase
   increment.
2. `ResetSequence`: clock chip, DCM, controller, CPU, and the cache sweep they
   must outlast, which would discharge the assumption of `CachedMemory`; it is
   about durations, not about a handshake.
3. Proofs: `I2cDelivers`, with the reads of the bus; `printf` one conversion at a time.

## 7. Not modelled

* The physical layer of the MIG (tap calibration, DQS phase, I/O buffers):
  analogue timing. Its pipeline depths are in `LineService`.
* The PicoRV32 core, the SPI flash controller: vendored.
* The reset chain: counters whose order rests on durations and on clock IP
  without source. The models start where it ends, and `CachedMemory` assumes that
  the CPU makes no request during the sweep.
* The look-up tables, the phase increment and the rhythm phase of the OPL2 core:
  data, or arithmetic that no control depends on.
* Video: free-running counters reading a text RAM; nothing waits for them.
* `cache.v`, `syn_fifo.v`, the test benches: not in the synthesised design.
* Host tools: file converters run at build time.
* Firmware nobody calls, or that only prints: `irq_handler` of the loader,
  `puts`, `isprint`, `is_muted` and `mute_toggle`, the directory functions of
  `mfs_filesys.c`, the list of registers of the sine test; `%e` and `%g` of
  `printf`, and a format that ends in `%`, after which the code reads past the end.
* Addresses inside a window of the bus or inside a line, the bytes of a real song, most of
  the wording on the screen.
