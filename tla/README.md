# ALMA front end monitor and control firmware: TLA+ models and proofs

The program is the firmware of the FEMC module (`src/arcom_fe_mc`), which runs under DOS
on an ARCOM Pegasus board and controls an ALMA receiver front end: ten receiver
cartridges, their power, the cryostat, the photonic LO receiver, the IF switch and the
interlock module. Requests arrive as CAN messages through the AMBSI board, which is
attached to the parallel port.

The firmware is **one thread and one interrupt handler**. `main` handles a CAN message
if one has arrived and otherwise calls `console()` and `async()`, which does a small
piece of background work and returns. What is hard in it is that

- a CAN message may come between any two calls of `async()`, and background work (a
  cartridge's initialisation takes seconds) keeps its state in `static` variables across
  the calls;
- handlers and background work talk through globals (`currentModule`,
  `currentPowerDistributionModule`, `frontend.…`) that the other one may change between
  two calls;
- the hardware is written through shadow registers and cannot be read back, so after a
  failed write the software's picture has to be repaired by hand;
- the interrupt may come between any two instructions of the main thread.

## Inventory

| component | files | state | operations | must hold |
|---|---|---|---|---|
| power distribution | `powerDistribution`, `pdModule`, `pdSerialInterface`, `pdChannel` | `poweredModules`, `standby2Modules`, `pdModule[].enable`, `lastEnable`, shadow register `aReg` | enable message (off, on, STANDBY2), start, stop, supply monitoring | counters exact, limits kept, software and supply agree |
| cartridge lifecycle | `cartridge` | `state`, `standby2`, the round's `currentAsyncCartridge`, task, initialisation state and timer | access check, power-up initialisation, going to STANDBY2 | READY means initialised; every powered cartridge gets there |
| cartridge bias | `polarization`, `sideband`, `lna*`, `sis*`, `biasSerialInterface`, `polDac` | shadow registers, last commands | set and read voltages, currents, enables | nothing cold is on in STANDBY2 |
| local oscillator | `lo`, `yto`, `pll`, `amc`, `pa*`, `teledynePa`, `photomixer`, `loSerialInterface` | table of safe PA voltages, tuning, last drain voltages | tune, set PA voltages, load the table | drain voltage within the limit at the tuning |
| cryostat | `cryostat*`, `turboPump`, `backingPump`, `gateValve`, `solenoidValve`, `vacuum*`, `dewar` | register of the pumps and valves, analog monitor state machine, cold head hours | pump and valve commands, background monitoring | vacuum interlocks; monitor values belong to their sensor |
| LO photonic receiver | `lpr*`, `opticalSwitch`, `laser`, `edfa`, `photoDetector`, `modulationInput` | switch port, shutter, laser enable | select a port, shutter, EDFA level | light only where selected |
| FETIM | `fetim*`, `interlock*`, `compressor`, `he2Press` | safe status, interlock state | round of external sensors, shutdown | a triggered interlock shuts down |
| IF switch | `if*` | register of positions and attenuations | set a channel | register and hardware agree |
| scheduler | `main`, `async`, `timer` | `asyncState`, timers | one call of `async()` | every subsystem has its turn |
| CAN path | `can`, `ppComm`, `console` | `newCANMsg`, `PPRxBuffer`, `CANMessage`, interrupt controller | interrupt, receive, handle, send, clear | each message handled once, in order, with its own answer |
| error history | `error` | ring buffer and two indices | store, count, read | the latest errors, oldest first |
| serial access | `serialInterface`, `serialMux` | one frame, busy flag | read, write | an access ends or fails |
| one wire bus | `owb` | `ESNS`, `esnDevicesFound`, `TREE`, the reader's index | search, count, read the next number | every device found and told once |
| start | `frontend`, `globalOperations`, `iniWrapper`, `3rdParty` | mode, configuration | start, stop, reboot | software and hardware agree at the start |

`PROJECT.json` lists the hazards of this code one by one with the line where each bites
and the properties that watch it.

## Plan

1. *Cartridge power*: the power distribution with the cartridge initialisation.
   **Done.**
2. *CAN path*: interrupt, flag, buffers and handler. **Done.**
3. *Error history*: ring buffer against a bounded queue. **Done.**
4. *Local oscillator*: the table of safe drain voltages as pure functions, and the
   commands that tune and drive. **Done**, but for the Teledyne amplifiers and the table
   in the `.ini` file.
5. *Cryostat*: the interlocks of pumps and valves against `VacuumLine`, and the sensors'
   round with the cold head's hours. **Done.**
6. *FETIM*: its round in `async()`, the status it is told and the shutdown. **Done.**
7. *The other devices*: the cold electronics with their change to STANDBY2 and the
   heater's timer, the phase lock and the multipliers, the photonic receiver, the IF
   switch, the one wire bus, and all of them with the mode, the timers and `errno` they
   share. **Done.**
8. *Proofs* of every invariant, action and liveness property the runs check. **Done**,
   with one hypothesis for liveness that stays with TLC.
9. Left: the serial mux with its busy wait (`serialMux.c:155`) under the faults the
   devices meet, the other special addresses of `can.c`. Their reasons are below, under
   *Not modelled*.

What a component promises is stated on its own where that can be said without its
mechanism: `PowerBudget`, `CanService`, `ErrorQueue`, `VacuumLine` and, for the table of
safe voltages, `SafeAt`.

## Modules

| module | what it is |
|---|---|
| `PowerDistribution` | `enableHandler` and `setPdModuleEnable`; declares the state shared with `Cartridge` |
| `Cartridge` | `cartridgeHandler`'s check, `cartridgeAsync`, the turns of `async()`, the timer, the console toggle |
| `CartridgePower` | both with changes of mode and restarts: `Init`, `Next`, fairness, properties |
| `PowerBudget` | what the power commands promise: sets of cartridges and limits on them |
| `CartridgePowerProofs` | theorems about `CartridgePower` |
| `MCCartridgePower` | statements of comments the model refutes |
| `CanComm`, `CanService`, `CanCommProofs`, `MCCanComm` | the way of a CAN message, its promise, its proofs, refuted comments |
| `ErrorHistory`, `ErrorQueue`, `ErrorHistoryProofs` | the ring buffer, its promise, its proofs |
| `PaLimits` | the table of safe drain voltages: `loAddPaLimitsEntry`, `findMaxSafeLoPaEntry`, and `SafeAt`, what a table means |
| `LocalOscillator`, `LocalOscillatorProofs`, `MCLocalOscillator` | the commands of one LO with its hardware, its proofs, refuted comments |
| `Handlers` | what the handlers of all devices share: the mode, the timers, `errno`, the answer of the last message |
| `Cryostat`, `VacuumLine`, `CryostatProofs` | pumps and valves, their promise, the step lemmas about them |
| `Bias` | the cold electronics of a cartridge: mixers, magnets, amplifiers, leds, heaters, temperatures |
| `LoRegisters` | phase lock, photomixer and multipliers of a local oscillator |
| `Lpr` | the photonic receiver: optical switch, laser, amplifier with its modulation |
| `IfSwitch` | the IF switch, and the monitor points of the power distribution |
| `Fetim` | the FETIM: its round in `async()`, its points, the shutdown |
| `OneWireBus` | the search for the serial numbers of the parts, and how the list is read |
| `RegistersProofs` | the step lemmas about the last six |
| `Devices`, `DevicesProofs`, `MCDevices` | the seven device modules together, the theorems about them, the constants for TLC |
| `CryostatSensors`, `CryostatSensorsProofs` | the cryostat's part of `async()`, its proofs |

### Cartridge power

One action of `CANMessage` is one message handled to the end; one action of
`CartridgeAsync` is one call of `cartridgeAsync`. Both run in the main thread, so they
are atomic with respect to each other and nothing finer is needed. `state` and
`standby2` are the fields of `frontend.cartridge[]`, `enabled` is the set of modules
whose `enable` is set, `aReg` the set of bits of the shadow register. Four variables are
not in the code. `hwPower`, `at10MHz` and `coldOn` are what the hardware does; `waited`
remembers which cartridges have been through the power-up wait since they were last fed.
A failing write is an alternative of each action that writes, switched on by the
constant `Faults`, so that a property can be checked for the failures it survives.
`InitFailed` follows the code exactly: it disables the module the *last power
distribution message* selected, on the port of the *cartridge*.

The cryostat's and the FETIM's turns are one step each: their work does not touch this
state. The cryostat is taken to be available; without one `cryostatAsync` never gives
its turn away.

### CAN path

Every read or write of something the interrupt handler also uses is a step of its own:
`StartHandler` reads the flag, `ReceiveCANMessage` the flag and the buffer,
`SendCANMessage` the flag, `ClearFlag` and `PPClear` end the service. `PPIntHandler` may
come between any two of them, and is itself atomic because nothing interrupts it.
Messages are numbered; `sent`, `executed` and `replies` are histories. `CANMessage.own`
says whether the bytes are those the AMBSI sent. Console requests have number 0.

### Error history

`errorNewest` and `errorOldest` are `unsigned char`, so they take one value more than
the array has slots. What is found at that index is what was stored there, or, if
`Spoiled` is not empty, something else. In `ErrorHistory` the length is a constant, and
the type wraps just above it as 256 does above 255.

### Local oscillator

`ytoCoarseTune`, `last` (`lastDrainVoltage`) and `paPotReg` are the software's picture,
`hwYto` and `hwDrain` the tuning and the potentiometers. A message is one action where
it makes one write. A tuning makes up to three: `limitSafeYtoTuning` may reduce each
polarisation before the YTO is set, and `pc` says which write is next, since the
amplifiers see each of them. `loInit` is stepped the same way. Every write of a
potentiometer sends the whole shadow register, as `SetPaChannel` does: writing a gate
voltage sends the drain voltages along. The register is not cleared when the cartridge
is switched off; the hardware is taken to come up with zeros. Any write may fail
(`Faults`); a failed one leaves the new value in the shadow, as in the code. Two
variables are histories: `potFailed` says that a write of a potentiometer has failed
since `loInit` began, `told` is what a client may conclude from the answers it got.
Which commands reach a cartridge is the subject of `Cartridge`; here the cartridge is
off, fed, or fed and through `loInit` (`phase`).

Voltages are in steps of the potentiometer (1/102 V), and an interpolated limit is
rounded down to a step. Setting and limit are then compared as in the code, because a
setting is sent in whole steps.

### Handlers and devices

A CAN message is handled to its end, waiting loops included, before anything else runs,
so **a handler is one action**; what happens within it is a choice among the places
where it may fail. `Waits` and `Converts` are the wait for a device and the conversion
that every `get…AnalogMonitor` function repeats with its own timer: `running` is what a
message leaves running, `edom` is `errno`, which nothing ever clears. `answer` is the
status of the last message, with the history whether one of its steps failed. The last
enable, position or voltage kept to be answered is modelled where a property tells its
values apart; otherwise the answer is any of the statuses the handler can give.

Each device has, beside what the software remembers, its **shadow register** and the
**register in the hardware** (`…Hw`), which the software cannot read back. A command
changes the shadow and writes all of it; if the write fails the shadow takes the old bit
back, where the code does that. `…Written` tells whether the hardware's register was
written since the computer started or the cartridge got its power: until then the two
need not agree.

- **`Cryostat`.** Switching the backing pump off writes the register four times
  (`backingPump.c:66`), so it is the one command that is several actions, `cryoStep`
  being the next write; a restart may come between two.
- **`Bias`.** One copy of the register serves the two bias modules of a cartridge
  (`biasHw[p]`), so a write to one polarization sends what was set for the other.
  `SetStandby2` and `LeaveStandby2` are what the power distribution commands; until the
  idle loop makes the change (`goingStandby2`) no message is answered, and a command
  back does not recall it. `AsyncCartridgeGoStandby2` makes the writes of the change,
  any of which may fail unnoticed and none of which is made in SIMULATION mode; the
  history `spared` is what was lit and stays so for that reason. A cartridge that loses
  its power (`PowerCycle`) gets zeros, its copy is not told, and it comes back ON or in
  STANDBY2. TLC looks at four bands: band 2 has a pair of amplifiers only, band 4 mixers
  without magnets, band 6 both, band 9 the heater that needs its rest, beside a led.
- **`LoRegisters`.** The switches share their register with the channel of the analog
  monitor, so every measurement sends them again; clearing the unlock latch is two
  writes; the command to the multiplier falls through to two more potentiometers.
- **`Lpr`.** `switchAt` is where the last strobe sent the light. Register, strobe, port
  and shutter change one after the other and any of the writes may fail. The receiver
  keeps its power when the computer restarts, and `lprStartup` sends it to the shutter.
- **`IfSwitch`.** A command to all channels sets them one by one and stops at the first
  bad value or failed write.
- **`Fetim`.** `fetimAsync` is one action per call: `asyncFetimState`, the sensor it is
  at and the state of its serial access. `trigger` is the FETIM's interlock,
  `shutdownTrig` the copy that the round looks at. `judgedSafe` remembers what the
  pressure was.
- **`OneWireBus`.** The program searches at the start, for a message and for the console;
  one action is one passage over the bus, after which `RecoverROM` decides what is sent
  with the next. `Doubts` and `Reached` are the bus (external): where devices still in
  the search differ, and whom the bits sent lead to. An answer that is not waited for
  long enough is any answer. The list is read number by number while messages and
  searches come in between. Bit rate, bytes and the outer section of the bus are left
  out.
- **`Devices`.** A behaviour sends its messages to one device (`unit`) and changes the
  mode. Handlers are atomic and two devices share only `mode`, `running` and `edom`;
  each device finds these in any state, because `ModeCommand` and `SomeConversionFailed`
  set them as the others would, and `TimersReleased` says that they leave no timer. So
  looking at the devices one at a time loses nothing.

### Cryostat sensors

One call of `cryostatAsync` is one action: a step of the sample (`analogState`), which
the code keeps in one static variable for all sensors, or a step of the cold head's
hours. In between come the other turns of `async()`, power commands (which take the
turn, `pdModule.c:284`), the console's toggle, changes of mode and restarts. The value
of a sensor is abstracted to the sensor it was measured from (`mux` is what is selected,
`sampled` what was when the conversion started), which is all the property tells apart.
A monitor request is answered from memory (`Status`). The constant `WithinSample` lets
the mode change in the middle of a sample, `Faults` may contain a file that cannot be
written.

## Runs

All bounds are constants in the `.cfg`. `CHECK_DEADLOCK FALSE` is used only where the
exit command stops the program.

| run | bounds | shows |
|---|---|---|
| `CartridgePower` | 3 cartridges, limit 1 (3 in TROUBLESHOOTING), 1 STANDBY2, no faults | counters exact, `PowerBudget` implemented. Three cartridges are needed for one too many at full power beside one in STANDBY2 |
| `CartridgePower_faults` | 2 cartridges, none for STANDBY2, all writes may fail, restarts, console | the round and its timer stay consistent, counters exact; the supply starts to feed only the cartridge commanded on |
| `CartridgePower_supply` | 2 cartridges, one for STANDBY2, writes of the power commands may fail, bias messages, restarts | state, enable flag and supply agree; the status of a command is true; READY means initialised for a cartridge that never goes to STANDBY2; the two counters add up to the cartridges that are not OFF, although a failing power-off of the cartridge in STANDBY2 makes each of them wrong |
| `CartridgePower_live` | 2 cartridges, STANDBY2, console, failing initialisations | `async()` always has a step, and no powered cartridge is locked out for ever |
| `CanComm` | 4 messages of 4 kinds, timeouts of headers and payloads | `CanService` implemented; unless a header is lost, every message is executed and every request answered |
| `CanComm_console` | 4 messages, console, timeouts | no step of the handler gets stuck, nothing executed twice, the port is released |
| `ErrorHistory` | 5 slots, 2 errors | `ErrorQueue` implemented; a count is a promise |
| `LocalOscillator` | tables of two tunings in any order of entries, for one or both polarisations (a missing limit is 0), tunings at, between and outside them, one too large; two voltages, above and below the limit of 5; all writes may fail | the limit found is the one the table means; answers are true whatever fails; until a write of a potentiometer fails, memory and hardware agree and no write exceeds a limit or raises a voltage in a warm dewar |
| `Devices` | all seven devices; bands 2, 4, 6 and 9 with the bits that differ between them, three of the four LO switches (`upperSideband` and `nullIntegrator` are handled alike), one potentiometer, two ports of the optical switch, two IF channels with a valid, the largest and a too large attenuation, two FETIM sensors; buses of no, three and four devices with serial numbers of two bits and room for three, a list read up to three numbers far; every fault, restarts, SIMULATION mode | what is remembered and answered is what the registers hold; a cartridge in STANDBY2 is dark but for what writes that were not made spared; `VacuumLine` implemented; no timer left running; no failure hidden but at the four points that look at no result; a search of the one wire bus finds each device once |
| `CryostatSensors` | one temperature and one vacuum sensor and the supply current, one retry; failing writes and reads, a converter that stays busy, power commands, console, restarts, modes changed between two samples | a value belongs to its sensor, counted hours are saved, no step gets stuck, the round goes on |
| `Claim_*` | as small as shows it | see below |

`NothingBlocks` of three modules says that what the code has to do next it can do: every
state of a handler, of the round or of a sample has a branch for whatever was commanded
in between. It is checked as an invariant, because it is about `ENABLED`, and it is what
the theorems about liveness take from TLC. The types of these three modules are left to
the theorems `TypeCorrect`.

Two cartridges suffice where a property is about one cartridge and what happens to
another in between: the round has one current cartridge and the handlers address one.
Four messages give one in each place a message can be: on the port, in the buffer, in
`CANMessage` and answered. Two channels, ports or sensors suffice where handlers address
one and the property asks what happens to another. `Devices` is further bounded by
`SimulationBound`: the vacuum line is not commanded in SIMULATION mode, whose commands
change memory only and which `VacuumLine` excludes, and a local oscillator, the receiver
and the IF switch enter that mode only before they were commanded, since their
properties promise nothing after it.

### What the code does not keep

Two sentences of comments have a run in which TLC refutes them with a shortest sequence
of events; `findings` in `PROJECT.json` gives the lines.

- `Claim_init_failure_power`: a failed initialisation switches off the wrong module on
  the wrong port and calls the cartridge OFF.
- `Claim_fetim_shutdown`: the round shuts the front end down for a copy of the FETIM's
  trigger that only a monitor request refreshes. If nobody asks, the trigger goes
  unnoticed for ever, though `async()` runs. What holds is `HeardTriggerCorrect`: once a
  request has brought it into the copy, the front end is shut down.

More statements are in the modules, each with the constants under which TLC refutes it,
and without a run of their own:

- `MCCartridgePower`: a cartridge in the error state may be taken to READY by the
  initialisation under way; STANDBY2 commanded before the initialisation skips it; OFF
  and ON in quick succession inherit the old wait; access is open before the
  initialisation; a cartridge may be READY in STANDBY2 with its cold electronics on; the
  legal transition ON to STANDBY2 stores the error of an illegal one; the initialisation
  accesses the hardware in SIMULATION_MODE; more than four cartridges may be powered
  after TROUBLESHOOTING_MODE.
- `MCCanComm`: an answer to the console may be written to the bus; a bus message that
  arrives while the console's request is handled is dropped; a message whose payload
  timed out is handled with bytes nobody sent.
- `MCLocalOscillator`: a drain voltage whose reduction failed counts as reduced at the
  next tuning; the 256th entry empties the table of limits; the initialisation of a
  local oscillator that was switched off and on sets the second drain voltage to what it
  was.
- `ErrorHistory`, `StoresInsideHistory`: the 256th error is stored behind the array.
- `Lpr`, `BusySwitchIsLeft`: what is tested for a busy switch is its error bit
  (`lprSerialInterface.c:255`). `StopsDark`: a write that fails ends the stop of the
  front end before the light is in the shutter; without one it is dark (`StopDarkens`).
- `OneWireBus`, `EsnsAreTold` without its conditions: the console's search
  (`console.c:226`) leaves the index of who reads the list, which may then be behind its
  end; a search that failed, which a message does not look at (`can.c:618`), leaves new
  numbers under the old count.
- `Bias`, `HeaterIsNotKeptOn`: a heater of band 9 is switched on while its timer runs. The
  copy of the register, changed for the other polarization or left from before a loss of
  power, takes the bit along with any later write (`biasSerialInterface.c:569`). Of what
  `sisHeater.c:91` says only the refusal of the command is kept.
- `Cryostat`, `TurboPumpIsTold`: a command to start a pump that runs and is too cold or
  too hot is refused and marks it disabled (`turboPump.c:117`). What holds is in
  `CommandsTellTruth`: while the last command was carried out, the answer is true.
- `Fetim`, `StatusReachesFetim`: a write of the front end's status that fails is taken
  as made (`fetim.c:251`), and nothing repeats it before the pressure changes again
  (`"write"` in `Faults`).

More are seen by widening a passing run: `CountersExact` with STANDBY2 and failing
initialisations or power-offs (each decrements the wrong counter); `ServesEveryMessage`
without its condition, because after a timeout in a header the port stays blocked;
`WarmStaysDown` with a voltage of more than 255 steps in `Volts`, which wraps
(`paChannel.c:178` checks no range) and is raised by its own reduction; `ValuesBelong`
with `WithinSample = TRUE`, because a sample under way stays where it is in SIMULATION
mode while the sensors go on; `HoursAreSaved` with `"file"` in `Faults`, because a file
that cannot be written is taken for written (`frontend.c:216`). And `edom` is never
reset: once one conversion left its domain, every later one that looks at `errno`
(`ifSerialInterface.c:327`) fails.

## Fairness

`CartridgePower`: `WF(Async)`, since `main` calls `async()` whenever no message waits
and messages arrive more slowly than they are handled, and `WF(InitTimerElapses)`, since
time passes. Nothing is assumed of messages, the console or failures.
`InitialisationEnds` is conditional on the console not stopping the idle loop for good:
command `a` does exactly that.

`CryostatSensors` and `Fetim` (`ShutdownSpec`): `WF(Async)` and `WF(FetimAsync)`, for
the same reason. Failures need no fairness: a step that always fails must not keep the
round either. `RoundGoesOn` is conditional on the console, and on an end of power
commands and restarts: each of these takes the turn away.

`CanComm`: weak fairness of the main thread, which runs, and of the interrupt, which is
taken once it stays accepted. The AMBSI need not send anything. The promise for one
message is `Executes(n)` and `Answers` of `CanService`.

## Proofs

`tlapm` checks every step. The theorems hold for all values of the constants that
satisfy the named assumptions; the exceptions are hypotheses of the theorem and each is
*necessary*: TLC finds a counterexample without it. (The bounds under *Liveness* are of
another kind, see there.)

- **`CartridgePowerProofs`.** `TypeCorrect`. `InitialisationCorrect`:
  `OnlyCurrentIniting /\ TimerDiscipline` is inductive given the types; only their
  conjunction is, because a timer found running would be an initialisation error.
  `TimerCorrect` is the second half of it.
  - *The supply.* `PowerCorrect` (no SIMULATION_MODE, no failing initialisation or
    start): the inductive invariant is that `hwPower`, `aReg`, `enabled` and the
    cartridges not OFF are one set. `RegisterCorrect` is the part about the register
    and needs no assumption on the mode. `FeedCorrect` has no assumption at all: the
    shadow register is always *within* what the supply feeds, so a write for one
    cartridge switches no other one on. It may be less: a failed initialisation clears
    the bit of another cartridge, and a start whose write fails empties the shadow while
    the supply stays as it was. Then a write for one cartridge switches another one off,
    which is why `CutCorrect` excludes both.
  - *READY.* `ReadyCorrect` (no SIMULATION_MODE, no failing initialisation; starts and
    power commands may fail): what is not OFF is what the register holds and is fed
    (`FedInv`), also after a start that failed, because then the software calls every
    cartridge OFF and the shadow is empty. Besides, only cartridges which may go to
    STANDBY2 are on their way to it, so that READY is only reached through
    `cartridgeInit`. `ReadyLeftByCommand`, with no assumption: the cartridge the idle
    loop is at work on is never READY (`TaskNotReady`), so only a command or a restart
    ends READY.
  - *The status.* `CommandStatusCorrect` (initialisations do not fail) adds to
    `LastEnableHonest` that a cartridge in STANDBY2 is not OFF.
  - *The limits.* `CountersCorrect` and `BudgetKept` (no cartridge may go to STANDBY2,
    or power-off and initialisation do not fail): the invariant adds that a cartridge
    that is OFF is not in STANDBY2; each step either leaves the counted sets and the
    counters alone, or moves one cartridge between them, or empties both (`StepMoves`),
    and the byte arithmetic is that of cardinalities because there are at most 255
    cartridges. `LimitsCorrect`, with no assumption: a failed power-off or
    initialisation makes the counters wrong by the same number in opposite directions
    (`LimitInv`). `standby2Modules` is never below the number of cartridges in STANDBY2
    nor above its limit, and `poweredModules` is the rest, so that a power-on compares
    with its limit at least what the other counter leaves. `SupplyLimitCorrect` (no
    SIMULATION_MODE, no failing initialisation) says this of the supply: `hwPower` is
    what is not OFF, or, after a start that failed, what it left on.
- **`CanCommProofs`.** `ExecutedOnce`, with no assumption on console, faults or bounds:
  what is in `CANMessage`, if it is still to be executed, comes after everything
  executed; what is in the buffer comes after that. `AnsweredOnce`, with no assumption
  either, follows from that order: an answer belongs to the message executed last and
  has not been given while it is owed. `ServiceKept` (no console, no write
  timeout): `ServiceInv` ties the program counter, the flag and the service of the
  interrupt to the number of messages executed.
- **`ErrorHistoryProofs`.** `NumberKept`: a store never lowers the number of unread
  errors and a read lowers it by one. `QueueKept` (the memory behind the array keeps
  what is stored): the slots between the indices, read around the wrap, are the queue.
- **`LocalOscillatorProofs`.** `TypeCorrect` needs that a limit found is a value of a
  potentiometer: there is a first entry at or above the tuning (`FirstOne`, from the
  well-foundedness of `<`), so the scan stops, and an interpolated limit lies between
  its neighbours (`DivBetween`, `InterpolateTyped`). It holds for tables of any length
  and order. `TableCorrect`, without assumptions, is that the limit found is the one the
  table means: the entries stay strictly increasing (`Sorted`, whose step `SortedStep`
  follows an entry into its slot), and rounding down commutes with whole steps
  (`DivShift`). `MemoryCorrect` and `ClientIsTold` (no SIMULATION_MODE; any write may
  fail): `Agreement` follows `loInit` one write at a time until memory, shadow and
  hardware agree, which lasts until a potentiometer's write fails; `Told` keeps what was
  answered true while a tuning has nothing to report. `DrainIsSafe` and `WarmIsDown`
  (besides, the voltages commanded are values of a potentiometer): `Limiting` says that
  a polarisation `limitSafeYtoTuning` has been at is within the limit at the tuning
  asked for, and `DrainStep` that only a drain voltage command, with a cold dewar or
  where the temperature is not looked at, raises anything. `OnlyAsked` (no
  SIMULATION_MODE): what a write of a gate or of the other polarisation sends along is
  what the potentiometer holds. `EndSafe` (besides, no voltage commanded is negative;
  one beyond a potentiometer only wraps to one below it, `ScaleLowers`): a command ends
  with what it set within the limits, whatever was set before.
- **`DevicesProofs`** needs, but for `StopDarkens`, no assumption on the constants:
  every mode, fault, band, bit, port, attenuation and number of channels and sensors.
  `DevicesInv` says that the device the messages go to satisfies its own invariant, and
  that the others are as at the start, which each invariant allows (`EveryDevice`). The
  invariants and one lemma for each handler are in `CryostatProofs` and
  `RegistersProofs`. For the vacuum line `LineInv` adds what the four writes have
  switched off so far, and the refinement (`LineCorrect`) goes action by action: each
  write is a step of `VacuumLine`. `PumpCorrect` is then an invariant of `VacuumLine`
  alone: neither the turbo pump nor a valve without the backing pump. For the receiver
  the property and the types are inductive; `StopDarkens` (no write fails) follows the
  stop to the shutter. The FETIM adds that the remembered status is the pressure last
  judged, and that the copy of the trigger is only set where the FETIM has triggered
  (`ShutdownIsTriggered`); the IF switch that the copy of the servos is what is answered
  for them, the local oscillator that its copies are what memory and the last commands
  say, the bias electronics that a band drives only the converters it has, and that each
  write of the change to STANDBY2 puts out its own device in the module it reaches,
  whichever others fail (`OnlySpared`, from which `Standby2Correct` follows).
  `OwbCorrect` holds for serial numbers of any length and any set of devices. The
  passages go through the devices in the order of their first difference
  (`FirstDifference`, from the well-foundedness of `<`; `BeforeIsStrict`): `TREE` is the
  set of doubts at which the next device answers 1, the list so far is the set of the
  devices before it, and it is as long as that set is large. So while a search goes on
  there is a device it has not found, the first of which is reached next
  (`SearchEndsInTime`).
- **`CryostatSensorsProofs`.** `ValuesCorrect` (the mode is not changed within a sample)
  follows the six states of a sample: from the conversion on, `sampled` is the point the
  round is at. `HoursCorrect` (the file can be written). `TypeCorrect`.

### Liveness

The prover cannot show that an action is enabled, so a weak fairness condition is of no
use to it alone. The five theorems below have the hypothesis that whatever is due is
enabled (`[]NothingBlocks`, for the FETIM `[]AsyncNeverBlocks`). TLC checks exactly this
formula, on the runs or beside them (`AsyncNeverBlocks`, which no run lists: with the
constants of `Claim_fetim_shutdown`, every fault and two external sensors); all the
rest, which actions help, what they lead to and that nothing in between undoes it, is
proved from `FairSpec` (`Spec` of `CryostatSensors`, which is fair, `ShutdownSpec` of
`Fetim`).

- **`PortReleased`**, with no assumption: an interrupt in service leads from step to
  step of the handler to `PPClear`; whatever the console or the next message does, the
  program counter stays or goes on. Only a header that timed out leaves it in service.
- **`EveryMessageServed`** (no console): for every number `n`, message `n` comes from the
  port to the buffer, to `CANMessage` and to `executed`, and no answer stays owed.
  `ServiceInv` says where a message can be (`WhereItIs`): while the program is behind,
  the next message is on the port, with the interrupt accepted, or in service, and from
  each place it goes to the next (`BehindIsServed`). At most two are sent and not
  executed, one on the port and one read, so serving the next one twice serves message
  `n`.
- **`InitialisationAlwaysEnds`** (at most the ten cartridges of `cartridge.h:101`): the
  turn of a cartridge ends with nothing left to do for it (`TurnEnds`). Only calls of
  `async()` carry its task on, and what comes between two calls is a restart, which
  switches every cartridge off, or leaves task and phase as they are
  (`OnlyAsyncTakesTurns`, `AsyncTakesTurn`). The one phase that waits for something else
  waits for the timer, which `TimerDiscipline` says is running or has expired. Each turn
  that ends brings the turn of the cartridge that waits nearer (`TurnComesNearer`), and
  its own takes it out of the state it was in (`OwnTurnEnds`).
- **`RoundAlwaysGoesOn`** (the mode is not changed within a sample; at most 15 sensors
  and 10 retries, `CodeBounds`; the code has 13 temperature and 2 vacuum sensors): each
  step of a sample ends it or brings it nearer to its end (`SampleAdvances`, with the
  number of calls left), so the point changes again and again (`PointsMove`), and every
  point, and after the last one the hours, is reached (`PointComesBack`).
- **`HeardTriggerCorrect`** (at most the two external sensors of `fetimExtTemp.h:23`): a
  call of the round ends the access to a sensor, goes on to the next, or comes to the
  interlock and looks at the copy of the trigger, which nothing but a start takes back
  (`TriggerStays`). `CallsToShutdown` counts the calls left and each call lowers it
  (`CallsCountDown`).

The bounds on the numbers of cartridges, sensors and retries are those of the code. They
are needed because an argument over a number of steps that is not fixed is an induction
over a temporal formula, which the prover cannot be given: the steps are counted down
one by one instead.

Every invariant, action and liveness property of a passing run is a theorem, with the
exceptions named. Only model-checked: `NothingBlocks` and `AsyncNeverBlocks`, because of
`ENABLED`, and the `Claim_*` runs, which refute.

## Not modelled

- Scales of analog values and the text of reports: no property is about them.
- The Teledyne amplifiers (`teledynePa`), which are driven without a table of limits,
  and the table in the `.ini` file.
- The serial mux's busy wait (`serialMux.c`): an access of a device succeeds or fails. A
  write counts as done once the mux took it, which is when the code reports success; a
  transfer the mux then loses is not modelled, and one that hangs shows in the next
  access, which fails.
- The configuration files (`iniWrapper` with a vendored parser), which are input.
- The special addresses of `can.c` that report versions and counters.
- The reports of the console, the network address, the socket headers, the bench
  programs in `arcom_test_sets` and the update tool, which are not the firmware's own
  logic.
