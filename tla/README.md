# Mini-JV880pi in TLA+

Mini-JV880pi (`src/`) turns a bare-metal Raspberry Pi into a Roland JV-880: an
emulator of the synthesizer's MCU and PCM chip (Nuked SC55) runs on three cores,
fed with MIDI from a serial port, from USB and from the network, and is shown on
a small display with buttons and an encoder. This directory holds TLA+ models of
the parts of it where order and timing matter, their TLC configurations, and
TLAPS proofs.

Paths such as `minijv880.cpp:576` are relative to `src/src/`.

## 1. The system

### 1.1 Cores and contexts

| Where | What runs there |
|---|---|
| core 0 | `CKernel::Run` calls `CMiniJV880::Process` for ever: bank changes, serial MIDI, USB plug and play, network; cooperative tasks (AppleMIDI, UDP, FTP daemon and workers, mDNS) run whenever the main task yields; USB and timer interrupts preempt all of them |
| core 1 | draws the screen |
| core 2 | executes the emulated MCU in bursts and copies samples from the ring to the sound device |
| core 3 | turns elapsed MCU cycles into `PCM_Update` calls, which post samples into the ring |

There is no lock between cores 2 and 3: they share the sample ring, the MCU's cycle counter
and the pause flag through atomics. Core 0 and core 2 share the emulator's memory, its UART ring and
its interrupt requests, mostly without either.

### 1.2 Components

State, operations, interactions, what is hard, and what "correct" means for each.

**Sample ring and audio cores** (`emulator/mcu.h`, `minijv880.cpp` `Run`, `emulator/pcm.cpp` `PCM_Update`).
State: `sample_buffer`, `sample_write_idx`, `sample_read_idx` (`uint64_t`, masked on use); core 2's block;
core 3's `last_generated_cycles`, `samples_to_gen`; `mcu.cycles`, `pcm.cycles`; `m_bAudioPaused`.
Operations: `MCU_PostSample` (which drops the oldest samples when the ring is full), the fill loop,
the batching loop. Hard: two writers of the read index; stale loads, after which a difference of indices underflows; pausing two loops that
look at the flag at different places. Correct: left stays left, a block is filled to its length and not beyond,
nothing lost or repeated without an overrun, sound is never stuck.

**Bank change** (`HandleFullMIDIMessage`, `Process`, `switchPatchBank`, `LoadRom`).
State: the pending bank and its time stamp, the bank MSB per channel, the loaded ROMs, the wave and patch memories.
Requests come from the USB interrupt or network tasks while `Process` debounces and switches. Correct: the bank
switched to is the one asked for last; waves and patches belong together; requests are not lost.

**MIDI byte parser** (`midi.cpp`). State: `status_`, `data_`, `count_`, `sysex_buffer_`, `sysex_count_`, `in_sysex_`.
Fed by `Process` and, in the middle of that, by the USB interrupt. Correct: messages whole, buffers in bounds.

**MIDI dispatch** (`HandleFullMIDIMessage`). Bank select, controllers that act as buttons, encoder and volume,
program change to save the patch memory, the Roland checksum, and the hand-over to the emulated UART
(`mcu.postMidiSC55`). Correct: the checksum is the sum over address and data; the rest reaches the firmware unchanged.

**AppleMIDI session** (`net/applemidi.cpp`). State: the session state, the peer's two addresses, the time of the last sync,
the RTP sequence number and what of it was acknowledged. A task polls two UDP sockets; packets from anyone come in any order.
Correct: both halves of a handshake come from one host, what is acknowledged was received, a dead peer is given up and a live one is not.

**UDP MIDI** (`net/udpmidi.cpp`, `udpmididevice.cpp`). A socket whose datagrams are handed to a parser of its own; callbacks of the AppleMIDI session.

**Emulated MCU** (`emulator/mcu.cpp`, `mcu.h`, `mcu_opcodes.cpp`). State: registers, status register with its interrupt mask, memories by page, the registers of
the devices on the chip, interrupt requests. Operations: an instruction, a tick of the timers, the converter and the serial port, the acceptance of an interrupt.
UART: a ring of 8192 bytes that core 0 writes and core 2 reads. Hard: an interrupt may come before any instruction but the one behind `LDC`, `ORC` and their like; flags that are cleared
by a read and then a write; requests that stay up. Correct: programs compute what their arithmetic says, a handler gives back what it found, no interrupt is lost before `SLEEP`.

**Gate array** (`MCU_GA_SetGAInt`, the read of `0xf402`). `ga_int_trigger`, `ga_int`, the request and `irq_assert` are written by core 0 (encoder), core 3 (sound chip) and core 2
(firmware); only the sound chip's half is under a lock. Correct: its line and its interrupt stay together, every interrupt is answered.

**PCM chip** (`emulator/pcm.cpp`). Registers written through a latch, the mask of the voices that sound, the interrupt of a voice; voices, envelopes, filters, effects; the frame and
clock structure. Core 3 computes while core 2 writes registers. Correct: no frame plays a mask the firmware did not mean.

**LCD controller** (`emulator/lcd.cpp`). The HD44780's address counter and memories, written by core 2, drawn by core 1.

**User interface** (`userinterface.cpp`), **buttons** (`uibuttons.cpp`), **encoder** (`drivers/robustky040.cpp`).
Debouncing, click, double click, long press; the encoder's phase table; both translated into the MCU's button word.
Correct: what is told is what was pressed, in time; a turn of the encoder silences its switch, but for one thing when it comes within a read; bounces of the encoder never add up to a step in the wrong direction.

**FTP** (`net/ftpdaemon.cpp`, `ftpworker.cpp`). One worker at a time; login, current path, transfer mode, data socket, renaming.
Correct: data goes where the client was told, files are closed, the paths of CWD, CDUP and PWD agree, a client that has gone frees the worker.

**mDNS publisher** (`net/mdnspublisher.cpp`). A list of services under a lock, announced by a task in three rounds and then once before the time out. Correct: a listener that heard of
a service is told again before it forgets it.

**Network lifecycle** (`minijv880.cpp` `InitNetwork`, `UpdateNetwork`). Called by `Process`; makes the FTP daemon, the MIDI services and the publisher when the network
is first there, takes the FTP service back when it goes, offers the services anew when it returns. Hard: two services of one name, told apart by their order alone. Correct: what is offered fits what is there.

**ROM loading and saving of the patch memory**, **configuration**, **kernel**, **display driver**: sequential; see `PROJECT.json` for each.

### 1.3 How the components interact

```
serial ---> Process ---> MidiParser ---> HandleFullMIDIMessage ---> UART ring ---> core 2 (MCU)
USB irq ----------------/   ^                 |      \                                | cycles
AppleMIDI, UDP tasks --(own parser)-----------+       \--> pending bank               v
                                                           |                      core 3 (PCM)
buttons, encoder -> button word, GA interrupt -> core 2    v                          | samples
                                              Process -> switchPatchBank              v
                                                  pauses cores 2, 3 <------------ sample ring -> core 2 -> sound
```

## 2. What is modelled

| Module | Models | Role |
|---|---|---|
| `SampleRing` | `MCU_PostSample`, the fill loop of core 2 | component |
| `SampleRingFifo` | the ring while core 2 keeps up, with a history of what was played | refinement of `AudioQueue` |
| `AudioQueue` | a bounded queue of samples | abstract specification |
| `AudioPipeline` | cores 2 and 3 and the pausing side of `switchPatchBank` | composition, extends `SampleRing` |
| `BankSwitch` | bank select, debouncing, `switchPatchBank`, `LoadRom` outcomes | component |
| `MidiParser` | `ParseByte` in a task and in the interrupt that preempts it | component |
| `AppleMIDI` | `CAppleMIDIParticipant` | component |
| `FtpPaths` | the three path conversions of `CFTPWorker` | operators |
| `FtpSession` | `CFTPDaemon::Run`, `CFTPWorker` | component, extends `FtpPaths` |
| `UIButtons` | `CUIButton`, `CUIButtons`, the event handlers of `CUserInterface` | component |
| `McuAlu` | the flags and results of the common arithmetic routines | operators |
| `McuDevices` | timers, serial port, converter, ports, lamps, keys, gate array, interrupt sources | operators on the record of the devices |
| `McuLcd` | `LCD_Write`, the characters of `LCD_Update` | operators |
| `PcmRegisters` | `PCM_Write`, `PCM_Read` | operators |
| `McuCpu` | memory map, stack, control registers, `MCU_Interrupt_Handle`, reset | operators, extends the four above |
| `McuOpcodes` | every instruction of the two tables | operators, extends `McuCpu` |
| `McuMachine` | core 2's loop around the machine, with the encoder, the serial port and the keys | component, extends `McuOpcodes` |
| `McuPrograms` | thirteen small firmware images and what their results have to be | TLC instance of `McuMachine` |
| `GateArray` | the interrupt lines between three cores, one load or store at a time | component |
| `VoiceMask` | the voice mask between firmware and sound chip | component |
| `Network` | `InitNetwork`, `UpdateNetwork`, `CmDNSPublisher`, the FTP command BYE | component |
| `MCBankSwitch`, `MCAppleMIDI`, `MCFtpSession`, `MCUIButtons` | values of function-valued constants | TLC instances |
| `AudioPipelineProofs`, `BankSwitchProofs`, `AppleMIDIProofs`, `FtpSessionProofs`, `UIButtonsProofs`, `MidiParserProofs`, `NetworkProofs`, `EmulatorProofs` (gate array, voice mask, arithmetic and stack of the MCU) | theorems | proofs |

### SampleRing

`widx`, `ridx` are `sample_write_idx` and `sample_read_idx`, modulo `W` (2^64 in the code), `SIZE` is
`AUDIO_BUFFER_SIZE`. A sample is its place in the stream, so that "which sample" is a
number and "which channel" its parity. `PostLeft`, `PostRight`, `CheckOverflow`, `DropOldest`, `Publish`
are the loads and stores of `MCU_PostSample`; `BeginBlock`, `LoadWrite`, `LoadRead`, `CopySample`, `StoreRead`,
`RetryFill`, `Output` those of the fill loop, each an action of its own. `MaxAhead` bounds how far the
producer may run past the consumer: beyond the size of the ring, so that overruns happen, and beyond a whole lap of it.

### AudioPipeline

Adds the MCU burst (`McuInstruction`, `EndBurst`), core 3's loop (`CheckPause`, `Resync`, `Measure`, `StartBatch`,
`EndBatch`), the block structure of `PCM_Update` (`StartBlock`, `PostFrame`, `EndBlock`) and core 0's `Pause` to
`Resume`. Clocks are kept relative to `last_generated_cycles`, which lets the model run for ever in finitely many states.
The delays of `switchPatchBank` (300, 300 and 50 ms) are modelled by the guard `Settled`: they outlast the finite
work the other cores have in hand when audio is paused (one burst, one batch), and nothing more is assumed of them.

### BankSwitch

`pending`, `age` are the pending bank and the time since its stamp. The handler's actions may come between any
two steps of `Process`, as the USB interrupt does. `Reading` is the part of `switchPatchBank` between the pause and the
resumption. A ROM load may fail, a patch file may be missing or short. `RomOf` is what the scan of the patch
directory found. No `Tick` happens between the two loads of `Process` (`pc = "Stamp"`): they are a few instructions
apart, a tick a large part of 300 ms.

### MidiParser

`ParseByte` at the grain of accesses to the parser's members in the task, and as a whole in the interrupt, which may
come between any two of those. A byte is its kind and the message it came with. A third byte for `data_` is undefined
behaviour in C++: the model stops there. System exclusive messages of 1024 bytes and more are not modelled; `LenMod` scales
down the 256 of the eight-bit length.

### AppleMIDI

One `Round` is one pass of `Run`'s loop: at most one packet from each socket, then the handler of the state. Any packet from any
peer may come at any time, which covers loss, duplication and reordering. A receive error leaves the old packet in the buffer, and the code parses it
again: `stale`. `GetSyncClock` is a 64-bit difference of a 32-bit counter; `Huge` is what a negative difference comes to.
The session token is not checked by the code, and so is not in the model. The MIDI command section and `SendMIDIToHost` (which nothing calls) are left out.

### FtpPaths, FtpSession

A path is a sequence of names, slashes and colons (two names never touch); the conversions keep the code's order of
cases, the runs of slashes and the colon that makes a volume. What the path means to FatFs is `Names`, its volume first; `Understood` is a path that begins with a volume and has no other colon, all that FatFs opens here.
`..` is a name that no directory has. The sizes of the buffers are left out, but not the byte before one: of an argument of slashes alone nothing is left, and killing the trailing slash looks at the byte
before the buffer (`ftpworker.cpp:1180`), so that `Absolute` leads to the list of volumes or is refused.

One command at a time is read from the control connection and handled; RETR, STOR, LIST and NLST go on in steps (`SendPreliminary`, `OpenDataConnection`,
`AcceptData`, `EndMove`, `EndList`), between which the client may fall silent or close, as it may at any other time. A reply to a client that has gone may or may not fail.
A second client while there is a worker is told 421: no step. `Answer` stands for all commands that change no state of the session: refused ones, failed ones, SYST, TYPE (whose
result nothing reads), PWD, NOOP, DELE, RMD, MKD. What those do to the card is not modelled, nor the text of the listings. `Bye` restarts the device; the mDNS publisher it would
call is null on every path to it, since `minijv880.cpp:1019` passes it on before line 1039 makes it. A relative CWD asks only `f_stat`, which takes files as well, so the current
"directory" may be a file.

`agreed` and `lost` are history: what the last PORT or PASV was told, and how many transfers returned without closing their file.

### UIButtons

`Read` is one call of `CUIButton::Read` with the event it leads to; `turn` is the loop variable of `CUIButtons::Update`, so that pins change and the interrupts of the
encoder and of USB MIDI come between the reads of an update. Time is counted in reads, one per 100 microseconds or more.
`EncoderTurn` is a turn between two reads, `TurnWithinRead` a read of Enter with the interrupt of a turn in it. The read and the reset share `m_timer`, `m_numClicks` and `m_released`,
plain members that the compiler may load and store in any order: `TornReads` lets the read find each of the three as it was or as reset, and leaves each as the read or as the reset writes it. That covers the
source order, wherever the interrupt comes (the build loads `m_timer` once for the comparison and the increment of lines 112-113). A read lasts microseconds, so there is at most one turn in it. What such a turn leaves behind belongs to no gesture: `torn` says that it is there,
and `TriggerFitsGesture`, `AnsweredInTime` and `NothingLost` claim nothing of it; `RotationSilences` says that it can be told once.
`Wiring` is the table that `Initialize` binds, several events to a pin if they have different triggers. `word` is `mcu_button_pressed`. `MCU_EncoderTrigger`, which
events `Up` and `Down` and turns of the encoder lead to, is in `GateArray` and `McuMachine`; the saving that event `SaveNVRAM` starts is left out. `gesture`, `rotated` and `torn` are history.

The word is a level, and `CUIButton` tells of a release only while the button is held (`TriggerFitsGesture`, the case of `Release`). So the key of a click stays down for the
emulated machine until some other event lifts it: another key, a MIDI controller, or a double click held too long. A button without a long press tells nothing when it is held for longer than `LongPressTimeout`.

### The emulated MCU: McuAlu, McuDevices, McuLcd, PcmRegisters, McuCpu, McuOpcodes, McuMachine, McuPrograms

A machine is a record `m`: the registers, the memories as sparse functions of the page's store and the offset, the devices `m.d`, the display `m.lcd`, the sound chip's registers `m.pcm`.
An instruction is an operator from machine to machine; a read gives the value with the machine, since reading a device may change it (the flag that a later write may clear,
the trigger of the gate array, the voice mask that takes effect). `MCU_Operand_General`'s addressing modes and the two tables are tables of operators here as well. Numbers keep their
widths: 8, 16 and 20 bits. Times of devices are kept as what is left of them, and cycles are given by `CYCLES` per instruction, so that the cycle counter need not grow.
`exception_pending` is written by `MCU_ErrorTrap` and read by nobody, so an instruction that traps does nothing more.

`McuMachine!Core2` is one `Round`: the interrupt that is due, if the instruction before allows one, then an instruction, then the clocks of the devices. `Turn`, `Send` and `Press` are the
world. `contexts` is history: what each running handler interrupted and the registers then. `McuPrograms` holds a small assembler and thirteen images:
sums and differences of 32 bits, products and remainders, every branch after a compare, shifts and bits, frames and subroutines in another page, every kind of jump, waiting for a byte
asleep, a request that stays up, timers and a trap, the display, the sound chip's registers, the keys and the converter, a reset by the program itself. Their results are compared with plain arithmetic on the
inputs, which shares no operator with the machine; for `SHAR` of a negative number the arithmetic is that of the code's masks.

`SHAR` is modelled as the code has it, which is no arithmetic shift (see the findings); the image of the shifts runs it on negative numbers, and its expected result (`SharOf`) is what that code
gives. Two more things of the code are shown by no image: `MOVF` takes its size from the inverse of the bit that the rest of the short forms use (`mcu_opcodes.cpp:763-803`), and
`JMP` and `SCB` with register 7 read the program counter from behind the array of registers. Both are modelled as they are in the code.

### GateArray

`MCU_GA_SetGAInt` is `Rise`, `SetLine`, `Look` and `Ask`, one action for each load or store that another core can come between; the read of `0xf402` is `ReadTrigger`, `ZeroTrigger` and
`DropRequest`. `lock` is the mutex around the sound chip's half. `credit` is history: a turn of the encoder has come since the sound chip last raised its line. The firmware has
enabled the three lines and, having taken an interrupt, reads the trigger and, for the sound chip's line, asks it for the voice.

A turn of the encoder that comes between two statements of another core may take away the sound chip's request or trigger: then `irq_assert` and the line stay up with nobody to
take them back until the next turn or status read. This is why `SoundAnswered` excepts `credit`; nothing in the repository promises more.

### VoiceMask

Core 2 writes the bytes of the pending mask in any order and then reads it, which puts it in force; core 3 loads the two masks in either order (the expression leaves it to the compiler).
`target` is the mask that the firmware means, `steady` and `silent` are history: the voices that were wanted all the time, and those that were at no time in force, since the first of the two loads.
A byte of the pending mask is written by two statements, one that clears it and one that sets it (`pcm.cpp:52-66`). The field is a plain `uint32_t` that nothing reads in between, and the build, with `-O3` (`Makefile:23`), stores it once, as
`WriteByte` does. Two stores would make a difference: with the cleared byte visible to core 3, TLC finds a frame without a voice that goes on, so `FramePlaysWhatWasMeant` rests on the optimisation.
Assumed of the firmware, which is not in the repository: it begins a new mask only when the one before is in force.

### Network

Tasks are cooperative, so an action runs from one `Yield`, `Wait` or `Sleep` to the next. `m_ServiceList` is the list of services, by kind; `timer`, `task` and `round` are the publisher's task, `m_Event`
its event; `unheard` counts the seconds since a listener heard of a service. `m_pmDNSPublisher` and `daemonPublisher` say which objects exist and what they were given.
`LATE` is the longest that a task which is due is kept waiting: a round of the main loop that changes the bank takes 0.65 s and the reading of a file.
`InitNetwork` fails for good without a network device; when the publisher cannot make its socket, `LOGPANIC` halts the board.

## 3. Runs

`mcu_machine` and `pipeline` take a minute or two with two workers, the others less than one.

| Run | Checks | Result |
|---|---|---|
| `ring_keepup` | `QueueSpec` (refinement of `AudioQueue`) | holds, as long as every post finds room |
| `pipeline` | `ChannelAligned`, `BlockNotOverrun`, `ResumesEmpty`, `PcmNotAhead`, `ReloadUndisturbed`, `AudioKeepsFlowing`, `PauseEnds` | hold through pauses, resets and overruns |
| `bank_switch` | `WavesMatchPatches`, `DecidedOnLatest`, `ForgottenOnlyInSwitch`, `RequestServed` | hold; the first excepts a patch file that is missing or short, bank 0 and the start |
| `midi_parser` | `OverrunOnlyByCutSysex`, `SerialWhole`, `NothingElse` | hold; the last two of messages that neither a packet nor a realtime byte comes into |
| `midi_shared` | `DataInBounds` | **violated**: see findings |
| `applemidi_session` | `HalvesMatch`, `AcksOnlyReceived`, `StrangersIgnored`, `TimesOutWhenSilentOrWrapped`, `InvitationEnds`, `SilentGivenUp` | hold |
| `ftp_session` | `FlowsAsAgreed`, `FilesClosedButLost`, `PwdLeadsBack`, `CdupGoesUpByOne`, `WorkerFreed` | hold |
| `front_panel` | `TriggerFitsGesture`, `AnsweredInTime`, `NothingLost`, `RotationSilences` | hold, with what a turn within a read leaves behind told at most once |
| `mcu_machine` | `ResultsCorrect`, `NoReentry`, `InterruptsTransparent`, `Finishes` | hold for all thirteen images, with the world interrupting them anywhere |
| `gate_array` | `LineFollowsAssertion`, `AcknowledgesWhatAsserted`, `SoundAnswered` | hold |
| `voice_mask` | `FramePlaysWhatWasMeant` | holds |
| `network` | `ListFitsNetwork`, `AnnouncedInTime` | hold |

The type invariants `TypeOK` and `PipeTypeOK` are in no run: those of the audio cores, of bank changes, of the buttons, of `MidiParser`, `AppleMIDI` and `FtpSession` are proved, those of `GateArray` and `VoiceMask` are contained
in their proofs.

### Bounds, and why they are enough

* `ring_keepup`: a ring of 6 samples, blocks of 2 and 4, indices modulo 18, so that they wrap within a few laps.
* `pipeline`: a ring of 6 and PCM blocks of 2 samples in batches of up to 2, blocks of 4 and a producer that may run 12 samples ahead (two laps), so that the ring overflows, is lapped during a copy, and `avail` underflows; two instructions
  per burst and a PCM sample that is no multiple of the core's sample time, as 625 is none of 187; the lead of the MCU (`MaxLead`) allows more than one batch. With a larger backlog (`MaxGen` 3, `MaxLead` 6) `AudioKeepsFlowing` fails: core 3 may then lap the whole ring
  between core 2's two loads of the indices, again and again. On the device a ring of 4096 frames would have to be posted between two instructions, so the liveness rests on a backlog smaller than the ring. The safety properties are proved without any of these bounds.
* `bank_switch`: two channels, two boards (two banks of one, one of the other), a bank no file maps, one above the range, one of the LSBs left to the firmware; a debounce time of two ticks.
* `midi_parser`: two messages from each source, system exclusive messages of one and three bytes of which the longer needs two USB packets and is longer than `LenMod`, one realtime byte.
* `applemidi_session`: three peers on two hosts, two sequence numbers, time outs of one and two ticks and a clock that wraps after five.
* `ftp_session`: a volume, a directory in a directory and a file, reached by paths with single, double and trailing slashes, slashes alone and a colon in the middle, of at most 7 tokens (`MaxPath`), enough for a trailing slash to be followed by one more name; two tries instead of three (a first that fails and a last one), a time out of one tick, two files left open.
* `mcu_machine`: a serial ring of 4 bytes, 32 cycles between bytes and for a conversion instead of 3000 and 200, and 16 cycles for an instruction, so that timers, bytes and conversions end within an image's few hundred instructions. One turn of the encoder at any instruction for most images; several turns, bytes and keys in the images that are about them. Six or more inputs for each arithmetic image, at the edges of sign, carry and borrow.
* `gate_array`: two voices and two turns: a turn may come in the middle of each half of a sound interrupt, and a second voice in the middle of the answer to the first.
* `voice_mask`: three voices in two bytes, so that a byte holds more than one voice and a change needs more than one byte.
* `network`: listeners that forget after 15 s instead of 4500 or 120, above the 10 s that the code subtracts for its time out; tasks up to 1 s late; the network lost twice, so that the list has entries of three connections.
* `front_panel`: two buttons with every combination of triggers that the code tells apart, debouncing for one read, and timeouts in each order: none for the double click, one shorter than that of the long press and long enough for a whole double click, and one that raises that of the long press to its own.

### Fairness

* `AudioPipeline`: weak fairness of each core; cores 2 and 3 execute nothing but their loops, and core 0 finishes a switch it has begun.
* `SampleRingFifo`: weak fairness of both cores' steps.
* `BankSwitch`: weak fairness of `Process`, which the kernel calls for ever; strong fairness of `Tick`, because the clock runs during the steps in which a tick is not modelled. `RequestServed` assumes that messages stop coming at some time: each one starts the debounce time afresh.
* `AppleMIDI`: within each tick some round finds both sockets empty (a tick is a large part of 5 or 60 seconds, a round lasts at most a scheduler's turn); weak fairness of the tick and of such a round. The liveness properties rest on this: a flood of packets on the MIDI port keeps the time out from being looked at (`applemidi.cpp:664` is reached only when nothing was received).
* `McuMachine`: rounds of core 2 keep coming that are not steps of the world, and what the world has still to do is done at some time.
* `GateArray`: weak fairness of core 3, of the rest of a turn that has begun, and of the firmware's handler, which does not mask the line for ever. Nobody is bound to turn the encoder.
* `VoiceMask`, `Network`: none; `AnnouncedInTime` is a safety property over counted seconds, and `Tick` waits for a task that is late.
* `FtpSession`: once the client has gone, the worker goes on with what it does (sends to a closed connection fail or end, STOR and the command loop look at the clock); the clock runs. Nothing is assumed of `CSocket::Accept`, which has no time out: a worker that waits there for a client that has gone may stay for ever, with the daemon refusing everyone, and `WorkerFreed` excepts it.

### Findings

`midi_shared`: the parser is shared by a task and an interrupt. The rest of a USB system exclusive message that a serial `F7` has closed can be stored behind `data_`. `OverrunOnlyByCutSysex` says that this is the only way.

Further places where code and comments part, met while modelling and without a run of their own:

1. `emulator/mcu.h:49` calls the read index monotonic; the consumer stores its own copy over the one the producer has advanced, and dropped samples are played again. `ChannelAligned` and `BlockNotOverrun` hold all the same.
2. `minijv880.cpp:917` says that the cores exit during the delay; with an empty ring core 2 stays in the fill loop, which does not look at the pause flag. Nothing bad comes of it (`ResumesEmpty`, `ReloadUndisturbed`).
3. `net/applemidi.cpp:56` speaks of 60 seconds without a sync; when the 32-bit microsecond counter wraps around (every 71 minutes), a session whose syncs came in time is dropped. `TimesOutWhenSilentOrWrapped` says that nothing else drops it early.
4. The FTP daemon is given the publisher before that is made (`minijv880.cpp:1019`), so BYE takes nothing back. The FTP service is offered whether or not the daemon was made. A disconnect takes back one service, a reconnect publishes both, so entries of the MIDI service pile up; taking a service back announces it once more with its full time to live.
5. Files of transfers without a data connection stay open (`FilesClosedButLost`), and a worker in `Accept` may never be freed (`WorkerFreed`).
6. `emulator/mcu_opcodes.cpp:1371-1391`, marked `// SHAR`: the sign bit is taken away before the shift and put back after it, so it is not copied down, and a negative number is not halved: `0x8001` gives `0xC000` on a machine that shifts arithmetically and `0x8000` here, `0xFFFF` gives `0xBFFF`.
   N, Z and C come out the same.
7. `userinterface.cpp:336-337` resets the button of the switch "to prevent events from being triggered after the encoder is rotated". The reset runs in the interrupt, and nothing keeps it out of a read of the same button (`uibuttons.cpp:101-198`): after `ReadTrigger` has decided, what it decided on is told after the turn;
   between `m_lastValue = 0` and `m_numClicks++` (lines 152-162) the reset stops the timer of a press that is then counted, so that its release is told as a click, or, where a double click is bound, the next press, however late, makes a double click. Without the exception of `torn`, TLC refutes `RotationSilences`.
8. A realtime byte on the serial port, which MIDI lets come between any two bytes, is taken for a status byte and ends running status, and inside a system exclusive message it is stored as a part of it (`midi.cpp:55-66`). `SerialWhole` claims nothing of such a message.
9. A patch file that is missing or short leaves the new board's waves with the old patches, or with a part of the new ones; bank 0 loads patches and keeps the waves; at the start the patches are those of `nvram` whatever board the waves are of (`minijv880.cpp:923-949`). `WavesMatchPatches` excepts these cases.

## 4. Proofs

| Module | Theorems | Argument |
|---|---|---|
| `AudioPipelineProofs`, the ring | `RingInvariant`, `RingTypeCorrect`, `RingKeepsChannels`, `RingKeepsBlock` | `RingInv`: all indices are even outside of a frame and every slot holds a sample of its parity. `ChannelAligned` alone is not inductive: it says nothing about what the consumer's locals will be used for. It rests on lemmas about `%`: range and, for an even modulus, parity |
| `AudioPipelineProofs`, the cores | `PipeInvariant`, `PipeTypeCorrect`, `PipeKeepsChannels`, `PipeKeepsBlock`, `SwitchEmptiesRing`, `PcmKeepsPace`, `ReloadIsUndisturbed` | `PipeInv`: `RingInv`; a paused core 3 is outside a batch once core 0 has gone on (`Core3Outside`); a batch is paid for by cycles that have passed (`BatchCovered`); an emptied ring stays empty while core 2 spins on it (`SpinsOnEmpty`) |
| `BankSwitchProofs` | `BankInvariant`, `BankTypeCorrect`, `WavesMatch`, `WavesChangeInPause`, `SwitchIsToLatest`, `RequestKept` | `BankInv`: what `Process` has read is the latest request unless that is younger than the debounce time (`HeldIsLatest`); a bank being switched to has its ROM loaded (`RomReady`); the wave memory follows the bank held (`WavesOfHeld`) |
| `AppleMIDIProofs` | `TypeCorrect`, `SessionInvHolds`, `HalvesAlwaysMatch`, `AcksAlwaysReceived`, `StrangersAlwaysIgnored`, `TimesOutForReason` | `SessionInv`: a session that is begun has an initiator to compare with (`Initiator`); while the sync clock has not jumped, it measures the silence (`Measures`), because a tick that passes neither zero nor the start moves it by one (`TickMoves`) |
| `FtpSessionProofs`, the worker | `AlwaysFlowsAsAgreed`, `FilesAlwaysClosedButLost`, `SessionTypesHold` | a command is in hand just while the worker is in a transfer (`JobInHand`); a socket listens in passive mode only (`ListensPassively`); the types rest on all the others: that no file is closed which was not open is `FilesClosedButLost`, and `path` is typed by `PathInv` |
| `FtpSessionProofs`, the paths | `PathsStayWellFormed`, `PwdAlwaysLeadsBack`, `CdupAlwaysGoesUpByOne` | `PathInv`: below |
| `UIButtonsProofs` | `TypeCorrect`, `Timely`, `Silenced`, `AlwaysFits`, `NothingElseLost` | `IInv`: the timer runs while clicks are counted, and a button that is up and has been clicked is still within the time for a second click (`Steady`); the history is as old as the timer says (`InStep`); the state of a button tells how many edges led to it (`Shape`), from which `ReadTells` derives what a read may tell; a button whose encoder was turned between two reads counts no clicks; what a turn within a read leaves is in its bounds (`TornReadsTyped`) and gone as soon as anything is told (`ToldIsIdle`, `TornToldIsIdle`) |
| `AudioPipelineProofs`, the queue | `KeepUpInvariant`, `RingRefinesQueue` | `FifoInv`: below |
| `MidiParserProofs` | `ParserInvariant`, `TypeCorrect`, `OnlyCutSysexOverruns`, `SerialMessagesWhole`, `NothingElseHandedOver` | `ParserInv`: below |
| `NetworkProofs` | `NetInvHolds`, `ListAlwaysFits`, `HeardInvHolds`, `AlwaysAnnouncedInTime` | the shape of the list: one FTP entry in front, or none, and MIDI entries behind, in each state of the main loop; `HeardInv`: below |
| `EmulatorProofs`, gate array | `GateInvHolds`, `LineAlwaysFollows`, `StatusNamesVoice` | who holds the lock, what each core is handing to `MCU_GA_SetGAInt`, and where line and interrupt differ in between |
| `EmulatorProofs`, voice mask | `MaskInvHolds`, `MaskAlwaysSettles`, `FramesPlayWhatWasMeant` | what is pending differs from what is meant in the bytes still to be written only; what has been loaded lies between `steady` and the complement of `silent` |
| `EmulatorProofs`, arithmetic | `BranchesCompare`, `LongSum`, `LongDifference`, `ProductExact`, `QuotientExact` | quotient and remainder of a number at most one turn away (`Wraps`) give the carry its meaning; products and quotients are put together from their bytes |
| `EmulatorProofs`, interrupts | `ContextComesBack`, `AnsweredStaysOut` | a write to the RAM changes one cell (`RamWrite`), two cells make a word (`WordOfPut`), `PushWord` and `PopWord` follow, and three of each make a context; the mask is three bits of the status register and each level three of a priority register |

**The ring as a queue.** `QueueSpec` reads a queue off the ring: its tail is `widx`, its head is what core 2 has played. For every step of the ring to be one of the queue or a stutter, core 2 has to hand out the
sample at the head, which is a fact about the ring's contents. `FifoInv` adds to `RingInv`: every stored sample is still in its slot, with what core 3 has written of the frame it will publish (`Contents`,
`HalfPosted`); there is room for that frame and nothing is dropped (`RoomKept`); core 2's copies of the indices, however stale, lie between the read and the write index, and it copies no more than is stored
(`ReaderBehind`). That a post overwrites nothing stored rests on lemmas about differences modulo `W` and slots modulo `SIZE`. `RingRefinesQueue` is the safety half of `QueueSpec`: initial states map to
initial states, each step to a step or a stutter.

**The parser between task and interrupt.** `ParserInv` relates what the task has read of the parser (`pc`, `at`, `byte`) to what the parser is now. Either nothing has come between, and then the message in the
parser is the part of the serial message that is gone (`VoiceInStep`, `SysexInStep`, by how many bytes are still in `line`), or something has, and then `clean` is false and only `data_`'s bounds
are claimed (`RoomInv`): an index of two is possible only when the rest of a USB system exclusive message is still to come after its `F0` was answered by a serial `F7` (`RestIsSysex`). An interrupt is at most three
calls of `ParseByte`, written out (`Fed`), so that no induction is needed.

**The current path.** What PWD reports of the current path and CWD makes of it again are two folds over tokens, and CDUP is a search from the right; the properties speak of the names that are left. `PathInv` says
that the current path is the list of volumes or begins with a volume and its colon, that no two names touch (else joining with a slash or cutting at one could make or break a name), and that behind the colon there is a name if there is anything
(else CDUP would take off slashes and no name). A fold is followed token by token: its function exists (`FoldExists`), and what holds at the start and is kept by each token holds at the end (`StepByStep`, from the well-foundedness of the
numbers rather than the library's induction). So both conversions keep the names in order (`CopyWithSlashKeepsNames`, `CopyOnceKeepsNames`), which gives `PwdLeadsBack`, and `FTPPathToFatFsPath` leaves no slash at the end (`ToFatFsApart`).
For CDUP, the three places that `FatFsParentPath` finds bound the last name: slashes before and behind it, and what is cut off is that name alone (`ParentGoesUp`). The theorems hold for paths of any length: `MaxPath` is arbitrary.

**Announced in time.** `HeardInv` says that at any time the seconds since a listener last heard of a service, and those that may still pass until the publisher's task announces it (`UntilHeard`, by whether it
waits for its event or sleeps between rounds), are at most its time out, one second between rounds and twice the lateness (`Margin`). The bound is tight: a task may be late when it wakes from its last round and late again at its time out, so
`LatenessAssumption` asks for `2 * LATE + 1 <= 10`, the ten seconds that `mdnspublisher.cpp:207` subtracts from the time to live; with `LATE = 5` TLC finds a listener that has forgotten the service.

**The MCU's arithmetic and context.** These are facts about operators and hold in every state of every program. `BranchesCompare` says for operands of both sizes that the ten ordering branches
order them, unsigned and signed, overflow included. `ContextComesBack` says of any interrupted machine, with its stack in the enabled RAM at an even address, and of any handler that leaves the stack
pointer and its three words as they were, that `RTE` gives back program counter, page, status register and stack pointer and changes nothing else. It is the half of `InterruptsTransparent` that does not
depend on the firmware; that the handlers of the images keep to their part of it is what the run checks. TLC confirms that the theorem's hypotheses hold whenever the thirteen images are interrupted.
`AnsweredStaysOut` is what `NoReentry` rests on in the same way: whatever is answered raises the mask to its own level, so it stays out, its request still up, until the mask is lowered below that or a priority changed. TLC confirms its hypotheses too.

They hold for every value of the constants that satisfies the modules' assumptions: an even `SIZE` that
divides `W`, even block sizes that fit it (`SizeAssumption` to `AheadAssumption`), positive clock constants with one instruction and one sample within
`MaxLead` (`PipelineAssumption`), disjoint codes for banks and for "nothing pending" (`BankAssumption`), a clock constant `Huge` beyond all differences in time (`SessionAssumption`), bytes that divide the voices (`BytesAssumption`), an index that wraps beyond the ring and a frame more (`WidthAssumption`, `W > SIZE + 2`), a length that counts beyond a channel message (`LenMod > 3`; 256 in the code) and a
`None` that is no byte (`NoneAssumption`), tasks that are late by less than half of the publisher's ten seconds (`LatenessAssumption`), directories that are non-empty sequences of names and arguments that are read into tokens with no two names touching (`PathAssumption`), and a `LongPressTimeout` that is not 0 and fits the 16 bits of `m_timer` (`TimeAssumption`).
No theorem rests on a bound of a run: `MaxLead` is arbitrary, and `MaxAhead` anything from a ring to half the range of the indices.

Only model-checked:

* liveness (`AudioKeepsFlowing`, `PauseEnds`, `RequestServed`, `InvitationEnds`, `SilentGivenUp`, `WorkerFreed`, `SoundAnswered`, `Finishes`) and the fairness half of `QueueSpec`: they need fairness and `ENABLED`, which are out of the prover's reach.
* `ResultsCorrect`, `NoReentry` and `InterruptsTransparent` of the emulated MCU: whether they hold depends on the image that runs, and what holds for every image is in `ContextComesBack` and `AnsweredStaysOut`. A handler that lowers its own mask is entered again, one that does not save a register does not give it back.

## 5. Not modelled, and why

* The arithmetic of voices, envelopes, filters and effects in `pcm.cpp`: data without control, and its reference is a chip outside of the repository. The dots of the display and the fonts: data.
* Boot (`kernel.cpp`), configuration (`config.cpp`), build scripts: straight-line, run once, or without run-time behaviour.
* Loading of the main ROMs and saving of the patch memory: what of `LoadRom` matters to a bank change is in `BankSwitch`; the save writes whatever bytes it finds, through FatFs.
* The rest of `HandleFullMIDIMessage`: the system exclusive checksum and the messages the dispatcher makes up, functions of one message.
* The receive loop of UDP MIDI (each datagram goes to a parser of its own), the decoding of the MIDI section of an RTP packet, and `SendMIDIToHost`, which nothing calls.
* `drivers/robustky040.cpp`: compiled, but nothing constructs it. Circle's own encoder is used.
* System exclusive messages of 1024 bytes and more, and a serial ring of the emulated MCU that is lapped: no device or editor of the JV-880 leads there, and nothing in the repository says what should happen.
