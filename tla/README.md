# Verification of Cala's PokeCom BASIC

TLA+ models of the PicoCalc firmware in `src/`, `include/`: a BASIC
interpreter with a full-screen editor, an SD card that can be handed to a USB
host, serial and HTTP file transfer, Wi-Fi, Bluetooth keyboards and audio, on
one RP2350 core with interrupt handlers.  Paths below are relative to the
repository root.

## The system

Everything the user starts runs in one foreground loop (`src/core/repl.cpp`).
While it waits for a key it calls `service_background()`, which polls the
network, the HTTP server, Bluetooth, audio, and the storage ownership.  USB
(TinyUSB), the PWM wrap interrupt, the UART's interrupt or DMA, and the
callbacks of lwIP and BTstack run between any two of its steps and share state
with it.

| Component | State | Operations | Talks to | Hard because |
|---|---|---|---|---|
| `SafeFileWriter` (`safe_file.cpp`) | open file, `.TMP`, `.BAK`, target | open, write, commit, abort | FAT | power loss and failing calls between two renames; several writers |
| `ProgramStore` on SD (`program_store.cpp`) | work file, index, name, dirty flag, `RMBASIC.SES` | edit, new, load, save, recover, switch, resume, USB suspend/resume | SafeFileWriter, storage, prompt | crash between snapshot, session and object; cleanup may delete what a recovery needs |
| `ProgramStore` in RAM/PSRAM | line index and texts | insert, replace, erase, load, migrate | PSRAM driver | several writes per edit, each may fail |
| Prompt and menus (`repl.cpp`) | second dirty flag, file name | commands, menus, remount | ProgramStore | two copies of one fact |
| Storage ownership (`storage.cpp`) | owner, pending return, event, mount flag, lease | begin, return, poll, recover, lock | TinyUSB task, foreground | lock-free state shared with interrupts |
| USB mass storage (`usb_msc.cpp`) | medium present, ejected | SCSI callbacks, connect, disconnect | storage ownership | events arrive between any two steps |
| X/YMODEM (`xmodem.cpp`, `ymodem.cpp`) | block number, retry counters, received file | send, receive, cancel | serial port, transfer file | lost, damaged, late, repeated blocks and answers |
| Serial port (`serial_transfer.cpp`) | route, stdio drivers, baud rate, receive ring, DMA laps | begin, read, end | console, UART interrupt, DMA | DMA overtakes the reader; a begin that fails late |
| PSRAM allocator, compiled cache | regions, revision of the cached program | claim, release, probe, test; store, restore, invalidate | ProgramStore, VM, editor history | stale cache, fragmentation, a region kept or given up alone |
| Compiler, IL, VM | code, stacks, variables, traps | compile, run, break | program, cache | stack limits, jumps out of blocks |
| Editor (`editor_model.cpp`, `psram_editor_history.cpp`, `full_screen_editor.cpp`) | working line, viewport, undo and redo stacks, state identities, dirty flags | keys, undo, redo, save, leave | ProgramStore, prompt | undo against a store that refuses; three flags for one fact |
| Wi-Fi station and menus (`network.cpp`, `wireless.cpp`, `repl.cpp`) | operation, deferred join, profiles | scan, join, cancel, NTP, add, disable, delete | radio, HTTP server | asynchronous leaves, late answers, driver retries |
| HTTP server (`file_server.cpp`) | client, request, file, lease | callbacks, poll, time-out | lwIP, storage, SafeFileWriter | callbacks between polls; one transfer spans many polls |
| Bluetooth keyboards (`bluetooth_*.cpp`) | connection state machines, scan tables, key rings, registry | scan, connect, pair, reports, forget, disable | BTstack | one radio for two drivers; every event may come after a cancel |
| Keyboard controller (`keyboard.cpp`) | phase of startup and recovery, register selected, lights | poll, lights, battery, BIOS | I2C bus | two halves of a poll; recovery that must end |
| Audio (`audio.cpp`) | ring of buffers, bias ramp, clock boost, file lease | play, pause, stop, service | PWM interrupt, storage, CPU clock | producer and interrupt; clean-up on every way out |

What makes each correct is stated below for the modelled ones; the others are
under "Not modelled".

## Modules

One module per component; `MC*` modules give the constants their values for TLC
or join two components in a run, `*Proofs` modules hold the theorems.
A definition whose comment begins with "Wrong" or "mutant" is no part of a
specification: it is a variant with a plausible bug that a run must catch
(`mutants` in `PROJECT.json`).  Several invariants of one component are grouped
in one property: `FilesSafe`, `OwnershipSafe`, `MediumSafe`,
`OwnershipSettles`, `WorkFilesKept`, `CompiledSound`, `FlowKept` and
`ProgramKept` are conjunctions of named parts with a comment each.

### Storage and programs

**`AtomicFile`** is the promise of a file writer: a target has one value, which
a writer replaces in one step, and `commit()` says truthfully whether it did.

**`SafeFile`** is `SafeFileWriter`.  One action is one call into the file
system (`Seal` is flush and close, `MoveOld`, `Install` and `Undo` are the
three renames of `commit()`, `Finish` the removal of the backup), each with a
failing variant in `Fault`.  `PowerLoss` may come between any two.  `file`,
`tmp` and `bak` are directory entries, `phase` the position of a writer.
`commit()` is one foreground call, so no other writer moves inside one
(`Alone`).  `kept` is a history variable: which target's only copy a backup is.

**`DurableSession`** is the promise of the SD program store: one durable
session, which changes only to the session that was asked for, and is the one a
recovery adopts.

**`ProgramSession`** composes two writers of `SafeFile` (staging `RMBEDIT` and
`RMBSES`) with the store, the prompt's dirty flag and the card.  `op` is the
operation in progress and its position; the operations of `program_store.cpp`
are paths through the same steps: snapshot (`OpenWriter` ... `SnapshotDone`),
`Verify`, session (`StaleTmp`, `StaleBak`, the writer again), `SessionDone` with
the change of the object, `Cleanup`.  A boot or a remount runs `ChooseSession`
and the recovery steps, then `Preserve`.  A source is one value: how a text is
split into lines is not modelled, so `scan` and `verify` compare whole texts.
`Recoverable` is what a recovery would adopt now.

**`StorageOwnership`** is `storage.cpp` and `usb_msc.cpp` with the USB menu and
`service_background()`.  `pc` is the position of the foreground, which stops
between any two accesses to a shared atomic; bus events (`Eject`, `Connect`,
`Disconnect`) and raw requests (`RawCall` ... `RawExit`) happen there.  `stale`
and `hostDone` are history variables.

**`PsramRegions`** is the allocator of the external PSRAM.  `Claims` states what
a claim promises, the lowest place that fits; `Search` is the loop of
`RegionAllocator::claim`, written as a recursive function, and the two are
compared in every layout a run reaches.  Lengths count the allocator's 16-byte
units.

**`ProgramMemory`** is the program of the INTERNAL mode and everything that
shares the PSRAM with it: `ProgramStore`'s index and text slots or its SRAM
array, the compiled program of RUN, the SD line cache, the direct-mode
variables, the diagnostics.  `mem` holds for each unit who wrote it last and
what; a program store takes one unit for the index and one per slot.  A program
on the card is one value here (`ProgramSession` has its details).  An action is
one whole operation, because the foreground runs it without a pause, and a PSRAM
write in it may break off (`WriteFaults`): it leaves nothing, a first part of a
text, or the first entries of an index.  `accepted` is a history variable, the
program by the edits that reported success.  `exposed` is one too: it marks the
three places where the code overwrites the only copy (the index in place, a
full store's text slot, LOAD) and one of its writes broke off, or a roll-back
failed.  Nothing is promised of the program from there to the next NEW or LOAD.

### The language

**`BasicText`** reads the nesting of a program off its rows, by counting
openers and closers.  **`StructuredBasic`** is the meaning of a Structured
program over it, row by row, without compiler or jumps: EXIT leaves the loops
around it up to the one it names, one branch of a block runs, a call comes back
to its row with the caller's loops.

**`BasicCompiler`** is the control half of `basic_compiler.cpp`: `unit` is the
`CompiledProgram` with `CompileControl`, each `Compile...` operator is the parser
method of that name and returns the states it can leave, none for a compile
error.  `ReadRow` compiles one row of the second pass, `FinishText` is the end of
`compile_source`, `ValidProgram` is `validate_compiled_program`, `Entries` the
positions `optimize_program` takes for flow entries.  Expressions, PRINT and the
like are one statement, `LET`; a row holds one statement or a single-line IF.
Positions are 1-based (the source's pc plus one), and the chains of jumps waiting
for their target are sets.  Rows are chosen one at a time, so that a run covers
every program of a family.

**`BasicMachine`** is `run_impl` of `vm.cpp` over that code: one action per
control opcode, with its checks in order and what it does to the FOR, GOSUB and
call stacks.  Values are abstract: the operand stack is its height, and a
condition, a loop limit, an ON selector or a STEP comes out any way.
`RunsAsWritten` maps each state to a row of `StructuredBasic`.  It is claimed for
programs that pass the validator and whose single-line IFs open, divide or close no block
(`plain`, a history variable): one that skips a FOR leaves the machine without
the frame an EXIT expects, as `tests/exit_loop_test.cpp` tests.  `FOR_INCR`
without a variable on the frame of a local loop indexes `numbers_` with a
negative slot (`vm.cpp:4274`); the model keeps the two ways it can go on.

### Serial transfer

**`FileCopy`** is what a transfer promises: the files of a batch are stored one
after the other, each whole or not at all, and over a line without delays a
sender that reports success was right.

**`SerialLine`** holds the items on their way in both directions, what the line
does to them (lose, damage, cut off, delay, pull the cable, at most `MaxFaults`
times), and the `TransferFile` at the receiver.  What a program does between two
reads is one step.  **`XModem`** and **`YModem`** are `send()` and `receive()` of
`xmodem.cpp` and `ymodem.cpp`, one operator per place where they read, with
every retry counter; **`SerialTransfer`** chooses protocol, batch and line and
runs the two ends.  On a "harsh" line items may also be delayed past a time-out.

**`SerialPort`** is `serial_transfer.cpp`: which route a transfer takes, what
`begin` changes of the console and puts back, and the receive ring.  With DMA,
each of the reader's looks at the DMA registers is a step (`DmaRead`,
`DmaSample`, `DmaCopy`, `DmaCheck`, `DmaDeliver`), and DMA writes between them.

### Devices

**`AudioOutput`** is `audio.cpp` without the computing of samples: the ring
between the renderer and the PWM wrap interrupt (`PwmWrap`, between any two
steps of the foreground), the bias ramps, the lease of the file, the CPU clock
boost, and every way to begin, refuse, fail, pause and stop.

**`KeyboardController`** is `keyboard.cpp` with `keyboard_i2c_recovery.hpp`: one
`PollOnce` is one call of `poll_key_event`, in the phases of startup, the two
halves of a key read, and bus recovery; lights, battery and BIOS requests come
between the halves.  `calm` says that the bus is well from now on.

### Bluetooth

**`HidKeys`** is `KeyboardCore`, a pure module of operators on a record.
**`BleKeyboard`** and **`ClassicKeyboard`** are the two drivers, each function an
operator on the driver's record; its field `link` is the radio's side of the
same connection.  **`BluetoothKeyboards`** is `bluetooth_manager.cpp` over them
with the one radio and the table of paired keyboards: every public call and every event of BTstack is an action.
**`UnifiedKeyboard`** reads three keyboards as one, with a Caps Lock each.

### Wireless

**`WifiStation`** is `network.cpp`, an operator per call on a record of its state
and the radio's; **`WifiMenus`** the menus of `repl.cpp` over it, which wait,
cancel, retry and store profiles.  A menu gives up on a cancel only in the wait it
is in (`CancelledInWait`): one that is over, or a join that failed, is what the
next menu starts from.  A join fails in three ways: the driver refuses it, and the
link is left; DHCP does not start, and nothing is left, the name of the network
before it still there (`Join`); or it ends without an address.  `asked` is a
history variable: the network the user asked for last and has not cancelled, nor
disabled or deleted while the station was on it; doing so while its link is down
for a moment ends nothing in the code, and the link may come back.
`OnlyWhatWasAsked` speaks of joins, of joins that wait and of connections; that a
name left behind never becomes a connection, although it would be shown as one, is
what it adds to reading `join_locked`: the link is always gone by then.

**`HttpServer`** is `file_server.cpp` with the parser's outcomes: a poll is two
steps (`ServerPolls`, `ServerDrives`), and the callbacks of lwIP come between
them.

### Editor

**`EditorModel`** is `editor_model.cpp`: it wraps lines into rows, moves viewport
and cursor, has the document, the working line and the two stacks of records with
their identities, matches and indents blocks, and has one operator per key
operation.  **`ProgramEditor`** has the sessions of `full_screen_editor.cpp`: what
saving, running and leaving do to the flags of the store, the entry and the prompt.
`texts` is a history variable: which text each state identity was given to.

## Runs

| Run | Bounds | Shows |
|---|---|---|
| `safe_file` | 3 writers, 2 staging names (one shared), 2 targets, 2 contents; any number of faults and power losses | safety of the writer and refinement of `AtomicFile` |
| `session_faults` | 3 work names, 1 user file, 2 texts, 2 failing calls, 1 power loss | the session is atomic and durable (refinement of `DurableSession`); the star is honest; user files survive |
| `session_outside` | all commands and storage modes, the card pulled at will; 1 misread in a recovery after 1 failing call, 1 power loss or 1 orderly stop; or 1 change by a PC, over USB or after a stop | the index never points into a changed file, no work file is orphaned, a boot destroys no text before it has adopted a session |
| `ownership` | 1 raw request | safety and liveness of the ownership |
| `memory` | 4 clients on 5 units, 2 slots, 1 SRAM line, 2 line numbers, 2 texts, 2 files; any number of failing writes, the device found and lost | regions never overlap or leak, the search is first fit, LIST shows and RUN runs the accepted program |
| `language` | six families of programs: loops (6 rows), branches (6), functions (9), loops and functions with single-line IFs that open a loop (7), SELECTs with single-line IFs that open, divide or close one (5), Classic lines (4); 2 open blocks of a kind, operand stack 4, GOSUB stack 2, FOR stack 3, 2 calls, 40 operations | accepted programs nest, run without missing operands and tables, do what their rows say, spare their callers' loops, and are entered only where the optimizer expects it |
| `transfer` | both protocols, files of 0 and 3 units in blocks of 2, 2 files in a batch, block numbers modulo 4, 3 retries, 2 faults of the line; beside it the port with a ring of 3 bytes, 8 bytes, reads of 1 and 2 | what is stored is what was sent, both ends stop; no byte is replaced or left out unseen; the console comes back |
| `devices` | 3 buffers of 2 words, ramps of 2 steps, sounds of 1 and 4 blocks, 3 requests; the controller with 2 levels of 2 lights, 1 modifier, any number of bus failures and restarts; three keyboards with rings of 3 | sound in order and once; a file's lease is given back; the output falls silent and its interrupt off; no answer is taken for another's; the keyboard comes back; read presses settle Caps Lock |
| `bluetooth` | connections with one keyboard of each kind, scans of 3 LE and 2 Classic ones with 2 places in the tables (one Classic where LE ones are heard), events in every order | no link is lost between driver and radio; no key outlives its link; the lists are live; every attempt ends |
| `wireless` | 2 networks, 2 profile slots, 3 generations, 2 tasks of the menus with any number of retries, link drops and retries of the driver, lists filled from the front with nothing disabled; the server with 2 clients and bodies up to 2 pieces; the first name and the first client stand for both | only the network that was asked for; profiles that worked; no foreign answer sets the clock; the card is locked exactly with an open file; operations and uploads end |
| `editor` | 8 programs of up to 2 rows, histories of 0 to 2 records, 1 or 2 edits, 1 failing call, screens of 1 to 8 columns and 2 or 8 rows, a second session | an identity names one text; an unmarked text is the file's; the flags survive leaving; the cursor is shown on its row |

`transfer`, `devices`, `bluetooth` and `wireless` check two or three components
that do not interact, each as a part of the run: `part` is chosen in the initial
state, and the variables of the others stay at rest.  This adds their state
spaces up and does not multiply them.

Why the bounds are enough.  Three work names are the live file, the next
snapshot and one orphan; a fourth behaves as the orphan.  Two failing calls are
a failure and a failing clean-up after it.  One power loss already meets every
step, and the state after it is an initial state with leftovers, from which a
further boot is explored.  Two texts tell old from new.  One raw request may
outlive the session it was made in; that several do no more is proved.  In
`memory` five units hold the program store and two more, of which the other
clients want up to four, so every claim is refused in some state and placed in a
gap in another; two slots make a store full with two lines, one SRAM line makes
LOAD and a second line fail there.  In `language` two open blocks of a kind are
a block and one nested in it, and the third is refused; six to nine rows let a
family nest three blocks, cross them, leave them by EXIT and divide them; two
calls are a function inside itself, and every stack is full in some state.  In
`transfer` a file of 3 units is a full block and a padded one; block numbers
modulo 4 wrap behind the header and two files; two faults lose a block and the
answer to its repetition; a ring of 3 is lapped twice by 8 bytes.  In `devices`
4 blocks wrap a ring of 3 buffers.  In `bluetooth` one device more than the
table has places makes it full.  A key ring of 3 holds two presses, and the
third is lost.  In `wireless` a second generation is the request after a cancelled one,
and its late answer meets a third; a second task meets what the first has left, a
cancel, a failed join or a link, and the menus make the other lists of those it
begins with.  In `editor` a history of one record drops
the first of two edits; a screen of 2 rows under a wrapped line has the cursor
leave it both ways.

`CleanHasCopy` is checked on the commands of `session_faults` only: over a
switch to RAM the star of an emptied program is lost (`program_store.cpp:1333`),
over a half-done save (`program_store.cpp:1883`) and an undo it is wrong, and after a
USB return that failed, a plain resume does not look at the named file
(`program_store.cpp:1351-1372`).

## Known disagreements

`mixed_upload` (`HttpServer`, the one run that expects a violation): when a
client fails in the middle of an upload and another is accepted before the next
poll, what the second sends completes the upload of the first, and a file made
of two is committed (`file_server.cpp:276`).

The following were met while modelling.  A definition states the sentence that
the code does not keep.  No run checks it at present; TLC finds each violated
with the constants of the run of its module, changed as the table says.

| Definition | Disagreement |
|---|---|
| `ProgramSession!BootNeverBlocked` | a leftover `RMBEDIT.TMP` blocks the boot's empty workspace, and every later edit, where `program_store.cpp:1273` says that nothing blocks a boot |
| `ProgramSession!ResumeKeepsSession` | boot without card, then Resume: the unsaved session on the card is replaced (`program_store.cpp:1355`) |
| `ProgramSession!RemountKeepsTexts` | a remount without a valid session deletes unverified work files (`repl.cpp:3923`), which `program_store.cpp:1046` says are kept |
| `ProgramMemory!NewTextNewRevision` | a LOAD that fails part-way changes lines but not the revision (`program_store.cpp:1831`): LIST and RUN show different programs |
| `BasicMachine!CompiledProgramsValidate` | `IF c THEN END` in the last row jumps behind the last operation (`basic_compiler.cpp:3123`): BAD JUMP TARGET when c is false, a compile error when there is a FUNCTION |
| `AudioOutput!ChosenClockKept` (`Disturb = TRUE`) | a clock chosen, or a radio started, during an MP3 is overwritten when the boost ends (`audio.cpp:161`), where `README.md:170` says that the clock returns to what it was |
| `SerialPort!DeliveredInOrder` (`Race = TRUE`) | DMA may end a lap between the two loads of `dma_produced()` (`serial_transfer.cpp:127-142`), which then counts a lap too little: a wrong count, or an overrun that is not seen |
| `UnifiedKeyboard!CapsAgree` | a keyboard that is reset forgets Caps Lock without an event, so the three differ until the next press; the same when the event 0xc1 is lost in a full ring |

Behaviour that no document denies, and that the models show:

- A keyboard that was forgotten during the look-up of its name is remembered
  again when the name comes (`bluetooth_hid_keyboard.cpp:395-413`).
- XMODEM has no size: with delays past a time-out a receiver may take a late EOT
  for the end and both ends report success for a file cut short.  A YMODEM
  sender may then report success wrongly; an empty YMODEM file whose EOT and
  closing header are both lost is reported sent and not stored; a first data
  block that is wholly lost ends a YMODEM transfer.  `FileCopy` promises the
  sender's truth for lines without delays.
- Three faults can make a YMODEM receiver skip an empty file between two others:
  the ACK and C that answer its block 0 again are taken for those that follow
  EOT.  It needs a peer that sends empty files in a batch; `send()` of this
  program sends one file.  With one file and four faults, and with three that
  are not empty, TLC finds `CopySpec` kept.
- What is left in `incoming` of a client that was hung up can begin an upload
  without a client; it keeps the card locked until the next client
  (`file_server.cpp:461`, the time-out needs one).  The body of a refused PUT
  spoils the next request in the same way.  Downloads and listings have no
  time-out for a client that stops reading, and a read error in the middle of a
  download puts a second header into its body.
- Disabling or deleting the profile of a network whose link is down for a moment
  does not disconnect: the driver may bring the link back.
- `IF c THEN SELECT CASE x` compiles (`compile_inline_branch` takes any
  statement); when c is false the CASE rows below test a value that was never
  computed: STACK UNDERFLOW, or the subject of a SELECT around it.
- A Bluetooth Classic call from outside sets `connecting` without a deadline.
  A cancelled LE call that succeeds all the same is hung up.

## Fairness

| Run | Assumed | Because |
|---|---|---|
| `ownership` | WF of `Continue` and of each raw request | every wait for a key runs `service_background()`, and no step of it blocks; the SD driver answers or reports an error |
| `transfer` | WF of each end | a read takes an item or times out |
| `devices` | WF of `PwmWrap` while its interrupt is on, of the service loop (`Serving`), of `TimePasses`, of `PollDue` | the wrap interrupt is periodic, every input loop calls `audio_service()` and polls the keyboard, deadlines come |
| `bluetooth` | WF of `ServiceLate`, and of the radio's answers to calls and hang-ups | `service()` is called from the background loop, an armed deadline passes; BTstack reports the end of a call it was asked to cancel and of a link it was asked to hang up, the latter by its own supervision time-out at the latest.  Calls, pairing, queries and channels need not answer: their deadlines end them |
| `wireless` | SF of `PollsLate`; WF of the two halves of the server's poll and of `FallsSilent` | waits and main loop poll for ever, time passes.  Strong, since a poll changes nothing while there is nothing to do, or Wi-Fi is off, in between.  Nothing is asked of the radio or of clients |

Nothing is assumed of the user, the host, the cable or the line.

## Proofs

`StorageProofs` proves for any writers, staging names, targets and contents
`FilesSafe` (the type invariant, `NeverTorn`, `OneOwner`, `SoleCopyKept`), and
that `SafeFile` implements `AtomicFile`.  The inductive invariant adds to these
what ties a
writer's phase to its files: a writer that owns staging files is the only one
to, a sealed TMP holds the writer's bytes, a backup under a writer in `moved` or
`undo` is the old target when there was one.  Without it `Install` could publish
foreign bytes.  The refinement is proved per action: `Install` is the only step
that maps to `Publish`.

It also proves `OwnershipSafe` and `MediumSafe` for any set of raw requests.  The
invariant (`OwnershipIInv`) says for each position of the foreground what it may
rely on: while it mounts, the owner is neither the host nor the
firmware, and no counted request can still reach the driver, since a request
counts itself in before it looks at the owner (`RawCount`, `RawCheck`).

The invariant of **`ProgramSessionProofs`** (`IInv`) proves `WorkFilesKept`,
`UserFilesKept` and `BootKeepsTexts` for any files, programs, commands and
bounds.  None of the three is inductive; the argument is this.  A snapshot goes
to a name that was free (`Fresh`), so the writer of a work file never moves
anything aside and never has to undo.  Its bytes were read back before the
session that names it is written (`Backed`), and one operation at a time writes,
with one writer (`Paced`, `Shaped`): so whenever the object changes to what was
written, the file it names holds the source (`Living`).  What is moved aside is
only ever a user's file or the session, and is restored or replaced (`Aside`).
The host has the card only while the store does not use it (`Away`), and only a
failed call lets a second work file stay (`Tidy`).  `UserFilesKept` follows since
five actions can change a program on the card (`WhatMoves`), and of these only
the publication of a save and the change by a PC touch a user's.

`ProgramMemoryProofs` proves `RegionsSound` for any clients, device size, slots,
texts and files.  Two lemmas carry it: a claim keeps the regions apart and inside
the device and adds one user, a release removes one.  The invariant then says
that the users of regions are exactly those whose own variables (`store`,
`cache.valid`, `sdCache`, `direct`) say they have one, and each operation is
shown to change both together.  `TheSearchIsFirstFit` is about the loop of
`claim` over any map of regions: it jumps from the end of one region in the way
to the next, and never over a place that fits.  `Search` is a recursive function
over the places; that it has values, and that they are the least place of
`Claims`, is shown at the greatest place where it would not.

It also proves `ProgramKept`, which is not inductive: LIST shows the rows of an
index, and says nothing of slots.  The invariant (`KInv`) adds to `RegionsSound`
what a store looks like when no only copy was lost (`InPlace`).  The SRAM array is
an ascending table of exactly the program's rows (`Arrayed`).  The PSRAM index is
an ascending table with an entry for each line and no other, each entry has the
hash of its line and a slot that no other entry has (`Filed`), and that slot holds
the text (`Texts`).  Two entries in one slot would let an edit of one line change the
other, and a text read back under the wrong hash would be taken for a broken line.
The proof falls into four parts.  Tables: a finite set of numbers has one ascending
sequence, so that two ascending tables with the same rows are equal (`Table`,
`Rows`); insertion, removal and sorting are each shown to keep a table and to do
to its rows what the edit does to the program.  Slots: there is a free one while the
index has fewer entries than slots, and Junk is written to none that an entry names.
Roll-back: a failed edit of two lines has written only to slots that the old index
does not name, or to those of the two lines, and these the roll-back restores.
Memory: no other client writes inside the store's region (`IInv`), so that its
units keep what they hold through every claim, release, compilation and diagnostic.
After an index write that broke off, what is in the index is a mixture, and the
slots of the old entries as well as those of the mixture keep their bytes
(`IndexWrites`): the roll-back of an edit of two lines relies on it for the lines
the edit left alone.

`DeviceProofs` has four components.  `AnswersMatch`: an answer is waited for by
one half of a poll only and only when startup is over, which is what keeps every
other request off the register (`Matched`).  `LeaseFollowsFile` is inductive with
what the steps assign.  `PlayedInOrder` needs that the slots of the ring which
wait are a run of `n` from the consumer on, that they hold the blocks that
follow the one being played, and where between two of its steps the renderer is
(`RingInv`); it rests on lemmas on places modulo the ring's size.
`ConsoleRestored` and, under `Race = FALSE`, `DeliveredInOrder` hold for a ring of any size, any
reads and any timing of DMA.  The
console part needs what a transfer has taken (`Taken`).  The bytes need five
facts: the last lap is in the ring, each byte at its place (`LastLap`); the
interrupt handler never over-fills (`IrqFits`); laps counted, the lap whose
interrupt waits and the position make up what was written (`LapsCounted`); a
read that stopped between its steps belongs to DMA (`ReadsDma`); and what it has
copied is right unless DMA is a lap ahead (`Reading`), which is what the second
look at the counter finds out.

`XmodemCopies` is the refinement of `FileCopy` for XMODEM on a line that delays
nothing, for files, blocks, retries, faults and block numbers of any size.
XMODEM's ACK has no number, so that a sender that goes on at the wrong one would
leave a block out.  The invariant (`XInv`) says why there is no wrong one: at
most one item that is answered, or one answer, is on its way in both directions
together (`XQueues`), since an end sends only when it has read, or when the line
is quiet; so the receiver waits for the block on offer or has just taken it
(`Level`, `Ahead`), and an ACK on its way means the second.  What is staged is
the padded file up to there (`HasTaken`); at EOT that is all of it, and
`CommittedIsGoods` shows that taking the padding off gives the file.  Only
`XFinish` delivers, and a send() that ends well has an ACK from behind it.

`WirelessProofs` proves `LockFollowsFiles` of the server: the lock is held
exactly for what is open, and what the operation is at is the only thing open
(`Locked`), which is why the clean-up of any transaction may give the lock back;
what a poll consumes is a recursive function over the units that came, shown to
exist and to keep this for any number of them.  `OnlyWhatWasAsked`,
`ProfilesWork` and `OwnAnswers` rest on `WifiInv`: a leave under way forgets the
network, only behind it another join waits, and no link is up or being joined
without DHCP, so that a join that could not start it leaves a name without a link
(`Settled`); the network the station joins or is on and that of the join that waits
is the one asked for last (`Asks`); a menu
that waits for its join is told of success only of the network and password it
called with (`Expects`, `Joins`); the slots name different networks with right
passwords (`Working`).

`EditorProofs` proves `UndoIsExact`, `SavedMeansSaved` and `LeftAsMarked` for
any programs, words, limits of the store, screens and depths of the history.
`UndoIsExact` says that the text is the one filed under its name; an undo keeps
that only if the snapshot it takes leads where its own name says.  The inductive
invariant (`EditorInv`) therefore follows both stacks: each snapshot leads from
the text the one above it leads to, the last one from the text now, to the text
it names (`Chained`).  A snapshot holds one line, two, or a range of rows;
`ReplaceBack`, `PairBack` and `WithRowsBack` show that putting each back restores
the whole text, which rests on the lines being in the order of their numbers
(`InOrder`, and a number is a position in a structured program).  A run of typed
keys changes the text under the name it has: that is sound since this name is the
newest, names nothing that was saved and no snapshot, and since the snapshot on
top is that of the line being typed, and so leads back from any body of it
(`InRun`, `SameRun`).  Every key is shown to be one of four things: nothing done
to the text (`Quiet`, `Kept`, in which the history may be lost), a new text with
its way back (`NewState`), one more key of a run, or a move along the history
(`Moved`).  With the names right, `SavedMeansSaved` needs only that the saved
name is the file's (`FileNamed`).

`BluetoothProofs` proves `LinksTracked` and `NoKeysWithoutLink` from
`BtInv`: for each state of the LE driver what the radio has of the connection
(`BleTracked`, `LinkOf`), the same for the Classic one (`ClassicTracked`), and
that a radio that is off has no link.  Every operator of the two drivers keeps
its half and starts no link that was not there (`BleGoes`, `ClassicGoes`), so
that a disable ends both.  `ListIsLive` is inductive with the shape of the two
tables (`Listed`, `Named`).  For `LastPressSettlesCaps`, whoever finds all
presses of a keyboard read would have found the earlier ones read and Caps Lock
as it was (`Follows`), for rings of any size.

`BasicProofs` proves `FlowKept`, and of `CompiledSound` the parts `TypeOK` and
`TablesAreNotRun`, for any profile of statements, any text of them and any limit
of nesting, code, stacks and calls.  The compiler's half is one lemma per
statement: each keeps the code threaded (`Woven`), which says that every jump
leads where control may enter, or waits in one of the chains of the open blocks
or of the line numbers; that `FOR_INIT`, `FOR_CHECK` and the `JMP` behind them
stand together; and that each `ON` has its table.  What is accepted at the end
of the text is then linked (`AcceptedIsLinked`).  The machine's half (`Inv`) is needed
since `RETURN` and `NEXT` go to addresses taken from stacks: pc is in no table,
and behind `FOR_INIT` only at its `FOR_CHECK`; each FOR frame knows the body of
such a loop, each GOSUB frame and each call a place that may be entered; and
`for_base` of the calls increases up to the frames there are.  One lemma per operation
shows that it keeps `Inv` and moves as `FlowKept` says.

Assumptions: those of the `ASSUME`s, which TLC checks on each instance, and
`Race = FALSE` where a theorem says so.  They ask that names, contents and
devices of different kinds differ (`SessionConstants`, `ConstantsAssumption`,
`NamesAssumption`, `KeyboardsAssumption`), that a profile is written in the
statements the compiler knows (`ProfileAssumption`), that the lines of a program the
editor is opened on are in the order of their numbers (`ProgramsAssumption`), that
the files of `ProgramMemory` are programs of finitely many lines, in texts that a
torn write cannot be taken for (`ProgramAssumption`), that the SRAM array holds no
more lines than the PSRAM (`SizeAssumption`; 256 and 1024 in `program_store.hpp`), that
sizes and counts are numbers, of a ring, a buffer, a device or a store at least one,
and of the audio clocks that they are those a menu offers.  None bounds a size.

Only model-checked:

- every liveness property (`OwnershipSettles`, `TransfersEnd`, `GoesQuiet`,
  `KeyboardComesBack`, `AttemptsSettle`, `OperationsEnd`, `UploadsEnd`): liveness
  and `ENABLED` are out of the prover's reach;
- `CleanHasCopy`, and the refinement of `DurableSession`: neither holds with
  every command and any change by a PC (below "Runs"), so that a theorem would
  be about the commands of one run;
- the other two parts of `CompiledSound`: `AcceptedProgramsNest` compares
  the compiler's block stack with depths counted over the whole text, and
  `NeverStarved` needs the height of the operand stack at each position of the code
  and the function the position belongs to;
- `RunsAsWritten`; `CursorOnItsRow`, which counts and lists the rows of all lines,
  with divisions by a width that is a parameter; and that YMODEM is a `FileCopy`:
  it is one for the batches of the run only (above).

An induction theorem of the library takes an operator as a parameter, which no
installed prover can instantiate.  Inductions here are therefore over a set of
numbers without a least element (`LeastElement`, `SetInduction` of
each proof module), which reaches recursive functions over numbers and sequences
(`Search`, `ConsumedAll`, `KeyReport`, `KnownKeyboards`), but not `RECURSIVE` operators.

## Abstractions

- One rename is atomic, and a file that was closed is on the card: promises of
  the FAT driver.
- One directory: the firmware's staging files are per directory, which only
  makes them meet less often.
- Renaming the open program's file, the source mode and the settings file are
  left out of `ProgramSession`.  A pulled card in the middle of an operation
  shows as failing calls.
- `ProgramMemory`: all texts have one length, and a text of the SRAM array fits
  it; the 32-bit hash of a line is taken to tell texts apart; running out of
  heap is not modelled; bytes that nobody may read are not tracked; every text
  compiles.  The driver of the firmware never fails a write inside a region once
  the device was found; the failing writes are those of the test stub
  (`tests/program_psram_stubs.cpp`), which the callers handle.  Structured rows,
  the editor history and the audio cache are not in it, nor the contents of the
  SD line cache.
- The compiler's types, symbols and pools, GLOBAL and DATA, and the machine's
  values, arrays and graphics are left out; `optimize_program` is taken to keep
  the meaning of the code, and only the entries it assumes are checked.
- Transfers: a check sum tells every damaged block; a block is a few units; the
  name checks of a received file are left out, its staging is `SafeFile`'s.
- `SerialPort`: DMA ends a lap only after the interrupt of the lap before was
  taken (4096 bytes take 44 ms at the highest rate).
- `AudioOutput`: what is rendered at once is a numbered block;
  `Disturb = FALSE` leaves the clock and the radio alone during an MP3.
- `KeyboardController`: deadlines are found reached or not; key codes are not
  translated.
- Bluetooth: BTstack and the radio are external, with one connection to give
  (`MAX_NR_HCI_CONNECTIONS` of the configuration is 1); a usage is a letter, a
  cursor key, Enter, Caps Lock or unknown; starting the stack is one step.
- Wi-Fi: the driver, DHCP and lwIP are external; setting the clock from an
  answer is one step.  HTTP: a request is what `parse_request` makes of it, and
  bodies and files are counted in pieces.
- Editor: words stand for characters; reads of the document do not fail (on SD
  one that does suspends the store, `program_store.cpp:729`, so that nothing can be
  saved or marked as saved until it is resumed; an undo whose line is written and
  cannot be read again, `editor_model.cpp:999`, then has the new text under the old
  identity); an
  operation meets one failure at most, so that putting a line back succeeds; the
  limit of 81 open blocks is left out, and so are drawing and the menus; the
  history is bounded in records.

## Not modelled

- Audio synthesis and decoding (MML, WAV, MP3): numeric and sequential; what of
  them meets the card and the interrupt is in `AudioOutput`.
- Display, graphics text and image files: output; their files go through
  `SafeFileWriter`.
- Line editor, command history, file manager, Files screen, program file guard:
  one foreground caller at a time and no state that outlives a failure; the
  replacement of files, which could lose one, is `SafeFile`.
- External I2C and the clock chip: one blocking transfer each.
- The flash record of the Bluetooth registry (BTstack's TLV store), platform
  services and the wait loop (it appears as fairness), menus and formatting.
- Vendored decoder, host tools, examples.

## Plan

1. The optimizer's fused opcodes against the operations they replace; DATA and
   READ; several statements in a row; the compiled image in the cache.
2. The editor history and the audio cache as further clients of
   `ProgramMemory`; structured rows; the contents of the SD line cache.
3. The HTTP server over `SafeFile` and `StorageOwnership` instead of one lock.
4. File manager and program file guard.
5. Proofs: `CursorOnItsRow` of the editor; `NeverStarved` of `BasicMachine` (the
   function and the operand height of each position), `AcceptedProgramsNest`; a map
   from line numbers to texts as the abstract specification of the SD store.
