# A formal model of the PS2 dev bridge

TLA+ modules, TLC runs and TLAPS proofs for the programs in
`src/ps2dev_bridge`: the firmware extension that makes an SD2PSX memory card a
bridge between a PC (USB) and a PlayStation 2 (memory card bus), the stub that
runs on the PS2, and the Python library and command line on the PC. Paths below
are relative to `src/ps2dev_bridge`.

## 1. The system

The PC uploads an ELF into the *dev channel*, the top 512 KB of the 8 MB card
image in the firmware's PSRAM, and rings a *doorbell* in its header. The stub
polls the header as a card sector, reads the ELF, acknowledges, clears the
doorbell and jumps. Output goes the other way through a ring in the channel.

```
 PC                         firmware (RP2040)                 PS2
 sd2psx_cli.py              usb_bridge.c      PSRAM           stub_main.c
 sd2psx_bridge.py  <-USB->  packets,      <-> card image  <-> mc_access.c <- ELF
                            commands          dev channel     stdout_ring.c
```

Two things make it hard. The firmware stores words; the PS2 can only read and
write 512-byte sectors, so every change of a header field is a
read-modify-write of a sector that holds the whole header *and* the first 480
bytes of the staging area. And nothing identifies anything: the ACK does not say
which ELF it is for, an answer on the serial line not which request, the ring
pointers not which session, and each side keeps private copies (`_head`,
`stdout_tail`, `_sector_buf`) of shared state.

### Inventory

| Component | State | Operations | Interacts through | What is hard | What makes it correct |
|---|---|---|---|---|---|
| channel geometry (`firmware/dev_channel.h`, `ps2stub/dev_channel_ps2.h`) | none | offsets, `dev_channel_clamp_len`, `dev_channel_overlaps` | constants on both sides | boundaries | regions disjoint; no normal WRITE in the channel |
| firmware mailbox (`usb_bridge.c`) | header, staging area in PSRAM | ELF_PUSH, ELF_COMMIT (`dev_ring_doorbell`), DEV_STATUS, DEV_RESET | PSRAM shared with the PS2 | five stores against a polling reader; stores against the stub's read-modify-write | a committed ELF runs, whole; the ACK is about it; a cleared doorbell stays cleared |
| stub main loop (`ps2stub/stub_main.c`) | `_stage_buf`, its position in the loop | poll, size check, ring reset, read, load, `send_ack`, `clear_doorbell`, run | PSRAM as card sectors | reads over several transactions; ignored errors; power cycles | always back to polling; runs a commit once |
| card access (`ps2stub/mc_access.c`) | `_sector_buf` | sector read/write, byte-addressed read/write | libmc | not atomic; partial failure | writes the bytes it is asked to and no others |
| ELF loader (`load_elf_from_staging`) | EE memory | copy LOAD segments, clear the rest of each | staging buffer of the stub | overlapping segments, BSS, an entry point of 0 after memory has changed | memory is what the ELF says |
| stdout ring (`ps2stub/stdout_ring.c`) | ring and STDOUT_HEAD in PSRAM, `_head` | init, write, publish | PSRAM | never waits for room; two copies of the pointer; wrap-around | a pipe |
| stdout drain (`dev_stdout_pull`) | `stdout_tail` | STDOUT_PULL | PSRAM, USB | copy while the ring is written; session reset on one side only | every byte once, in order |
| USB framing (`accumulate_and_dispatch`, `process_packet`; `_transact*`) | `rx_buf`, `rx_len`; input buffer of the port | packets, answers, resynchronisation | byte stream | fragments, interrupted programs, late answers | a call returns the answer to that call |
| card transfers (`process_packet`, `bridge_mark_dirty`; `write_card`) | PSRAM, PS1 image, dirty sectors, `bridge_card_busy`, `bridge_pending_write` | READ, WRITE, FLUSH | dirty list and console of the surrounding firmware | console on the other core; two card layouts; partial blocks | what was written reaches the card and the SD card |
| command line (`sd2psx_cli.py`) | none (`seen` of `watch`) | push, pull, watch, elf, stdout, dev-* | library calls | partial failure, interruption, a file saved while it is written | reports success only on success; `watch` overlooks no version |
| launcher (`launcher/launcher_main.c`) | `_elfs_run`, `_last_sz`, `prev_ack`, `_mc_ready` | starts the stub, polls and draws the header | same card, same header | sees the edge of a word that outlives it, between polls; restarts; two threads on libmc | counts no run twice, shows a size that was committed |
| test programs (`elfs/`) | command words at +0x80 | print memory, wait for DUMP commands | ring, header sector | chunks and rows that do not divide a range, range checks, a command cleared before or after its dump | a dump is exact; a command is answered |
| build files, USB descriptors | | | | | |

The hazards this code is exposed to, each at its line and with the properties
that look at it, are listed in `PROJECT.json`.

## 2. Modules

| Module | What it is |
|---|---|
| `DevChannel` | geometry as constants with their assumptions; the pure functions of `dev_channel.h` |
| `DevMailbox` | PC, firmware and stub around the header and the staging area |
| `DevMailboxInv` | the inductive invariants of `DevMailbox` |
| `DevMailbox_proofs` | its proofs, with any PC and with one that waits |
| `Loader` | abstract: a loader that runs committed images |
| `DevMailboxLoader`, `DevMailboxLoader_proofs` | `DevMailbox` as an implementation of `Loader`, and the proof |
| `Launcher`, `Launcher_proofs` | the launcher composed with `DevMailbox`, and its proofs |
| `MCDevMailbox`, `MCLauncher` | images and sizes for TLC; launcher, loader and mailbox together |
| `ByteStore` | abstract: the card as an array of bytes |
| `McAccess`, `McAccess_proofs` | byte-addressed access over sectors; refines `ByteStore` |
| `ElfLoader` | segments of a file into memory |
| `RamDump`, `RamDump_proofs` | the programs that print memory, started by `ElfLoader`; proofs of both |
| `MCRamDump` | files, chunks and commands for TLC |
| `StdoutPipe` | abstract: a pipe, one session after another |
| `StdoutRing` | the ring: stub, PSRAM and firmware; refines `StdoutPipe` |
| `StdoutRing_proofs` | its proofs |
| `UsbLink`, `UsbLink_proofs` | framing on the serial line and the library's way of reading answers; proofs |
| `CardTransfer`, `CardTransfer_proofs` | WRITE, READ, FLUSH, dirty sectors, console; proofs |
| `CardWatch` | the `watch` command composed with `CardTransfer` |
| `MCCardTransfer` | ranges for TLC |

Operators whose comment begins with "Mutant:" are wrong on purpose. They are
not part of any specification: each replaces the definition it stands before in
a run that must then fail (`PROJECT.json`, "mutants"), which shows that the
property can be broken by a plausible bug.

### DevMailbox

`hdr` holds DOORBELL, ELF_SIZE and ACK; `staging` says which image each unit of
the staging area was last pushed from. The words are tested against magic
numbers in the code; here the magic word of a commit carries the number of the
commit, a ghost that no guard looks at.

* PC: `BeginPush`, `PushChunk`, `Commit` / `CommitRefused` are `push_elf` and
  `_commit_elf`; `StatusPoll`, `GiveUp` are `wait_for_ack`; `DevReset`;
  `Abandon` is an upload that is interrupted. The library is synchronous, so a
  command is only sent when the firmware has finished the one before.
* Firmware: `DevRingDoorbell` and `DevResetStores` are the stores of
  `dev_ring_doorbell` and `dev_reset`, one step each in the order of the code.
  The flags are always 0 (`usb_bridge.c:412`), so the ring is always reset by the
  stub, and the load address is only printed by it.
* Stub: `PollIdle`, `PollDoorbell`, `ReadSector`, `ReadFail`, `Load`,
  `ElfOutput`, `ElfReturns`. Each `mc_write_bytes` on the header sector is a
  *header job*: `McReadHdr` copies the sector (with the units of the staging area
  in it), `McWriteHdr` patches the copy and writes it back, `McFail` is a read or
  write that fails and leaves the card as it was. `After` is where `main` goes
  next; the result is ignored everywhere in the code. The lines the stub prints
  into the ring are header jobs too, because they publish STDOUT_HEAD in that
  sector. A write that is stored although it is reported as failed is the same
  as one that succeeds, since nobody looks.
* `PowerOff` and `Boot`: the console loses everything, the PSRAM (powered over
  USB) keeps everything. `mc_access_init` failing leaves `main` asleep, which is
  the same as off.

`HostWaitsForIdle` tells two kinds of PC apart. FALSE: any sequence of commands
at any time. TRUE: the discipline of the README's boot sequence (`README.md:20`,
steps 4 to 7): a push begins only while the stub polls or is off and no doorbell
is armed, and the console is not switched while the PC is in the middle of a
push. No code enforces it. The runs without it show what goes wrong, those with
it, and the proofs, what then holds.

A sector transfer and a packet's store are each atomic: all PSRAM access goes
through a critical section (`usb_bridge.h:10`, outside this repository).

### Loader and DevMailboxLoader

`Loader` has no header, sectors or polling: `Commit`, `Offer`, `Take`, `Clear`,
`Reject`, `Return`, `Tell`, and `Withdraw` (DEV_RESET). `Take` runs *all* of the
image on offer, and a second time only after a disturbance (a failed access or a
power cycle). `DevMailboxLoader` maps the header's doorbell to the offer, the
stub's `claim` and `stage`, while it is between loading and the end of the program,
to what runs, and "the firmware is in the middle of ELF_COMMIT" to a commit that is
not yet on offer. A stub that polls, reads sectors or updates fields other than
the doorbell stutters.

### Launcher

`main()` starts the stub (`McInit`, `StartStub`, each with its failure, after
which the loop runs without a stub) and polls the header sector
(`PollDevHeader`). `view.ack` is the `_ack` of the last poll, which is also
`prev_ack`. `SwitchOff` and `StartAgain` lose all of it; the header in PSRAM stays,
so that the first poll of a session may see the ACK of the last one.
`StartStub` takes the place of `DevMailbox`'s `Boot`, and the rest of the
mailbox runs unchanged beside it.

### McAccess

A call is `Begin`; one turn of the loop is `FetchSector` of a read, `StoreSector`
of a write that covers its sector, or `ReadBack` and `StoreSector` of one that
does not; `ReadFails` and `WriteFails` end it (the failed sector stored or not).
Byte `i` of a write is `<<tag, i>>`, so that source and destination are checked
against each other. `FwStore` is the firmware, between any two transactions.
`FirmwareApart` keeps it out of a sector between its read-back and its write:
that is what `HostWaitsForIdle` is for in `DevMailbox`, whose header jobs are such
partial writes. Without it the copy is stale, and the firmware's byte is lost.

### ElfLoader and RamDump

`Accept` and `Refuse` are the checks of the ELF header, `WalkHeader` one turn of
the loop over the program headers, `EndWalk` the entry point. Memory is a
function of addresses; byte `k` of a file is `<<name, k>>`; a kseg is a modulus.

`RamDump` goes on in the memory so loaded. A file's `kind` says which of the
programs it is: `ramdump.c` (range fixed, no check), `ioppeek.c` (range fixed,
checked with a 32-bit sum) or `ramdump_interactive.c` (`StartInteractive`,
`ClearCommand`, `ReadCommand`, `RefuseDump` or `BeginDump`). `PrintRow` is one
line of `dev_hexdump` with the chunk loop around it. `DumpIsExact` takes the rows
printed so far as a set of pairs of row and byte (`Earlier`), whose number is the
offset that the next row must carry. `cell` is the twelve
bytes at +0x80 of the channel. The WRITE that `ramdump.py` sends them with is
refused (`WriteRefused` of `CardTransfer`); what can arrive there is a push, since
+0x80 is in the staging area (`PushCommand`, `LoadFile`).

### StdoutRing

`ring` and `HEAD` are in PSRAM; `head` is the stub's `_head`, `tail` the
firmware's `stdout_tail`. A write is `BeginWrite`, then `Put` once per piece
(two when it wraps around), then `Publish`. A pull is `PullBegin` (reads HEAD),
`PullCopy` once per segment, `PullEnd`. `RingInit` takes over HEAD from the card,
`RingReset` is the new session of the stub. Each can fail. Bytes are ghosts
`<<session, number>>`, so that every loss, repetition and mix-up shows.

`ResetPolicy` is when the PC sends DEV_RESET: `"between"` sessions and before
each of them, `"anytime"`, or `"never"`. The code's own CLI never does, unless
the user types `dev-reset`. As in `DevMailbox`, "between" means while the stub
polls and no update of the header sector is under way.

`lossy` is set when bytes of the session were overwritten before they were
pulled, or not stored by the card: then nothing is promised until the next
session. The code cannot prevent that, because the stub never reads the drain pointer.

`UnreadIsBetween` is about the ring's pointers, as a pull finds them. What
DEV_STATUS says of them is `PendingSent`, two bytes in the order of the firmware's
memory, and `PendingRead`, the number that `dev_status()` makes of them: they do
not agree on the order (`StatusIsSwapped`).

### UsbLink

A byte is a set of labels, xor is symmetric difference, so that a label is in a
checksum if an odd number of the bytes have it: checksums are exact as long as bytes are in general position, and the coincidences the code itself
makes (the checksum of an answer without data *is* its response code) are there.
A header is two bytes, a payload at most three. `FwCollect`, `FwResync`,
`FwDispatch` and `FwReject` are the four outcomes of one call of
`accumulate_and_dispatch` that finds `n` bytes. `FixedResult` and
`VariableResult` are `_transact` and `_transact_variable` on the bytes read.
`Break` and `BreakSending` interrupt the program (Ctrl+C), `Ended` closes the
port, and `Connect` opens it again, which empties the input buffer as pyserial
does. The first 64 bytes travel in one USB packet, so a header is never cut, and
a request without data is found whole (`WholePackets`) unless `rx_buf` has no room
for it. `GetsThrough` depends on this: with cuts anywhere, a stale byte
in `rx_buf` could shift every later request by one, for ever.
`Patient` says that the firmware's main loop serves the link before a timeout of
the PC and before the port is closed; without it an answer can be
late, and since nothing in it says what it belongs to, the next call takes it.

### CardTransfer

`mode` is PS1 or PS2. PSRAM, the image the console sees (the PSRAM itself on a
PS2 card, the copy `bigmem.ps1.card_image` on a PS1 card) and SD card, each unit
labelled with the call that wrote it last. A WRITE is `WriteBusy`,
`WriteRefused`, or `WriteChecked`, `WriteStore`, `WriteMark`, with the console
(on the other core) free to act in between. The console and the saving of dirty
sectors are outside the repository and modelled from what `usb_bridge.c` relies
on. READ has a single outcome, because the library always sends `len` 0.

`CardWatch` adds the loop of the `watch` command for one file: `Notice` records
the time, `Open` reads the file, which may have been saved again by then, and
begins `write_card`, `Pushed` is its return or its refusal ("Busy, skipping").
`Edit` saves the file at any moment.

## 3. Runs

Passing runs:

| Run | Question | Bounds |
|---|---|---|
| `MailboxEager` | What holds with any PC? `ClearedStaysCleared`, `AckImpliesLoaded`, `RunsOnce`, `AnyHostInv`, `StubReturnsToPoll` | 2 commits, 1 fault, 1 power-off, 1 reset; one good image, one that is no ELF, an empty file (ELF_COMMIT refuses it) |
| `MailboxQuiet` | What holds with a PC that waits, and what does the launcher show? `RunsWhatWasCommitted`, `AckIsForLatest`, `DoorbellNotLost`, `ArmedOnlyByCommit`, `QuietInv`, `DoorbellAnswered`; `ImplementsLoader`; `LauncherInv`, `CountedOnce`, `LastIsCommitted` | the same, four images (one sector, two sectors, no ELF, above the payload limit) |
| `CardBytes` | Are sector transactions reads and writes of bytes? `ImplementsByteStore` | every address and length in 2 sectors of 3 bytes, 2 calls, 1 fault, 1 store of the firmware |
| `LoadAndDump` | Does a program start in the memory its file describes, and print it? `SegmentsInPlace`, `DumpIsExact`, `OvershootBounded`, `PeekInside`, `CommandAnswered` | 11 files, RAM of 6, kseg of 8, words modulo 16, chunks of 2 or 4, rows of 2, dumps up to 5; 2 loads, 2 commands, 1 fault |
| `RingBetween` | Is the ring a pipe, and does it drain? `ReceivesThisSession`, `UnreadIsBetween`, `RingInv`, `ImplementsPipe`, `Drains` | ring of 4, pulls of 2, writes up to 3, 6 bytes a session (once and a half round the ring), 2 sessions, 1 fault, 1 power-off |
| `LinkAnswers` | Does a call get its answer? `LinkInv`, `GetsItsAnswer`, `NoErrorUnprovoked`, `GetsThrough` | 3 bytes of payload, 2 interruptions, request numbers modulo 4 |
| `CardBothModes` | Does what was written arrive, on either card, and does `watch` keep up? `ChannelUntouched`, `UnsavedIsDirty`, `WrittenIsOnCard`, `WrittenIsSaved`, `WatchKeepsUp` | 2 (PS1) or 3 (PS2) dirty sectors of 2 units and a channel of 4, blocks of 3, 2 calls out of 5 ranges, 1 console transaction, 2 versions of the file |

Each also checks the type invariant of its module (`LauncherInv` and `LinkInv`
contain theirs). Two commits are enough for everything that confuses one with the other; the second commit already meets leftovers of
the first in every word of the header. One fault and one power-off can strike
anywhere. Sector and header sizes are scaled (1 unit of header, 2 a sector) such
that one unit of the staging area is in the header's sector, an image is read in
one or two sector reads, and the ring begins on a sector. In `CardBytes` a
call covers up to two sectors and is partial at its start, its end, both or
neither; that the arithmetic also holds over any number of sectors is proved
(section 4). In `LoadAndDump` chunks and rows do not divide every range, so that each
boundary is met, segments lie inside and over each other, ranges begin and end at
the end of the RAM and one sum wraps around. The 2 loads let one program find the
memory of another.

Violated properties, each a statement of the code's documentation that the code
does not keep (`PROJECT.json`, "findings", quotes the line):

| Run | What it shows |
|---|---|
| `MailboxLostDoorbell` | a commit made while the stub updates the header sector is lost |
| `MailboxElfRefused` | ELF_COMMIT refuses every ELF above 512 bytes |
| `RingStaleOutput` | a second session without DEV_RESET begins with old ring contents |
| `LinkPullDesync` | after an empty pull the answers are read out of step |
| `LoadBss` | a LOAD segment without bytes in the file is skipped, its memory not cleared |

More of the kind, met while modelling and without a run of their own:

* With `HostWaitsForIdle = FALSE`, `RunsWhatWasCommitted`, `AckIsForLatest`,
  `ArmedOnlyByCommit`, `CountedOnce` and `LastIsCommitted` fail too: a second push while the stub reads makes it run a
  mixture of two images; `wait_for_ack` succeeds on the ACK of the ELF before; a
  doorbell that DEV_RESET cleared comes back with the stub's next header update.
* With `ResetPolicy = "anytime"`, `ReceivesThisSession` fails: after a DEV_RESET
  while a program prints, the stub's `_head` is ahead of what the firmware
  expects.
* A size above 65535 is sent modulo 65536 (`WireSize`). A ring with exactly 32768
  unread bytes looks empty, and the stub overwrites unread bytes, since it never
  reads STDOUT_TAIL: `lossy` marks both.
* DEV_STATUS sends `stdout_pending` low byte first (`usb_bridge.c:446-453`, a packed
  struct) and `sd2psx_bridge.py:446` reads it high byte first, so that one pending
  byte is reported as 256, although `usb_bridge.h:79` calls the field "bytes available
  in stdout ring". It has no run, but a theorem, `StatusSwapsBytes`.
* FLUSH is answered before anything is saved; `sd2psx_cli.py:61` then prints "Card
  updated and flushed to SD.". Every READ of the library is refused, since it is
  sent with `len` 0, although `usb_bridge.h:21` calls READ "still available".
* The launcher counts an ACK that the session before left in the header, and a
  run is not counted when its ACK comes and goes between two polls.
* `ramdump_interactive.c:15` says that the program clears a command when its dump is
  done; it clears it before. A command sent on the announcement at line 94 is
  cleared unread at line 100. The DUMP command of `ramdump.py` never gets that
  far, because it is a WRITE into the channel.
* `do_dump` checks only the first address of a range, which may also be the end of
  the RAM: up to `MaxDump` bytes beyond it are printed (`OvershootBounded`).
  `ioppeek` adds address and length in 32 bits, and a range whose sum wraps
  around passes its check (`Elf("over", ...)` of `MCRamDump` is one).
* An ELF with an entry point of 0 is refused after its segments were copied.
* The layout in `README.md:44` puts the ring at +0x73020 and the one in
  `firmware/dev_channel.h:19` at +0x8020; it is at +0x78000.

Deadlock is checked except in the ring's runs and in `CardBytes`: there the
stub may be off, or poll, or have made all its calls, with the bounds used up and
nothing left to do, which is where the bounded model stops.

The one liveness violation (`MailboxLostDoorbell`) is under `FairSpec`, so it is
not for want of scheduling.

### Fairness

* `DevMailbox`: weak fairness of the firmware's stores (the handler runs to its
  end without yielding), of the stub's steps (a single thread that never waits
  for anybody), and of `Boot` (a console that is off is switched on again).
  None for the PC, for faults, for programs returning.
* `Launcher`: the same, with the steps that start launcher and stub in the place of
  `Boot`. Its polls need none. The stub's thread has the lower priority, so this
  takes for granted that the launcher's loop gives way while it waits for a frame.
* `RamDump`: weak fairness of the program's steps; it waits for nobody but polls
  its command cell.
* `StdoutRing`: weak fairness of the pull, `stream_stdout`'s loop.
* `UsbLink`: weak fairness of the firmware's task, called for ever by the main
  loop, and of a user who starts the program again and of that program's calls.
* `CardTransfer`: weak fairness of the WRITE in progress and of the saving of
  each dirty sector. `CardWatch`: also of the steps of the watch loop, which runs
  until it is interrupted; none for `Edit`.

## 4. Proofs

All theorems hold for every value of the constants under the assumptions of their
module: `GeometryAssumption`, `MailboxAssumption`, `RingAssumption`,
`AccessAssumption`, `LoaderAssumption`, `FileAssumption`, `DumpAssumption`,
`LinkAssumption` and `TransferAssumption`, which TLC evaluates in the runs. No
bound of a run is used. Where a theorem needs more (a PC that waits, a port
without STDOUT_PULL) it says so in its hypotheses.

* **`TypeCorrect`** (`DevMailbox_proofs`): `TypeOK` is inductive. It says more
  than types: only accepted sizes get into the log and so into the header, hence
  `esize` never exceeds the staging buffer although the stub may see any
  mixture of stale words.
* **`AnyHostCorrect`**: `ClearedStaysCleared`, `AckImpliesLoaded`, `RunsOnce`.
  By themselves they are not inductive: `McWriteHdr` puts the stub's copy `buf`
  into the header. `AnyHostInv` therefore says of the copy what it says of the
  header (`Current`), and that the stub only acts on doorbells it has not
  cleared. A stale copy is harmless to these properties because what was current
  once can only be overtaken by the stub itself, and it is not in two places.
* **`QuietCorrect`** and **`DoorbellSafe`** (`DevMailbox_proofs`), for
  `HostWaitsForIdle` and files whose size fits the `len` field (`ShortFiles`):
  `RunsWhatWasCommitted`, `AckIsForLatest`; `DoorbellNotLost` and
  `ArmedOnlyByCommit` as action properties. The invariant `QuietInv` is a
  conjunction of mutual exclusion (`Exclusive`), freshness of the copy
  (`NotStale`, which follows from it), what an armed doorbell offers (`Offered`),
  how far the stub's reading has come (`Working`) and what the PC was told
  (`Answered`).
* **`RingTypeCorrect`** (`StdoutRing_proofs`): the pointers stay in the ring,
  with any PC.
* **`OutputInOrder`** and **`RingIsPipe`** (`StdoutRing_proofs`), for
  `ResetPolicy = "between"`: `RingInv` relates the distances between the four
  pointers (pulled, published, written, and the ring's HEAD and tail modulo its
  size) and says which byte is in every slot between them. It is inductive
  together with `TypeOK`; `ReceivesThisSession` and `UnreadIsBetween` follow (both about
  what the firmware hands over, not about the link), and
  every step of the ring is a step of `StdoutPipe` or a stutter, with
  `sent <- npub` and `broken <- lossy`.
* **`StatusSwapsBytes`**, for the same PC and a ring of at most 65536 bytes: what
  `dev_status()` returns is the number of unread bytes with its two bytes swapped, which
  is the number itself only where both are the same.
* **`RejectedForAReason`** and **`MailboxIsLoader`** (`DevMailboxLoader_proofs`),
  under the same conditions: the mailbox implements `Loader`. Each step of
  `DevMailbox` is mapped to a step of the loader or a stutter, from `QuietInv`;
  `RejectReason` is the one fact it lacks, that a doorbell under rejection was
  rejected for what is in the file unless something failed.
* **`LauncherQuiet`**, **`LauncherKeepsDoorbell`**, **`LauncherIsLoader`**
  (`Launcher_proofs`), under the same conditions: what is proved of the mailbox holds
  with a launcher beside it. A step of `Launcher` is a step of `DevMailbox`, or it
  leaves the mailbox alone, or it is a failure that is only counted
  (`McInitFails`, `StartStubFails`), which no invariant of the mailbox minds.
* **`LauncherTypeCorrect`** (any PC), **`LauncherInvariant`** and
  **`LauncherCorrect`** (a PC that waits): `CountedOnce` and `LastIsCommitted`. What
  has to be excluded is that an ACK the launcher has counted goes away and comes
  back. `SeenOnce` says that it is either still in the header and in `view`, or gone
  from ACK *and* DOORBELL, so that the stub can no longer send it; that
  the stub's copy of the header is no way back is `NotStale` of `QuietInv`.
  `OneInherited` says that an ACK of an earlier session is the one found at power-on,
  hence at most one; `AckHasSize` that an ACK stands beside the size of
  a commit, because `dev_reset` clears the ACK first. With a PC that does not wait
  neither `CountedOnce` nor `LastIsCommitted` holds: TLC finds both violated.
* **`AccessTypeCorrect`** (`McAccess_proofs`): `TypeOK` ties `sector`, `offset`,
  `pos` and `remaining` together (`Base + offset = call.at + pos`), from division
  with remainder. **`CopyStaysFresh`** and **`AccessIsByteStore`**, for
  `FirmwareApart`: what is written back is what the sector holds, apart from
  the piece, hence the calls implement `ByteStore`, for any size and number of sectors.
* **`TypeCorrect`**, **`ProgramStartsInPlace`** (`RamDump_proofs`): `LoadInv`
  says of the headers walked so far what `SegmentsInPlace` says of all of them:
  the last one that reaches an address decides what is there.
* **`OvershootIsBounded`**, **`PeekStaysInside`**
  (`RamDump_proofs`): the rows printed stay in a range that does not wrap around
  (`RowsInRange`), and the range checks bound the range.
* **`DumpsAreExact`** (`RamDump_proofs`): a dump prints every byte of its range once,
  in order, under the right address, whatever rows, chunks, kseg and word width
  are. `DumpIsExact` is nearly inductive (`DumpInv` adds that the rows hold finitely
  many bytes); the work is in counting the bytes that a row adds (`RowAdds`) and in
  adding to addresses that have already wrapped around (`WordTwice`, `OneRemainder`).
* **`LinkTypeCorrect`** (`UsbLink_proofs`): with any constants, `rx_buf` always has
  room for the byte that completes a packet, so that the firmware never waits with
  a full buffer (for the packets the library sends).
* **`LinkInvariant`** and **`LinkCorrect`**: `GetsItsAnswer` and
  `NoErrorUnprovoked`, however the bytes are cut (`WholePackets` is not used), for
  a PC that is `Patient` and does not use STDOUT_PULL (`NoPull`). Both hypotheses
  are needed, as TLC shows: without the first an answer may come when the next call
  waits, without the second the read of a single byte leaves a checksum behind
  (`LinkPullDesync`). `LinkInv` says what can be on the line at each point of the
  program: the packet of the current request (`Whole`), its answer (`Answered`),
  or what an interrupted WRITE has left: a header that waits for data and swallows
  the STATUS packets of later programs (`Stuck`) until its checksum fails in
  the middle of one, whose remaining bytes are then thrown away (`Junk`). `Framed`
  keeps a magic byte together with its command. That a WRITE filled up with
  STATUS packets cannot pass for whole rests on bytes in general position: none of
  them has the label of its header, so the checksum never comes out as zero.
* **`TransferInvariant`** and **`TransferCorrect`** (`CardTransfer_proofs`): `CardInv`
  says where in a call the block under way is (`InBlock`), that a PS2 card's image
  is the PSRAM (`Mirrored`), that what is about to be marked is stored
  (`BlockStored`) and that the blocks before it are on the card (`BlocksOnCard`).
  With the arithmetic of sectors (first and last sector of an unaligned block, the
  clamp at the channel, the end of a PS1 card) it yields `ChannelUntouched`,
  `UnsavedIsDirty` and `WrittenIsOnCard`. **`WatchIsTransfer`**: all of it holds
  while `watch` runs.

Only model-checked:

* all liveness (`StubReturnsToPoll`, `DoorbellAnswered`, `CommandAnswered`, `Drains`,
  `GetsThrough`, `WrittenIsSaved`, `WatchKeepsUp`), which the prover's treatment of
  ENABLED does not reach. Every other property of a passing run is proved.

## 5. Not modelled

* Malformed ELF files: program headers and segments outside the file, segments
  over the stub itself. The code checks neither; where the stub lies is decided by
  a linker script outside the repository. The flush of the caches.
* A program that links its own copy of `stdout_ring.o`, as `README.md:162` suggests:
  none of the programs in `elfs/` is built that way.
* libmc: whether the launcher's and the stub's requests are kept apart on the IOP,
  and whether a request can fail to start, in which case `mc_access.c:64` uses an
  uninitialised result. A failed request is taken to be reported.
* Byte order and bit layout of words, except for the count in DEV_STATUS, text of messages, the XOR checksum's
  collisions, retries inside USB.
* A packet header with a `len` above 512 for WRITE or ELF_PUSH, which would fill
  `rx_buf` for good; the library never sends one.
* FLAGS with KEEP_STDOUT: no commit sets it (`usb_bridge.c:412`).
* `regdump.c` and `threadlist.c`, which print what processor and kernel tell them, in
  one pass and without a state; the drawing of the launcher's screen; USB
  descriptors; build files.
* TinyUSB, pyserial and the rest of the SD2PSX firmware, beyond what the external
  definitions say.
* Power loss of the firmware itself: it starts from `Init` again
  (`usb_bridge_init` clears the header and all its variables are reset).

## 6. Plan

Done: the channel; the mailbox with its two kinds of PC, as a loader, and with its
launcher; card access as a byte store; the ELF loader with the dump programs; the
ring as a pipe; framing; card transfers and `watch`; a proof of every safety
property (section 4).

Next, in this order:

1. Composition of mailbox and ring in one session (`elf` of the CLI, from push to
   the last byte of output): the stub's `stdout_ring_init` under `HostWaitsForIdle`
   is what makes `ResetPolicy = "between"` a consequence.
2. `GetsItsAnswer` for STDOUT_PULL as long as no pull comes back empty, which is
   where the single byte is left behind.
3. `StdoutRing` with a second writer, if a program is ever linked with it.
