----------------------------- MODULE DevMailbox -----------------------------
(***************************************************************************)
(* The mailbox through which a PC hands a program to a PS2.  The PC         *)
(* (sd2psx_bridge.py) streams an ELF over USB, the firmware                *)
(* (firmware/usb_bridge.c) stores it in the staging area and rings a        *)
(* doorbell in the header, and the stub (ps2stub/stub_main.c) polls the     *)
(* header as a memory card sector, reads the ELF, acknowledges it, clears   *)
(* the doorbell and jumps.                                                 *)
(*                                                                         *)
(* The firmware stores one field at a time, straight into PSRAM.  The stub  *)
(* can only read and write whole sectors (ps2stub/mc_access.c): each of its *)
(* header updates reads the first sector, patches some bytes and writes all *)
(* of it back, with anything the firmware stored in between.  That sector   *)
(* also holds the first units of the staging area.                         *)
(*                                                                         *)
(* The code only tests DOORBELL and ACK against magic words.  Here the     *)
(* magic word carries the number of the commit it belongs to, a ghost that *)
(* no guard reads beyond "is it zero".  FLAGS is always 0 and LOAD_ADDR is  *)
(* only printed by the stub, so both are left out; STDOUT_HEAD and          *)
(* STDOUT_TAIL are in module StdoutRing, and here a write of them is an     *)
(* update of the header sector that patches no field of hdr.               *)
(***************************************************************************)
EXTENDS DevChannel, Sequences

CONSTANTS
    Image,              \* the ELF files the PC may push
    SizeOf,             \* their sizes, in units
    Loadable,           \* those load_elf_from_staging finds an entry point in
    NoImage,            \* content of staging memory nothing was pushed to
    MaxPayload,         \* USB_BRIDGE_MAX_PAYLOAD
    LenModulus,         \* 2^16: the len field of a packet has two bytes
    HostWaitsForIdle,   \* TRUE: the PC only writes while the stub is quiet
    MaxCommits, MaxFaults, MaxPowerOffs, MaxResets      \* bounds of the runs

Unit == 0 .. ElfMaxSize - 1

\* Units of the staging area in the sector of the header
HeadUnit == {u \in Unit : HeaderSize + u < SectorSize}

ASSUME MailboxAssumption ==
    /\ SizeOf \in [Image -> Nat]
    /\ Loadable \subseteq Image
    /\ NoImage \notin Image
    /\ MaxPayload \in Nat \ {0}
    /\ MaxPayload <= ElfMaxSize
    /\ LenModulus \in Nat
    /\ LenModulus > MaxPayload
    /\ HostWaitsForIdle \in BOOLEAN
    /\ {MaxCommits, MaxFaults, MaxPowerOffs, MaxResets} \subseteq Nat

VARIABLES
    hdr,        \* the header: DOORBELL, ELF_SIZE and ACK
    staging,    \* the staging area: the image each unit was last pushed from
    fw,         \* the firmware between two stores of one command, or "idle"
    host,       \* the PC
    log,        \* every image committed so far, in order
    spc,        \* where the stub is
    held,       \* the stub is between the read and the write of its update
    buf,        \* the copy of the header sector it read (_sector_buf)
    claim,      \* the commit whose doorbell the stub last acted on
    esize, rd, stage,   \* elf_size, bytes_read and _stage_buf
    done,       \* the last commit whose doorbell the stub has cleared
    loaded,     \* the commits the stub has loaded
    faults, powerOffs, resets   \* counted against the bounds

chan   == <<hdr, staging>>
pc     == <<fw, host, log>>
rmw    == <<held, buf>>
job    == <<claim, esize, rd, stage>>
ghosts == <<done, loaded>>
bounds == <<faults, powerOffs, resets>>
vars   == <<chan, pc, spc, rmw, job, ghosts, bounds>>

ClearHdr == [doorbell |-> 0, size |-> 0, ack |-> 0]

Blank == [u \in Unit |-> NoImage]

\* The first sector of the channel, as the stub reads it
HeadSector == [hdr |-> hdr, head |-> [u \in HeadUnit |-> staging[u]]]

NoSector == [hdr |-> ClearHdr, head |-> [u \in HeadUnit |-> NoImage]]

\* The stub writes neither header nor staging area until a doorbell rings
Quiet == spc \in {"poll", "off"} /\ hdr.doorbell = 0

\* usb_bridge_init has cleared the header; the console is still off
Init ==
    /\ hdr = ClearHdr /\ staging = Blank
    /\ fw = "idle" /\ log = << >>
    /\ host = [pc |-> "idle", img |-> NoImage, off |-> 0, said |-> "none"]
    /\ spc = "off" /\ held = FALSE /\ buf = NoSector
    /\ claim = 0 /\ esize = 0 /\ rd = 0 /\ stage = Blank
    /\ done = 0 /\ loaded = {}
    /\ faults = 0 /\ powerOffs = 0 /\ resets = 0
-----------------------------------------------------------------------------
(* The PC: push_elf, wait_for_ack, dev_reset.  Its commands are synchronous: *)
(* it sends the next one when the firmware has answered (fw = "idle").      *)

BeginPush(img) ==
    /\ host.pc = "idle" /\ fw = "idle"
    /\ Len(log) < MaxCommits
    /\ SizeOf[img] <= ElfMaxSize
    /\ HostWaitsForIdle => Quiet
    /\ host' = [pc |-> "push", img |-> img, off |-> 0, said |-> "none"]
    /\ UNCHANGED <<chan, fw, log, spc, rmw, job, ghosts, bounds>>

\* min(MAX_PAYLOAD, size - offset) units further
ChunkEnd(off, size) == IF size - off > MaxPayload THEN off + MaxPayload ELSE size

\* One ELF_PUSH packet: the firmware stores the chunk and answers
PushChunk ==
    /\ host.pc = "push"
    /\ host.off < SizeOf[host.img]
    /\ LET end == ChunkEnd(host.off, SizeOf[host.img]) IN
        /\ staging' = [u \in Unit |-> IF u \in host.off .. end - 1 THEN host.img
                                      ELSE staging[u]]
        /\ host' = [host EXCEPT !.off = end]
    /\ UNCHANGED <<hdr, fw, log, spc, rmw, job, ghosts, bounds>>

\* The size as it travels in the len field of ELF_COMMIT
WireSize(img) == SizeOf[img] % LenModulus

\* process_packet refuses any packet whose len is above the payload limit,
\* and ELF_COMMIT refuses 0
Accepted(img) == WireSize(img) \in 1 .. MaxPayload

Commit ==
    /\ host.pc = "push" /\ host.off = SizeOf[host.img]
    /\ Accepted(host.img)
    /\ log' = Append(log, host.img)
    /\ fw' = "commit_size"
    /\ host' = [host EXCEPT !.pc = "wait"]
    /\ UNCHANGED <<chan, spc, rmw, job, ghosts, bounds>>

CommitRefused ==
    /\ host.pc = "push" /\ host.off = SizeOf[host.img]
    /\ ~Accepted(host.img)
    /\ host' = [host EXCEPT !.pc = "idle", !.said = "refused"]
    /\ UNCHANGED <<chan, fw, log, spc, rmw, job, ghosts, bounds>>

\* wait_for_ack: CMD_DEV_STATUS reads ACK from PSRAM
StatusPoll ==
    /\ host.pc = "wait" /\ fw = "idle"
    /\ hdr.ack # 0
    /\ host' = [host EXCEPT !.pc = "idle", !.said = "ack"]
    /\ UNCHANGED <<chan, fw, log, spc, rmw, job, ghosts, bounds>>

\* The deadline of wait_for_ack passes
GiveUp ==
    /\ host.pc = "wait" /\ fw = "idle"
    /\ host' = [host EXCEPT !.pc = "idle", !.said = "noack"]
    /\ UNCHANGED <<chan, fw, log, spc, rmw, job, ghosts, bounds>>

\* The upload is interrupted between two chunks
Abandon ==
    /\ host.pc = "push"
    /\ host' = [host EXCEPT !.pc = "idle"]
    /\ UNCHANGED <<chan, fw, log, spc, rmw, job, ghosts, bounds>>

DevReset ==
    /\ host.pc = "idle" /\ fw = "idle"
    /\ resets < MaxResets
    /\ HostWaitsForIdle => Quiet \/ spc = "off"
    /\ fw' = "reset_doorbell"
    /\ resets' = resets + 1
    /\ host' = [host EXCEPT !.said = "none"]
    /\ UNCHANGED <<chan, log, spc, rmw, job, ghosts, faults, powerOffs>>
-----------------------------------------------------------------------------
(* The firmware: dev_ring_doorbell and dev_reset, one PSRAM store a step.   *)

FwStore(at, newHdr, next) ==
    /\ fw = at
    /\ hdr' = newHdr
    /\ fw' = next
    /\ UNCHANGED <<staging, host, log, spc, rmw, job, ghosts, bounds>>

\* Mutant: the doorbell is stored before the size
DoorbellFirst ==
    \/ FwStore("commit_size", [hdr EXCEPT !.doorbell = Len(log)], "commit_ack")
    \/ FwStore("commit_ack", [hdr EXCEPT !.ack = 0], "commit_doorbell")
    \/ FwStore("commit_doorbell", [hdr EXCEPT !.size = WireSize(log[Len(log)])], "idle")

\* Mutant: the ACK of the previous commit stays
DoorbellKeepsAck ==
    \/ FwStore("commit_size", [hdr EXCEPT !.size = WireSize(log[Len(log)])], "commit_ack")
    \/ FwStore("commit_ack", hdr, "commit_doorbell")
    \/ FwStore("commit_doorbell", [hdr EXCEPT !.doorbell = Len(log)], "idle")

DevRingDoorbell ==
    \/ FwStore("commit_size", [hdr EXCEPT !.size = WireSize(log[Len(log)])], "commit_ack")
    \/ FwStore("commit_ack", [hdr EXCEPT !.ack = 0], "commit_doorbell")
    \/ FwStore("commit_doorbell", [hdr EXCEPT !.doorbell = Len(log)], "idle")

\* Mutant: the size is cleared first
SizeClearedFirst ==
    \/ FwStore("reset_doorbell", [hdr EXCEPT !.size = 0], "reset_ack")
    \/ FwStore("reset_ack", [hdr EXCEPT !.ack = 0], "reset_size")
    \/ FwStore("reset_size", [hdr EXCEPT !.doorbell = 0], "idle")

DevResetStores ==
    \/ FwStore("reset_doorbell", [hdr EXCEPT !.doorbell = 0], "reset_ack")
    \/ FwStore("reset_ack", [hdr EXCEPT !.ack = 0], "reset_size")
    \/ FwStore("reset_size", [hdr EXCEPT !.size = 0], "idle")
-----------------------------------------------------------------------------
(* The stub.  A header job is one mc_write_bytes on the header sector.      *)

HdrJob == {"installed", "online",       \* stdout lines of the start-up
           "ringreset",                 \* HEAD and TAIL set to 0
           "ack", "clear", "reject",    \* send_ack, clear_doorbell
           "jumping", "output", "returned"}     \* stdout of a session

\* Mutant: main() jumps without clearing the doorbell
AfterAckJumps(j) ==
    CASE j = "installed" -> "online"
      [] j = "ringreset" -> "read"
      [] j = "ack" -> "jumping"
      [] j = "clear" -> "jumping"
      [] j \in {"jumping", "output"} -> "run"
      [] OTHER -> "poll"

\* Mutant: main() tries to reject a doorbell again and again
AfterRejectAgain(j) ==
    CASE j = "installed" -> "online"
      [] j = "ringreset" -> "read"
      [] j = "ack" -> "clear"
      [] j = "clear" -> "jumping"
      [] j \in {"jumping", "output"} -> "run"
      [] j = "reject" -> "reject"
      [] OTHER -> "poll"

\* Where main() goes once the job is over, whether or not the card took it:
\* no caller looks at the result of mc_write_bytes for more than a message
After(j) ==
    CASE j = "installed" -> "online"
      [] j = "ringreset" -> "read"
      [] j = "ack" -> "clear"
      [] j = "clear" -> "jumping"
      [] j \in {"jumping", "output"} -> "run"
      [] OTHER -> "poll"

\* Mutant: clear_doorbell writes at the offset of ACK
PatchWrongOffset(j, h) ==
    CASE j = "ack" -> [h EXCEPT !.ack = claim]
      [] j \in {"clear", "reject"} -> [h EXCEPT !.ack = 0]
      [] OTHER -> h

\* Mutant: the stub clears the header when it starts
PatchStartsClean(j, h) ==
    CASE j = "ack" -> [h EXCEPT !.ack = claim]
      [] j \in {"clear", "reject"} -> [h EXCEPT !.doorbell = 0]
      [] j = "installed" -> ClearHdr
      [] OTHER -> h

\* The bytes a job patches in its copy of the header
Patch(j, h) ==
    CASE j = "ack" -> [h EXCEPT !.ack = claim]
      [] j \in {"clear", "reject"} -> [h EXCEPT !.doorbell = 0]
      [] OTHER -> h

\* mc_write_bytes reads the sector it will only partly change ...
McReadHdr ==
    /\ spc \in HdrJob /\ ~held
    /\ held' = TRUE
    /\ buf' = HeadSector
    /\ UNCHANGED <<chan, pc, spc, job, ghosts, bounds>>

\* Mutant: the copy is kept for the next update, without the bytes patched
McWriteHdrCached ==
    /\ spc \in HdrJob /\ held
    /\ hdr' = Patch(spc, buf.hdr)
    /\ staging' = [u \in Unit |-> IF u \in HeadUnit THEN buf.head[u] ELSE staging[u]]
    /\ done' = IF spc \in {"clear", "reject"} THEN claim ELSE done
    /\ UNCHANGED <<held, buf>>
    /\ spc' = After(spc)
    /\ UNCHANGED <<pc, job, loaded, bounds>>

\* ... and writes all of it back
McWriteHdr ==
    /\ spc \in HdrJob /\ held
    /\ hdr' = Patch(spc, buf.hdr)
    /\ staging' = [u \in Unit |-> IF u \in HeadUnit THEN buf.head[u] ELSE staging[u]]
    /\ done' = IF spc \in {"clear", "reject"} THEN claim ELSE done
    /\ held' = FALSE /\ buf' = NoSector
    /\ spc' = After(spc)
    /\ UNCHANGED <<pc, job, loaded, bounds>>

\* The read or the write fails, and the update is lost.  (One that is stored
\* although it reports an error is McWriteHdr.)
McFail ==
    /\ spc \in HdrJob
    /\ faults < MaxFaults /\ faults' = faults + 1
    /\ held' = FALSE /\ buf' = NoSector
    /\ spc' = After(spc)
    /\ UNCHANGED <<chan, pc, job, ghosts, powerOffs, resets>>

\* The doorbell sector is read and no doorbell is armed, or the read fails
PollIdle ==
    /\ spc = "poll" /\ hdr.doorbell = 0
    /\ UNCHANGED vars

\* Mutant: only the upper end of the size is checked
SizeNotTooLarge(size) == size <= ElfMaxSize

\* A doorbell with a size outside the staging buffer ...
SizeFits(size) == size \in 1 .. ElfMaxSize

\* ... is cleared and ignored
PollDoorbell ==
    /\ spc = "poll" /\ hdr.doorbell # 0
    /\ claim' = hdr.doorbell /\ esize' = hdr.size /\ rd' = 0
    /\ spc' = IF SizeFits(hdr.size) THEN "ringreset" ELSE "reject"
    /\ UNCHANGED <<chan, pc, rmw, stage, ghosts, bounds>>

\* Where one sector read of mc_read_bytes ends: at the end of a chunk of the
\* read loop or of a sector of the card
Boundary(u) == u % SectorSize = 0 \/ (HeaderSize + u) % SectorSize = 0

ReadSector ==
    /\ spc = "read"
    /\ \E end \in rd + 1 .. esize :
        /\ end = esize \/ Boundary(end)
        /\ \A u \in rd + 1 .. end - 1 : ~Boundary(u)
        /\ stage' = [u \in Unit |-> IF u \in rd .. end - 1 THEN staging[u] ELSE stage[u]]
        /\ rd' = end
        /\ spc' = IF end = esize THEN "load" ELSE "read"
    /\ UNCHANGED <<chan, pc, rmw, claim, esize, ghosts, bounds>>

ReadFail ==
    /\ spc = "read"
    /\ faults < MaxFaults /\ faults' = faults + 1
    /\ spc' = "reject"
    /\ UNCHANGED <<chan, pc, rmw, job, ghosts, powerOffs, resets>>

\* Mutant: the entry point is not looked at before the ELF is acknowledged
LoadUnchecked ==
    /\ spc = "load"
    /\ spc' = "ack"
    /\ loaded' = IF stage[0] \in Loadable THEN loaded \union {claim} ELSE loaded
    /\ UNCHANGED <<chan, pc, rmw, job, done, bounds>>

\* load_elf_from_staging: the checks are all on the ELF header, in unit 0
Load ==
    /\ spc = "load"
    /\ IF stage[0] \in Loadable
       THEN spc' = "ack" /\ loaded' = loaded \union {claim}
       ELSE spc' = "reject" /\ loaded' = loaded
    /\ UNCHANGED <<chan, pc, rmw, job, done, bounds>>

\* The program prints, or returns to the stub; it need not ever return
ElfOutput ==
    /\ spc = "run" /\ spc' = "output"
    /\ UNCHANGED <<chan, pc, rmw, job, ghosts, bounds>>

ElfReturns ==
    /\ spc = "run" /\ spc' = "returned"
    /\ UNCHANGED <<chan, pc, rmw, job, ghosts, bounds>>

\* The console is switched off or reset; the PSRAM and the firmware, powered
\* over USB, keep their state
PowerOff ==
    /\ spc # "off"
    /\ powerOffs < MaxPowerOffs /\ powerOffs' = powerOffs + 1
    /\ HostWaitsForIdle => host.pc # "push" /\ fw = "idle"
    /\ spc' = "off" /\ held' = FALSE /\ buf' = NoSector
    /\ claim' = 0 /\ esize' = 0 /\ rd' = 0 /\ stage' = Blank
    /\ UNCHANGED <<chan, pc, ghosts, faults, resets>>

\* The launcher starts the stub.  When mc_access_init fails main() sleeps for
\* ever, which is the same as staying off.
Boot ==
    /\ spc = "off"
    /\ HostWaitsForIdle => host.pc # "push" /\ fw = "idle"
    /\ spc' = "installed"
    /\ UNCHANGED <<chan, pc, rmw, job, ghosts, bounds>>
-----------------------------------------------------------------------------
FwStep == DevRingDoorbell \/ DevResetStores

StubStep ==
    \/ McReadHdr \/ McWriteHdr
    \/ PollDoorbell \/ ReadSector \/ Load

HostStep ==
    \/ \E img \in Image : BeginPush(img)
    \/ PushChunk \/ Commit \/ CommitRefused
    \/ StatusPoll \/ GiveUp \/ Abandon \/ DevReset

Next ==
    \/ HostStep
    \/ FwStep
    \/ StubStep
    \/ PollIdle \/ ElfOutput \/ ElfReturns
    \/ McFail \/ ReadFail \/ PowerOff
    \/ Boot

Spec == Init /\ [][Next]_vars

\* The firmware finishes a command it began (it runs it without yielding), the
\* stub keeps executing, and a console that is off is switched on again.
\* Nothing is assumed of the PC, of faults, or of the program it runs.
FairSpec == Spec /\ WF_vars(FwStep) /\ WF_vars(StubStep) /\ WF_vars(Boot)
-----------------------------------------------------------------------------
HdrType == [doorbell : Nat, size : 0 .. MaxPayload, ack : Nat]

Content == Image \union {NoImage}

\* Every variable has its type; in particular no size above the payload limit
\* ever reaches the header, so the stub's staging buffer is never overrun.
TypeOK ==
    /\ hdr \in HdrType
    /\ staging \in [Unit -> Content]
    /\ fw \in {"idle", "commit_size", "commit_ack", "commit_doorbell",
               "reset_doorbell", "reset_ack", "reset_size"}
    /\ host \in [pc : {"idle", "push", "wait"}, img : Content, off : Nat,
                 said : {"none", "ack", "noack", "refused"}]
    /\ host.pc = "push" => /\ host.img \in Image
                           /\ SizeOf[host.img] <= ElfMaxSize
                           /\ host.off <= SizeOf[host.img]
    /\ host.pc = "push" => fw = "idle"
    /\ log \in Seq(Image)
    /\ \A i \in 1 .. Len(log) : Accepted(log[i])
    /\ fw \in {"commit_size", "commit_ack", "commit_doorbell"} => log # << >>
    /\ spc \in HdrJob \union {"off", "poll", "read", "load", "run"}
    /\ held \in BOOLEAN
    /\ held => spc \in HdrJob
    /\ buf \in [hdr : HdrType, head : [HeadUnit -> Content]]
    /\ claim \in Nat
    /\ esize \in 0 .. MaxPayload
    /\ rd \in 0 .. esize
    /\ spc \in {"ringreset", "read"} => esize > 0 /\ rd < esize
    /\ stage \in [Unit -> Content]
    /\ done \in Nat /\ loaded \subseteq Nat
    /\ faults \in Nat /\ powerOffs \in Nat /\ resets \in Nat

(* With any PC *)

\* A doorbell the stub has cleared never rings again, although every later
\* update of the header sector writes back a doorbell word it did not mean to
\* touch: stub_main.c clears it at :175, and :300 and :314 update the sector.
ClearedStaysCleared == hdr.doorbell # 0 => hdr.doorbell > done

\* The ACK word of a commit is only in the header once that commit's image has
\* been loaded (stub_main.c:294 comes after :280), in whatever order updates
\* of the sector and stores of the firmware meet.
AckImpliesLoaded == hdr.ack # 0 => hdr.ack \in loaded

\* A commit is loaded twice only if the card failed, so that its doorbell was
\* not cleared, or the console was switched off in between.
RunsOnce == spc = "load" /\ claim \in loaded => faults + powerOffs > 0

\* Whatever the PC and the card do, the stub gets back to polling, unless it
\* is running a program or switched off.
StubReturnsToPoll == spc \notin {"off", "run"} ~> spc \in {"poll", "run", "off"}

(* With a PC that writes only while the stub is quiet *)

\* The stub runs the image of the commit it claimed, and all of it.
RunsWhatWasCommitted ==
    spc \in {"ack", "clear", "jumping", "run", "output", "returned"} =>
        /\ claim \in 1 .. Len(log)
        /\ \A u \in 0 .. SizeOf[log[claim]] - 1 : stage[u] = log[claim]

\* What wait_for_ack reports is about the image just pushed.
AckIsForLatest == host.said = "ack" => Len(log) \in loaded

\* An armed doorbell is only ever disarmed by the stub that claimed it or by
\* DEV_RESET.
DoorbellNotLost ==
    [][hdr.doorbell # 0 /\ hdr'.doorbell = 0
        => hdr.doorbell = claim \/ fw = "reset_doorbell"]_vars

\* A doorbell that was disarmed, by the stub or by DEV_RESET, comes back only
\* with a later commit.
ArmedOnlyByCommit ==
    [][hdr.doorbell = 0 /\ hdr'.doorbell # 0 => fw = "commit_doorbell"]_vars

\* An armed doorbell wakes the stub up ("PS2 stub wakes up", usb_bridge.c:409):
\* the commit is loaded or, if it cannot be, its doorbell is cleared, unless
\* the PC commits again or resets the channel first.
DoorbellAnswered ==
    \A c \in 1 .. MaxCommits, r \in 0 .. MaxResets :
        hdr.doorbell = c /\ fw = "idle" /\ resets = r
        ~> c \in loaded \/ done >= c \/ Len(log) > c \/ resets > r

\* An ELF that fits the staging area can be committed (README.md:183).
FittingElfAccepted == host.said = "refused" => SizeOf[host.img] > ElfMaxSize
=============================================================================
