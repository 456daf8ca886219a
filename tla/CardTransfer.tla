---------------------------- MODULE CardTransfer ----------------------------
(***************************************************************************)
(* The card image and the commands that transfer it: READ, WRITE and FLUSH  *)
(* of firmware/usb_bridge.c, as write_card, write_block and read_card of    *)
(* sd2psx_bridge.py use them, while the console uses the card and the rest  *)
(* of the SD2PSX firmware saves dirty sectors to the SD card.               *)
(*                                                                         *)
(* The console and the saving of sectors are outside this repository; they  *)
(* are modelled from what usb_bridge.c relies on: the console announces its *)
(* transactions (usb_bridge_notify_card_busy) from another core, a sector   *)
(* is saved by the core that runs the bridge, and the image that the       *)
(* console and the SD card see is the PSRAM on a PS2 card and a copy of it  *)
(* (bigmem.ps1.card_image) on a PS1 card.                                   *)
(***************************************************************************)
EXTENDS DevChannel

CONSTANTS
    PS1CardSize,    \* sizeof bigmem.ps1.card_image
    DirtySize,      \* size of a dirty sector: 128 on a PS1 card, 512 on a PS2 card
    MaxPayload,     \* USB_BRIDGE_MAX_PAYLOAD
    Write,          \* the ranges the PC writes: write_card begins at 0, users
                    \* of write_block anywhere
    MaxWrites, MaxConsole   \* bounds: calls, and transactions of the console

ASSUME TransferAssumption ==
    /\ {PS1CardSize, DirtySize, MaxPayload} \subseteq Nat \ {0}
    /\ PS1CardSize <= ChannelBase
    /\ PS1CardSize % DirtySize = 0 /\ ChannelBase % DirtySize = 0
    /\ Write \subseteq [from : 0 .. CardSize, to : 0 .. CardSize]
    /\ {MaxWrites, MaxConsole} \subseteq Nat

Address == 0 .. CardSize - 1

VARIABLES
    mode,       \* settings_get_mode: "ps1" or "ps2"
    psram,      \* who wrote each unit last: call number, or 0 if nobody
    image,      \* what the console sees of it
    dirty,      \* sectors marked dirty
    sd,         \* what the SD card holds
    busy,       \* bridge_card_busy
    pending,    \* bridge_pending_write
    fw,         \* the WRITE the firmware is in the middle of
    host,       \* the call the PC is in, and how the last one ended
    calls, transactions

vars == <<mode, psram, image, dirty, sd, busy, pending, fw, host, calls, transactions>>

\* The part of the PSRAM that is the card
CardEnd == IF mode = "ps1" THEN PS1CardSize ELSE ChannelBase

Sector == 0 .. (CardEnd \div DirtySize) - 1

\* Units the console wrote
Console == -1

Idle == [at |-> "idle", addr |-> 0, len |-> 0]

\* The mode is fixed while the firmware runs
Init ==
    /\ mode \in {"ps1", "ps2"}
    /\ psram = [a \in Address |-> 0]
    /\ image = [a \in 0 .. CardEnd - 1 |-> 0]
    /\ sd = image
    /\ dirty = {}
    /\ busy = FALSE /\ pending = FALSE
    /\ fw = Idle
    /\ host = [pc |-> "idle", from |-> 0, off |-> 0, to |-> 0, said |-> "none"]
    /\ calls = 0 /\ transactions = 0
-----------------------------------------------------------------------------
Lesser(a, b) == IF a < b THEN a ELSE b

\* What the console sees when psram becomes new: on a PS1 card only what
\* bridge_mark_dirty copies
ImageOf(new) == IF mode = "ps1" THEN image ELSE [a \in 0 .. CardEnd - 1 |-> new[a]]

\* Mutant: the sector of the first unit only
DirtySectorsFirst(addr, len) == (addr \div DirtySize) .. (addr \div DirtySize)

\* Mutant: one sector too many if the write ends with a sector
DirtySectorsNext(addr, len) == (addr \div DirtySize) .. ((addr + len) \div DirtySize)

\* The sectors that bridge_mark_dirty marks for a write of len > 0 units
DirtySectors(addr, len) == (addr \div DirtySize) .. ((addr + len - 1) \div DirtySize)

\* ... of which none is beyond the card
MarkLen(addr, len) ==
    IF addr >= CardEnd THEN 0 ELSE Lesser(ClampLen(addr, len), CardEnd - addr)

BeginWrite(w) ==
    /\ host.pc = "idle"
    /\ calls < MaxWrites /\ calls' = calls + 1
    /\ host' = [pc |-> "write", from |-> w.from, off |-> w.from, to |-> w.to, said |-> "none"]
    /\ UNCHANGED <<mode, psram, image, dirty, sd, busy, pending, fw, transactions>>

Chunk == Lesser(MaxPayload, host.to - host.off)

\* Mutant: the PC goes on with the next block
WriteBusySkipped ==
    /\ host.pc = "write" /\ fw.at = "idle" /\ host.off < host.to
    /\ busy
    /\ host' = [host EXCEPT !.off = host.off + Chunk]
    /\ UNCHANGED <<mode, psram, image, dirty, sd, busy, pending, fw, calls, transactions>>

\* A WRITE is refused while the console is in a transaction, ...
WriteBusy ==
    /\ host.pc = "write" /\ fw.at = "idle" /\ host.off < host.to
    /\ busy
    /\ host' = [host EXCEPT !.pc = "idle", !.said = "busy"]
    /\ UNCHANGED <<mode, psram, image, dirty, sd, busy, pending, fw, calls, transactions>>

\* ... or when all of it is in the dev channel
WriteRefused ==
    /\ host.pc = "write" /\ fw.at = "idle" /\ host.off < host.to
    /\ ~busy
    /\ ClampLen(host.off, Chunk) = 0
    /\ host' = [host EXCEPT !.pc = "idle", !.said = "error"]
    /\ UNCHANGED <<mode, psram, image, dirty, sd, busy, pending, fw, calls, transactions>>

WriteChecked ==
    /\ host.pc = "write" /\ fw.at = "idle" /\ host.off < host.to
    /\ ~busy
    /\ ClampLen(host.off, Chunk) > 0
    /\ fw' = [at |-> "store", addr |-> host.off, len |-> ClampLen(host.off, Chunk)]
    /\ UNCHANGED <<mode, psram, image, dirty, sd, busy, pending, host, calls, transactions>>

WriteStore ==
    /\ fw.at = "store"
    /\ psram' = [a \in Address |-> IF a \in fw.addr .. fw.addr + fw.len - 1 THEN calls
                                   ELSE psram[a]]
    /\ image' = ImageOf(psram')
    /\ fw' = [fw EXCEPT !.at = "mark"]
    /\ UNCHANGED <<mode, dirty, sd, busy, pending, host, calls, transactions>>

\* bridge_mark_dirty, which on a PS1 card first copies what was written; then
\* the answer
WriteMark ==
    /\ fw.at = "mark"
    /\ LET len == MarkLen(fw.addr, fw.len) IN
        /\ image' = IF mode = "ps1"
                    THEN [a \in 0 .. CardEnd - 1 |->
                            IF a \in fw.addr .. fw.addr + len - 1 THEN psram[a] ELSE image[a]]
                    ELSE image
        /\ dirty' = IF len = 0 THEN dirty ELSE dirty \union DirtySectors(fw.addr, len)
    /\ pending' = TRUE
    /\ fw' = Idle
    /\ host' = [host EXCEPT !.off = host.off + Chunk]
    /\ UNCHANGED <<mode, psram, sd, busy, calls, transactions>>

\* write_card ends with a FLUSH
Flush ==
    /\ host.pc = "write" /\ fw.at = "idle" /\ host.off >= host.to
    /\ pending' = FALSE
    /\ host' = [host EXCEPT !.pc = "idle", !.said = "flushed"]
    /\ UNCHANGED <<mode, psram, image, dirty, sd, busy, fw, calls, transactions>>

\* The len field of a packet is the length of its data, and READ has none
ReadLen == 0

\* read_block
Read ==
    /\ host.pc = "idle"
    /\ host' = [host EXCEPT !.said = IF ReadLen = 0 \/ ClampLen(0, ReadLen) = 0 THEN "unread"
                                     ELSE "read"]
    /\ UNCHANGED <<mode, psram, image, dirty, sd, busy, pending, fw, calls, transactions>>
-----------------------------------------------------------------------------
(* The rest of the firmware *)

ConsoleBegin ==
    /\ ~busy /\ busy' = TRUE
    /\ transactions < MaxConsole /\ transactions' = transactions + 1
    /\ UNCHANGED <<mode, psram, image, dirty, sd, pending, fw, host, calls>>

\* The console writes a sector of the card
ConsoleWrite ==
    /\ busy
    /\ \E s \in Sector :
        LET sector == s * DirtySize .. (s + 1) * DirtySize - 1 IN
        /\ image' = [a \in 0 .. CardEnd - 1 |-> IF a \in sector THEN Console ELSE image[a]]
        /\ psram' = IF mode = "ps1" THEN psram
                    ELSE [a \in Address |-> IF a \in sector THEN Console ELSE psram[a]]
        /\ dirty' = dirty \union {s}
    /\ UNCHANGED <<mode, sd, busy, pending, fw, host, calls, transactions>>

ConsoleEnd ==
    /\ busy /\ busy' = FALSE
    /\ UNCHANGED <<mode, psram, image, dirty, sd, pending, fw, host, calls, transactions>>

\* A dirty sector is saved, between two runs of the bridge
Save(s) ==
    /\ fw.at = "idle"
    /\ s \in dirty /\ dirty' = dirty \ {s}
    /\ sd' = [a \in 0 .. CardEnd - 1 |-> IF a \div DirtySize = s THEN image[a] ELSE sd[a]]
    /\ UNCHANGED <<mode, psram, image, busy, pending, fw, host, calls, transactions>>
-----------------------------------------------------------------------------
WriteStep == WriteBusy \/ WriteRefused \/ WriteChecked \/ WriteStore \/ WriteMark \/ Flush

Next ==
    \/ \E w \in Write : BeginWrite(w)
    \/ WriteStep \/ Read
    \/ ConsoleBegin \/ ConsoleWrite \/ ConsoleEnd
    \/ \E s \in Sector : Save(s)

Spec == Init /\ [][Next]_vars

\* The firmware gets on with a WRITE, and saves a dirty sector sooner or later
FairSpec == Spec /\ WF_vars(WriteStep) /\ \A s \in 0 .. CardSize : WF_vars(Save(s))
-----------------------------------------------------------------------------
Writer == {Console} \union 0 .. MaxWrites

\* Every variable has its type.
TypeOK ==
    /\ mode \in {"ps1", "ps2"}
    /\ psram \in [Address -> Writer]
    /\ image \in [0 .. CardEnd - 1 -> Writer] /\ sd \in [0 .. CardEnd - 1 -> Writer]
    /\ dirty \subseteq Sector
    /\ busy \in BOOLEAN /\ pending \in BOOLEAN
    /\ fw \in [at : {"idle", "store", "mark"}, addr : Address, len : 0 .. MaxPayload]
    /\ host \in [pc : {"idle", "write"}, from : 0 .. CardSize, off : 0 .. CardSize,
                 to : 0 .. CardSize,
                 said : {"none", "busy", "error", "flushed", "unread", "read"}]
    /\ calls \in 0 .. MaxWrites /\ transactions \in 0 .. MaxConsole

\* No WRITE reaches the dev channel, whatever its address and length, and no
\* sector of it is ever saved to the SD card (README.md:178).
ChannelUntouched ==
    /\ \A a \in ChannelBase .. CardSize - 1 : psram[a] = 0
    /\ \A s \in dirty : (s + 1) * DirtySize <= ChannelBase

\* What the SD card does not hold yet is marked dirty: no write of the PC or
\* the console gets lost between image and SD card.
UnsavedIsDirty ==
    \A a \in 0 .. CardEnd - 1 :
        image[a] # sd[a] => \/ a \div DirtySize \in dirty
                            \/ fw.at = "mark" /\ a \in fw.addr .. fw.addr + fw.len - 1

\* A call that reports success has put its data on the card, as far as the
\* card goes, and only the console may have written over it since.
WrittenIsOnCard ==
    host.pc = "idle" /\ host.said = "flushed" =>
        \A a \in host.from .. Lesser(host.to, CardEnd) - 1 : image[a] \in {calls, Console}

\* It reaches the SD card in the end, unless another call comes first.
WrittenIsSaved ==
    \A n \in 1 .. MaxWrites :
        host.said = "flushed" /\ calls = n
        ~> \/ calls > n
           \/ \A a \in host.from .. Lesser(host.to, CardEnd) - 1 : sd[a] \in {n, Console}
-----------------------------------------------------------------------------
(* The invariant behind the first three *)

\* The firmware is in the middle of the block the PC waits for
InBlock ==
    /\ fw.at = "idle" => fw = Idle
    /\ fw.at # "idle" =>
        /\ host.pc = "write" /\ host.off < host.to
        /\ fw.addr = host.off /\ fw.len = ClampLen(host.off, Chunk) /\ fw.len > 0
    /\ host.from <= host.off
    /\ host.pc = "write" => host.said = "none"
    /\ host.said = "flushed" => host.off >= host.to

\* On a PS2 card the console sees the PSRAM itself
Mirrored == mode = "ps2" => \A a \in 0 .. CardEnd - 1 : image[a] = psram[a]

\* What bridge_mark_dirty is to copy and to mark has been stored
BlockStored ==
    fw.at = "mark" =>
        \A a \in fw.addr .. fw.addr + fw.len - 1 : psram[a] \in {calls, Console}

\* The blocks before the one the call is at are on the card
BlocksOnCard ==
    host.pc = "write" \/ host.said = "flushed" =>
        \A a \in host.from .. Lesser(host.off, CardEnd) - 1 : image[a] \in {calls, Console}

CardInv ==
    /\ InBlock /\ ChannelUntouched /\ UnsavedIsDirty
    /\ Mirrored /\ BlockStored /\ BlocksOnCard
=============================================================================
