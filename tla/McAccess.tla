------------------------------ MODULE McAccess ------------------------------
(***************************************************************************)
(* ps2stub/mc_access.c: byte-addressed reads and writes of the memory card, *)
(* made of sector transactions.  A call may begin and end anywhere in a     *)
(* sector; a sector that is only partly written is read first, patched in   *)
(* _sector_buf and written back.  Any transaction may fail.  The firmware   *)
(* stores into the card between the transactions.                          *)
(*                                                                         *)
(* Byte i of a write is <<tag, i>>: source and destination pointers are     *)
(* checked against each other, not only the range.                         *)
(***************************************************************************)
EXTENDS Integers

CONSTANTS
    Sectors,        \* of the card
    SectorSize,     \* DEV_MC_SECTOR_SIZE
    Tag, Blank,     \* names of what is stored, and of what was there before
    Undefined,      \* what a failed read leaves in the buffer
    FirmwareApart,  \* TRUE: no store of the firmware hits a sector between the
                    \* read and the write that patches it
    MaxCalls, MaxFaults, MaxStores      \* bounds of the runs

ASSUME AccessAssumption ==
    /\ SectorSize \in Nat \ {0} /\ Sectors \in Nat
    /\ Blank \notin Tag
    /\ FirmwareApart \in BOOLEAN
    /\ {MaxCalls, MaxFaults, MaxStores} \subseteq Nat

VARIABLES
    card,           \* the bytes of the card
    call,           \* the call in progress: op, at, len, tag
    pc,             \* "idle", "loop" or "store"
    sector,         \* the current sector
    offset,         \* where in it the piece begins
    pos,            \* bytes handled: src - buf, or dst - buf
    remaining,
    sbuf,           \* _sector_buf
    dst,            \* the caller's buffer of a read
    result,         \* of the last call
    calls, faults, stores       \* counted against the bounds

loop   == <<pc, sector, offset, pos, remaining>>
bounds == <<calls, faults, stores>>
vars   == <<card, call, loop, sbuf, dst, result, bounds>>

CardBytes == SectorSize * Sectors

Addr == 0 .. CardBytes - 1

\* The address of the first byte of the current sector
Base == SectorSize * sector

InSector == 0 .. SectorSize - 1

Byte(t, i) == <<t, i>>

Garbage == [i \in InSector |-> Byte(Undefined, 0)]

Init ==
    /\ card = [a \in Addr |-> Byte(Blank, 0)]
    /\ call = [op |-> "none", at |-> 0, len |-> 0, tag |-> Blank]
    /\ pc = "idle" /\ sector = 0 /\ offset = 0 /\ pos = 0 /\ remaining = 0
    /\ sbuf = Garbage /\ dst = << >> /\ result = "none"
    /\ calls = 0 /\ faults = 0 /\ stores = 0
-----------------------------------------------------------------------------
Begin(op, at, len, tag) ==
    /\ pc = "idle"
    /\ calls < MaxCalls /\ calls' = calls + 1
    /\ at + len <= CardBytes
    /\ call' = [op |-> op, at |-> at, len |-> len, tag |-> tag]
    /\ pc' = "loop"
    /\ sector' = at \div SectorSize /\ offset' = at % SectorSize
    /\ pos' = 0 /\ remaining' = len
    /\ dst' = << >> /\ result' = "none"
    /\ UNCHANGED <<card, sbuf, faults, stores>>

\* take, put: the rest of the call, at most to the end of the sector
Part == IF SectorSize - offset > remaining THEN remaining ELSE SectorSize - offset

\* The bytes of the current sector
OnCard == [i \in InSector |-> card[Base + i]]

\* Mutant: offset is not set back after the first sector
AdvanceKeepsOffset ==
    /\ pos' = pos + Part /\ remaining' = remaining - Part
    /\ sector' = sector + 1 /\ offset' = offset
    /\ pc' = "loop"

Advance ==
    /\ pos' = pos + Part /\ remaining' = remaining - Part
    /\ sector' = sector + 1 /\ offset' = 0
    /\ pc' = "loop"

Done(res) ==
    /\ pc' = "idle" /\ result' = res
    /\ UNCHANGED <<call, sector, offset, pos, remaining, dst, calls, stores>>

\* One turn of the loop of mc_read_bytes
FetchSector ==
    /\ pc = "loop" /\ call.op = "read" /\ remaining > 0
    /\ sbuf' = OnCard
    /\ dst' = [i \in 0 .. pos + Part - 1 |->
                  IF i < pos THEN dst[i] ELSE OnCard[offset + (i - pos)]]
    /\ Advance
    /\ UNCHANGED <<card, call, result, bounds>>

\* Mutant: only a piece that ends before the end of its sector is partial
PartialAtEnd == offset + Part < SectorSize

\* Mutant: a piece that begins at the start of its sector counts as whole
PartialAtStart == offset # 0

Partial == offset # 0 \/ Part < SectorSize

\* Mutant: the sector is read for the first piece only
ReadBackOnce ==
    /\ pc = "loop" /\ call.op = "write" /\ remaining > 0
    /\ Partial
    /\ sbuf' = IF pos = 0 THEN OnCard ELSE sbuf
    /\ pc' = "store"
    /\ UNCHANGED <<card, call, sector, offset, pos, remaining, dst, result, bounds>>

\* mc_write_bytes reads a sector it will only partly change
ReadBack ==
    /\ pc = "loop" /\ call.op = "write" /\ remaining > 0
    /\ Partial
    /\ sbuf' = OnCard
    /\ pc' = "store"
    /\ UNCHANGED <<card, call, sector, offset, pos, remaining, dst, result, bounds>>

Storing ==
    \/ pc = "store"
    \/ pc = "loop" /\ call.op = "write" /\ remaining > 0 /\ ~Partial

\* memcpy(_sector_buf + offset, src, put)
Patched == [i \in InSector |->
    IF i \in offset .. offset + Part - 1 THEN Byte(call.tag, pos + (i - offset))
    ELSE sbuf[i]]

\* The card with _sector_buf in the place of the current sector
Rewritten == [a \in Addr |->
    IF a - Base \in InSector THEN Patched[a - Base] ELSE card[a]]

StoreSector ==
    /\ Storing
    /\ sbuf' = Patched
    /\ card' = Rewritten
    /\ Advance
    /\ UNCHANGED <<call, dst, result, bounds>>

Return ==
    /\ pc = "loop" /\ remaining = 0
    /\ Done("ok")
    /\ UNCHANGED <<card, sbuf, faults>>

\* mc_read_sector fails
ReadFails ==
    /\ pc = "loop" /\ remaining > 0
    /\ call.op = "read" \/ Partial
    /\ faults < MaxFaults /\ faults' = faults + 1
    /\ sbuf' = Garbage
    /\ Done("failed")
    /\ UNCHANGED card

\* mc_write_sector fails, with the sector stored or not
WriteFails ==
    /\ Storing
    /\ faults < MaxFaults /\ faults' = faults + 1
    /\ sbuf' = Patched
    /\ card' \in {card, Rewritten}
    /\ Done("failed")

\* The firmware stores a byte
FwStore(a, t) ==
    /\ stores < MaxStores /\ stores' = stores + 1
    /\ FirmwareApart => ~(pc = "store" /\ a - Base \in InSector)
    /\ card' = [card EXCEPT ![a] = Byte(t, 0)]
    /\ UNCHANGED <<call, loop, sbuf, dst, result, calls, faults>>

Step == FetchSector \/ ReadBack \/ StoreSector \/ Return

Next ==
    \/ \E at \in Addr, len \in 1 .. CardBytes :
        \/ Begin("read", at, len, Blank)
        \/ \E tag \in Tag : Begin("write", at, len, tag)
    \/ Step
    \/ ReadFails \/ WriteFails
    \/ \E a \in Addr, t \in Tag : FwStore(a, t)

Spec == Init /\ [][Next]_vars
-----------------------------------------------------------------------------
Content == (Tag \union {Blank}) \X Nat

CallType == [op : {"none", "read", "write"}, at : Nat, len : Nat, tag : Tag \union {Blank}]

\* Types, and the arithmetic of the loop: the piece handled next is at the
\* place its number in the call says, inside the card.
TypeOK ==
    /\ card \in [Addr -> Content]
    /\ call \in CallType
    /\ call.at + call.len <= CardBytes
    /\ pc \in {"idle", "loop", "store"}
    /\ sector \in Nat /\ offset \in InSector /\ pos \in Nat /\ remaining \in Nat
    /\ pos + remaining = call.len
    /\ remaining > 0 => Base + offset = call.at + pos
    /\ sbuf \in [InSector -> Content \union {Byte(Undefined, 0)}]
    /\ pc = "store" => \A i \in InSector : sbuf[i] \in Content
    /\ result \in {"none", "ok", "failed"}
    /\ calls \in Nat /\ faults \in Nat /\ stores \in Nat
    /\ pc = "store" => call.op = "write" /\ remaining > 0 /\ Partial
    /\ pc # "idle" => call.op \in {"read", "write"}

\* The copy that is about to be written back is the sector as it is, wherever
\* the call does not want to change it.
CopyIsFresh ==
    pc = "store" => \A i \in InSector : sbuf[i] = card[Base + i]

B == INSTANCE ByteStore WITH
        op   <- IF pc = "idle" THEN "none" ELSE call.op,
        at   <- call.at,
        tag  <- call.tag,
        len  <- call.len,
        todo <- remaining

\* As long as the firmware keeps out of a sector that is being patched, reads
\* and writes of sectors are reads and writes of the bytes asked for, in
\* order, and of no others, also when they fail half-way ("without caring
\* about sector boundaries", mc_access.c:8-9).
ImplementsByteStore == B!Spec
=============================================================================
