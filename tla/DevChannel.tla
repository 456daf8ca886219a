----------------------------- MODULE DevChannel -----------------------------
(***************************************************************************)
(* Geometry of the dev channel, the region at the top of the PSRAM image   *)
(* that the PC and the PS2 share (firmware/dev_channel.h), and the pure     *)
(* functions of that header.  Sizes are in abstract units: the header and  *)
(* a sector are 32 and 512 bytes in the code, 1 and 2 units in the runs.   *)
(***************************************************************************)
EXTENDS Integers

CONSTANTS
    CardSize,       \* PS2_CARD_SIZE: the whole PSRAM image
    ChannelSize,    \* DEV_CHANNEL_SIZE: reserved at the top of the image
    HeaderSize,     \* DEV_OFF_ELF_DATA: the header in front of the staging area
    RingSize,       \* DEV_STDOUT_RING_SIZE
    SectorSize      \* DEV_MC_SECTOR_SIZE: unit of every access of the PS2

\* DEV_CHANNEL_BASE
ChannelBase == CardSize - ChannelSize

\* DEV_ELF_MAX_SIZE
ElfMaxSize == ChannelSize - HeaderSize - RingSize

\* DEV_ADDR_STDOUT_RING, relative to the channel
RingOffset == HeaderSize + ElfMaxSize

\* What the layout relies on: the header is shorter than a sector, so that
\* staging bytes share its sector, and the ring starts on a sector of its own.
ASSUME GeometryAssumption ==
    /\ {CardSize, ChannelSize, HeaderSize, RingSize, SectorSize} \subseteq Nat \ {0}
    /\ ChannelSize < CardSize
    /\ HeaderSize < SectorSize
    /\ HeaderSize + RingSize < ChannelSize
    /\ ChannelBase % SectorSize = 0
    /\ RingOffset % SectorSize = 0

\* dev_channel_overlaps
Overlaps(addr, len) == addr + len > ChannelBase

\* Mutant: a range that begins below the channel is not shortened
ClampLenStart(addr, len) == IF addr >= ChannelBase THEN 0 ELSE len

\* dev_channel_clamp_len: the part of [addr, addr + len) below the channel
ClampLen(addr, len) ==
    IF addr >= ChannelBase THEN 0
    ELSE IF Overlaps(addr, len) THEN ChannelBase - addr
    ELSE len

\* Bytes between the drain pointer and the write pointer of the ring, as
\* dev_stdout_pull and CMD_DEV_STATUS compute them
Available(head, tail) ==
    IF head >= tail THEN head - tail ELSE RingSize - tail + head
=============================================================================
