------------------------ MODULE CardTransfer_proofs ------------------------
(***************************************************************************)
(* The invariants of the card transfers, for every geometry, every set of   *)
(* ranges and every number of calls and console transactions.              *)
(***************************************************************************)
EXTENDS CardWatch, TLAPS

LEMMA Sizes ==
    /\ DirtySize \in Nat \ {0} /\ PS1CardSize \in Nat \ {0} /\ MaxPayload \in Nat \ {0}
    /\ CardSize \in Nat /\ ChannelBase \in Nat /\ ChannelBase > 0 /\ ChannelBase < CardSize
    /\ PS1CardSize <= ChannelBase
  BY GeometryAssumption, TransferAssumption DEF ChannelBase

LEMMA Division ==
    ASSUME NEW a \in Int, NEW d \in Int, d > 0
    PROVE  a = d * (a \div d) + (a % d)
  BY SMT

LEMMA NextSector ==
    ASSUME NEW k \in Int
    PROVE  /\ DirtySize * (k + 1) = DirtySize * k + DirtySize
           /\ k * DirtySize = DirtySize * k /\ (k + 1) * DirtySize = DirtySize * (k + 1)
  BY Sizes

LEMMA TimesMonotone ==
    ASSUME NEW m \in Int, NEW n \in Int, m <= n
    PROVE  DirtySize * m <= DirtySize * n
  BY Sizes

\* The sector of a unit.
LEMMA InItsSector ==
    ASSUME NEW a \in Nat
    PROVE  /\ a \div DirtySize \in Nat
           /\ DirtySize * (a \div DirtySize) <= a
           /\ a < DirtySize * (a \div DirtySize) + DirtySize
  <1>1. a % DirtySize \in 0 .. DirtySize - 1
    BY Sizes
  <1>2. a = DirtySize * (a \div DirtySize) + (a % DirtySize)
    <2>1. a \in Int /\ DirtySize \in Int /\ DirtySize > 0
      BY Sizes
    <2> QED
      BY <2>1, Division
  <1>3. a \div DirtySize \in Int
    BY Sizes
  <1>4. a \div DirtySize >= 0
    <2> SUFFICES ASSUME a \div DirtySize <= -1 PROVE FALSE
      BY <1>3
    <2>1. DirtySize * (a \div DirtySize) <= DirtySize * (-1)
      BY <1>3, TimesMonotone
    <2>2. DirtySize * (-1) = -DirtySize
      BY Sizes
    <2> QED
      BY <1>1, <1>2, <2>1, <2>2, Sizes
  <1> QED
    BY <1>1, <1>2, <1>3, <1>4, Sizes

\* There is no other sector it is in.
LEMMA OneSector ==
    ASSUME NEW a \in Nat, NEW k \in Nat,
           DirtySize * k <= a, a < DirtySize * k + DirtySize
    PROVE  a \div DirtySize = k
  <1> DEFINE q == a \div DirtySize
  <1>1. q \in Nat /\ DirtySize * q <= a /\ a < DirtySize * q + DirtySize
    BY InItsSector
  <1> HIDE DEF q
  <1>2. ~(q + 1 <= k)
    <2> SUFFICES ASSUME q + 1 <= k PROVE FALSE
      OBVIOUS
    <2>1. DirtySize * (q + 1) <= DirtySize * k
      BY <1>1, TimesMonotone
    <2> QED
      BY <1>1, <2>1, NextSector, Sizes
  <1>3. ~(k + 1 <= q)
    <2> SUFFICES ASSUME k + 1 <= q PROVE FALSE
      OBVIOUS
    <2>1. DirtySize * (k + 1) <= DirtySize * q
      BY <1>1, TimesMonotone
    <2> QED
      BY <1>1, <2>1, NextSector, Sizes
  <1>4. q = k
    BY <1>1, <1>2, <1>3
  <1> QED
    BY <1>4 DEF q

LEMMA SectorsInOrder ==
    ASSUME NEW a \in Nat, NEW b \in Nat, a <= b
    PROVE  a \div DirtySize <= b \div DirtySize
  <1> DEFINE p == a \div DirtySize
             q == b \div DirtySize
  <1>1. /\ p \in Nat /\ DirtySize * p <= a
        /\ q \in Nat /\ b < DirtySize * q + DirtySize
    BY InItsSector
  <1> HIDE DEF p, q
  <1>2. ~(q + 1 <= p)
    <2> SUFFICES ASSUME q + 1 <= p PROVE FALSE
      OBVIOUS
    <2>1. DirtySize * (q + 1) <= DirtySize * p
      BY <1>1, TimesMonotone
    <2> QED
      BY <1>1, <2>1, NextSector, Sizes
  <1>3. p <= q
    BY <1>1, <1>2
  <1> QED
    BY <1>3 DEF p, q

\* Both cards are made of whole sectors.
LEMMA WholeSectors ==
    ASSUME mode \in {"ps1", "ps2"}
    PROVE  /\ CardEnd \in Nat /\ CardEnd > 0 /\ CardEnd <= ChannelBase
           /\ CardEnd \div DirtySize \in Nat
           /\ CardEnd = DirtySize * (CardEnd \div DirtySize)
  <1>1. CardEnd \in Nat /\ CardEnd > 0 /\ CardEnd <= ChannelBase
    BY Sizes DEF CardEnd
  <1>2. CardEnd % DirtySize = 0
    BY TransferAssumption DEF CardEnd
  <1>3. CardEnd = DirtySize * (CardEnd \div DirtySize) + (CardEnd % DirtySize)
    <2>1. CardEnd \in Int /\ DirtySize \in Int /\ DirtySize > 0
      BY <1>1, Sizes
    <2> QED
      BY <2>1, Division
  <1>4. CardEnd \div DirtySize \in Nat
    BY <1>1, InItsSector
  <1> QED
    BY <1>1, <1>2, <1>3, <1>4, Sizes

LEMMA SectorOfUnit ==
    ASSUME mode \in {"ps1", "ps2"}, NEW a \in 0 .. CardEnd - 1
    PROVE  a \div DirtySize \in Sector
  <1> DEFINE q == a \div DirtySize
             n == CardEnd \div DirtySize
  <1>1. /\ a \in Nat /\ a < CardEnd
        /\ q \in Nat /\ DirtySize * q <= a
        /\ n \in Nat /\ CardEnd = DirtySize * n /\ CardEnd \in Nat
    BY WholeSectors, InItsSector
  <1> HIDE DEF q, n
  <1>2. ~(n <= q)
    <2> SUFFICES ASSUME n <= q PROVE FALSE
      OBVIOUS
    <2>1. DirtySize * n <= DirtySize * q
      BY <1>1, TimesMonotone
    <2> QED
      BY <1>1, <2>1, Sizes
  <1>3. q \in 0 .. n - 1
    BY <1>1, <1>2
  <1> QED
    BY <1>3 DEF q, n, Sector

LEMMA SectorOnCard ==
    ASSUME mode \in {"ps1", "ps2"}, NEW s \in Sector
    PROVE  /\ s \in Nat /\ (s + 1) * DirtySize <= CardEnd
           /\ \A a \in s * DirtySize .. (s + 1) * DirtySize - 1 :
                  a \in Nat /\ a < CardEnd /\ a \div DirtySize = s
  <1> DEFINE n == CardEnd \div DirtySize
  <1>1. n \in Nat /\ CardEnd = DirtySize * n /\ CardEnd \in Nat
    BY WholeSectors
  <1>2. s \in Nat /\ s + 1 <= n
    BY <1>1 DEF Sector
  <1> HIDE DEF n
  <1>3. DirtySize * (s + 1) <= DirtySize * n
    BY <1>1, <1>2, TimesMonotone
  <1>4. /\ s * DirtySize = DirtySize * s /\ DirtySize * s \in Nat
        /\ (s + 1) * DirtySize = DirtySize * s + DirtySize
        /\ DirtySize * s + DirtySize <= CardEnd
    BY <1>1, <1>2, <1>3, NextSector, Sizes
  <1>5. ASSUME NEW a \in s * DirtySize .. (s + 1) * DirtySize - 1
        PROVE  a \in Nat /\ a < CardEnd /\ a \div DirtySize = s
    <2>1. a \in Nat /\ DirtySize * s <= a /\ a < DirtySize * s + DirtySize
      BY <1>1, <1>4, <1>5, Sizes
    <2>2. a \div DirtySize = s
      BY <1>2, <2>1, OneSector
    <2> QED
      BY <1>1, <1>4, <2>1, <2>2, Sizes
  <1> QED
    BY <1>1, <1>2, <1>4, <1>5
-----------------------------------------------------------------------------
\* The part of a range below the channel.
LEMMA Clamped ==
    ASSUME NEW addr \in Nat, NEW len \in Nat
    PROVE  /\ ClampLen(addr, len) \in 0 .. len
           /\ ClampLen(addr, len) > 0 =>
                addr < ChannelBase /\ addr + ClampLen(addr, len) <= ChannelBase
           /\ \/ ClampLen(addr, len) = len
              \/ addr + ClampLen(addr, len) = ChannelBase
              \/ addr >= ChannelBase
  BY Sizes DEF ClampLen, Overlaps

\* What bridge_mark_dirty copies and marks is the part of the block on the card.
LEMMA Marked ==
    ASSUME mode \in {"ps1", "ps2"}, NEW addr \in Nat, NEW len \in Nat,
           addr + len <= ChannelBase
    PROVE  /\ MarkLen(addr, len) \in 0 .. len
           /\ MarkLen(addr, len) > 0 => addr + MarkLen(addr, len) <= CardEnd
           /\ \A a \in addr .. addr + len - 1 :
                  a < CardEnd => a \in addr .. addr + MarkLen(addr, len) - 1
  <1>1. CardEnd \in Nat /\ CardEnd <= ChannelBase /\ ChannelBase \in Nat
    BY WholeSectors, Sizes
  <1>2. ClampLen(addr, len) = len \/ len = 0
    BY <1>1, Sizes DEF ClampLen, Overlaps
  <1>3. len = 0 => ClampLen(addr, len) = 0
    BY Clamped
  <1>4. ClampLen(addr, len) = len
    BY <1>2, <1>3
  <1> QED
    BY <1>1, <1>4 DEF MarkLen, Lesser

\* The sectors it marks are those of these units.
LEMMA MarkedSectors ==
    ASSUME mode \in {"ps1", "ps2"}, NEW addr \in Nat, NEW len \in Nat \ {0},
           addr + len <= CardEnd
    PROVE  /\ DirtySectors(addr, len) \subseteq Sector
           /\ \A a \in addr .. addr + len - 1 : a \div DirtySize \in DirtySectors(addr, len)
  <1> DEFINE last == addr + len - 1
  <1>1. last \in Nat /\ last \in 0 .. CardEnd - 1 /\ addr <= last /\ CardEnd \in Nat
    BY WholeSectors
  <1>2. last \div DirtySize \in Sector
    BY <1>1, SectorOfUnit
  <1>3. addr \div DirtySize \in Nat /\ last \div DirtySize \in Nat
    BY <1>1, InItsSector
  <1>4. DirtySectors(addr, len) = (addr \div DirtySize) .. (last \div DirtySize)
    BY DEF DirtySectors
  <1>5. DirtySectors(addr, len) \subseteq Sector
    <2>1. CardEnd \div DirtySize \in Nat
      BY WholeSectors
    <2> HIDE DEF last
    <2> QED
      BY <1>2, <1>3, <1>4, <2>1 DEF Sector
  <1>6. ASSUME NEW a \in addr .. last
        PROVE  a \div DirtySize \in DirtySectors(addr, len)
    <2>1. a \in Nat /\ addr <= a /\ a <= last
      BY <1>1
    <2>2. /\ a \div DirtySize \in Nat
          /\ addr \div DirtySize <= a \div DirtySize
          /\ a \div DirtySize <= last \div DirtySize
      BY <1>1, <2>1, InItsSector, SectorsInOrder
    <2> QED
      BY <1>3, <1>4, <2>2
  <1> QED
    BY <1>5, <1>6
-----------------------------------------------------------------------------
\* What the steps below know of the block the call is at.
LEMMA ChunkFacts ==
    ASSUME TypeOK, host.off < host.to
    PROVE  /\ host.off \in Nat /\ host.to \in 0 .. CardSize
           /\ Chunk \in 1 .. MaxPayload /\ host.off + Chunk <= host.to
           /\ ClampLen(host.off, Chunk) \in 0 .. Chunk
  <1>1. host.off \in Nat /\ host.to \in 0 .. CardSize
    BY Sizes DEF TypeOK
  <1>2. Chunk \in 1 .. MaxPayload /\ host.off + Chunk <= host.to
    BY <1>1, Sizes DEF Chunk, Lesser
  <1> QED
    BY <1>1, <1>2, Clamped

LEMMA BlockFacts ==
    ASSUME TypeOK, InBlock, fw.at # "idle"
    PROVE  /\ host.pc = "write" /\ host.off < host.to /\ host.from <= host.off
           /\ fw.addr \in Nat /\ fw.len \in Nat \ {0} /\ fw.addr + fw.len <= ChannelBase
           /\ fw.addr = host.off /\ fw.len = ClampLen(host.off, Chunk)
  <1>1. /\ host.pc = "write" /\ host.off < host.to /\ host.from <= host.off
        /\ fw.addr = host.off /\ fw.len = ClampLen(host.off, Chunk) /\ fw.len > 0
    BY DEF InBlock
  <1>2. host.off \in Nat /\ Chunk \in Nat
    BY <1>1, ChunkFacts
  <1> QED
    BY <1>1, <1>2, Clamped

LEMMA TransferInit == Init => TypeOK /\ CardInv
  <1> SUFFICES ASSUME Init PROVE TypeOK /\ CardInv
    OBVIOUS
  <1>1. /\ mode \in {"ps1", "ps2"}
        /\ psram = [a \in Address |-> 0]
        /\ image = [a \in 0 .. CardEnd - 1 |-> 0] /\ sd = image
        /\ dirty = {} /\ busy = FALSE /\ pending = FALSE
        /\ fw = [at |-> "idle", addr |-> 0, len |-> 0]
        /\ host = [pc |-> "idle", from |-> 0, off |-> 0, to |-> 0, said |-> "none"]
        /\ calls = 0 /\ transactions = 0
    BY DEF Init, Idle
  <1>2. CardEnd \in Nat /\ CardEnd <= ChannelBase
    BY <1>1, WholeSectors
  <1>3. TypeOK
    <2>1. 0 \in Address /\ 0 \in 0 .. CardSize /\ 0 \in 0 .. MaxPayload
      BY Sizes DEF Address
    <2>2. 0 \in 0 .. MaxWrites /\ 0 \in 0 .. MaxConsole /\ 0 \in Writer
      BY TransferAssumption DEF Writer
    <2>3. /\ fw \in [at : {"idle", "store", "mark"}, addr : Address, len : 0 .. MaxPayload]
          /\ host \in [pc : {"idle", "write"}, from : 0 .. CardSize, off : 0 .. CardSize,
                       to : 0 .. CardSize,
                       said : {"none", "busy", "error", "flushed", "unread", "read"}]
      BY <1>1, <2>1
    <2>4. /\ psram \in [Address -> Writer]
          /\ image \in [0 .. CardEnd - 1 -> Writer] /\ sd \in [0 .. CardEnd - 1 -> Writer]
      BY <1>1, <2>2
    <2> QED
      BY <1>1, <2>2, <2>3, <2>4 DEF TypeOK
  <1>4. InBlock
    BY <1>1 DEF InBlock, Idle
  <1>5. Mirrored
    BY <1>1, <1>2, Sizes DEF Mirrored, Address
  <1>6. ChannelUntouched /\ UnsavedIsDirty /\ BlockStored /\ BlocksOnCard
    BY <1>1, Sizes DEF ChannelUntouched, UnsavedIsDirty, BlockStored, BlocksOnCard, Address
  <1> QED
    BY <1>3, <1>4, <1>5, <1>6 DEF CardInv

LEMMA SameCard ==
    ASSUME mode' = mode
    PROVE  CardEnd' = CardEnd /\ Sector' = Sector
  BY DEF CardEnd, Sector

\* The steps that change only where the PC and the firmware are.
LEMMA TalkStep ==
    ASSUME TypeOK, CardInv,
           \/ \E w \in Write : BeginWrite(w)
           \/ WriteBusy \/ WriteRefused \/ WriteChecked \/ Flush \/ Read
           \/ ConsoleBegin \/ ConsoleEnd \/ UNCHANGED vars
    PROVE  TypeOK' /\ CardInv'
  <1>1. UNCHANGED <<mode, psram, image, dirty, sd>>
    BY DEF BeginWrite, WriteBusy, WriteRefused, WriteChecked, Flush, Read,
           ConsoleBegin, ConsoleEnd, vars
  <1>2. CardEnd' = CardEnd /\ Sector' = Sector
    BY <1>1, SameCard
  <1> DEFINE HostType == [pc : {"idle", "write"}, from : 0 .. CardSize, off : 0 .. CardSize,
                          to : 0 .. CardSize,
                          said : {"none", "busy", "error", "flushed", "unread", "read"}]
             FwType == [at : {"idle", "store", "mark"}, addr : Address, len : 0 .. MaxPayload]
  <1>3. host \in HostType /\ fw \in FwType /\ mode \in {"ps1", "ps2"}
    BY DEF TypeOK
  <1>4. InBlock /\ UnsavedIsDirty /\ BlockStored /\ BlocksOnCard
    BY DEF CardInv
  <1>5. Mirrored' /\ ChannelUntouched'
    BY <1>1, <1>2 DEF CardInv, Mirrored, ChannelUntouched
  <1>6. SUFFICES /\ busy' \in BOOLEAN /\ pending' \in BOOLEAN
                 /\ fw' \in FwType /\ host' \in HostType
                 /\ calls' \in 0 .. MaxWrites /\ transactions' \in 0 .. MaxConsole
                 /\ InBlock' /\ UnsavedIsDirty' /\ BlockStored' /\ BlocksOnCard'
    BY <1>1, <1>2, <1>5 DEF TypeOK, CardInv
  <1>7. UNCHANGED fw => UnsavedIsDirty'
    BY <1>1, <1>2, <1>4 DEF UnsavedIsDirty
  <1>8. CASE \E w \in Write : BeginWrite(w)
    <2>1. PICK w \in Write : BeginWrite(w)
      BY <1>8
    <2>2. /\ host' = [pc |-> "write", from |-> w.from, off |-> w.from, to |-> w.to,
                      said |-> "none"]
          /\ host.pc = "idle" /\ UNCHANGED <<fw, busy, pending, transactions>>
          /\ calls < MaxWrites /\ calls' = calls + 1
      BY <2>1 DEF BeginWrite
    <2>3. w.from \in 0 .. CardSize /\ w.to \in 0 .. CardSize
      BY TransferAssumption
    <2>4. host' \in HostType
      BY <2>2, <2>3
    <2>5. calls' \in 0 .. MaxWrites
      BY <2>2, TransferAssumption DEF TypeOK
    <2>6. InBlock'
      BY <1>4, <2>2, <2>3, Sizes DEF InBlock
    <2>7. BlocksOnCard'
      <3>1. \A a \in w.from .. Lesser(w.from, CardEnd) - 1 : FALSE
        BY <1>3, <2>3, WholeSectors, Sizes DEF Lesser
      <3> QED
        BY <1>2, <2>2, <3>1 DEF BlocksOnCard, Lesser
    <2>8. BlockStored'
      BY <1>4, <2>2 DEF BlockStored, InBlock
    <2> QED
      BY <1>7, <2>2, <2>4, <2>5, <2>6, <2>7, <2>8 DEF TypeOK
  <1>9. CASE WriteBusy \/ WriteRefused \/ Read
    <2>1. /\ host' \in HostType
          /\ host'.pc = "idle" /\ host'.said \in {"busy", "error", "unread", "read"}
          /\ host'.from = host.from /\ host'.off = host.off
          /\ UNCHANGED <<fw, busy, pending, calls, transactions>>
          /\ fw.at = "idle"
      BY <1>3, <1>4, <1>9 DEF WriteBusy, WriteRefused, Read, InBlock
    <2>2. InBlock' /\ BlocksOnCard' /\ BlockStored'
      BY <1>4, <2>1 DEF InBlock, BlocksOnCard, BlockStored
    <2> QED
      BY <1>7, <2>1, <2>2 DEF TypeOK
  <1>10. CASE Flush
    <2>1. /\ host' = [host EXCEPT !.pc = "idle", !.said = "flushed"]
          /\ host.pc = "write" /\ fw.at = "idle" /\ host.off >= host.to
          /\ pending' = FALSE /\ UNCHANGED <<fw, busy, calls, transactions>>
      BY <1>10 DEF Flush
    <2>2. host' \in HostType /\ InBlock' /\ BlockStored'
      BY <1>3, <1>4, <2>1 DEF InBlock, BlockStored
    <2>3. BlocksOnCard'
      BY <1>1, <1>2, <1>3, <1>4, <2>1 DEF BlocksOnCard, Lesser
    <2> QED
      BY <1>7, <2>1, <2>2, <2>3 DEF TypeOK
  <1>11. CASE WriteChecked
    <2>1. /\ host.pc = "write" /\ fw.at = "idle" /\ host.off < host.to
          /\ ClampLen(host.off, Chunk) > 0
          /\ fw' = [at |-> "store", addr |-> host.off, len |-> ClampLen(host.off, Chunk)]
          /\ UNCHANGED <<host, busy, pending, calls, transactions>>
      BY <1>11 DEF WriteChecked
    <2>2. /\ host.off \in Nat /\ Chunk \in 1 .. MaxPayload
          /\ ClampLen(host.off, Chunk) \in 0 .. Chunk
      BY <2>1, ChunkFacts
    <2>3. host.off < ChannelBase
      <3>1. Chunk \in Nat
        BY <2>2, Sizes
      <3> QED
        BY <2>1, <2>2, <3>1, Clamped
    <2>4. fw' \in FwType
      <3>1. host.off \in Address
        BY <2>2, <2>3, Sizes DEF Address
      <3>2. ClampLen(host.off, Chunk) \in 0 .. MaxPayload
        BY <2>2, Sizes
      <3> QED
        BY <2>1, <3>1, <3>2
    <2>5. InBlock'
      <3>1. Chunk' = Chunk
        BY <2>1 DEF Chunk
      <3> QED
        BY <1>4, <2>1, <3>1 DEF InBlock, ClampLen, Overlaps
    <2>6. UnsavedIsDirty'
      BY <1>1, <1>2, <1>4, <2>1 DEF UnsavedIsDirty
    <2>7. BlockStored' /\ BlocksOnCard'
      BY <1>1, <1>2, <1>4, <2>1 DEF BlockStored, BlocksOnCard, Lesser
    <2> QED
      BY <1>3, <2>1, <2>4, <2>5, <2>6, <2>7 DEF TypeOK
  <1>12. CASE ConsoleBegin \/ ConsoleEnd \/ UNCHANGED vars
    <2>1. /\ UNCHANGED <<fw, host, calls, pending>>
          /\ \/ transactions' = transactions
             \/ transactions < MaxConsole /\ transactions' = transactions + 1
      BY <1>12 DEF ConsoleBegin, ConsoleEnd, vars
    <2>0. busy' \in BOOLEAN
      <3>1. busy' \in {TRUE, FALSE, busy}
        BY <1>12 DEF ConsoleBegin, ConsoleEnd, vars
      <3>2. busy \in BOOLEAN
        BY DEF TypeOK
      <3> QED
        BY <3>1, <3>2
    <2>2. transactions' \in 0 .. MaxConsole
      BY <2>1, TransferAssumption DEF TypeOK
    <2>3. InBlock'
      BY <1>4, <2>1 DEF InBlock, ClampLen, Overlaps, Chunk
    <2>4. BlockStored' /\ BlocksOnCard'
      BY <1>1, <1>2, <1>4, <2>1 DEF BlockStored, BlocksOnCard, Lesser
    <2> QED
      BY <1>7, <2>0, <2>1, <2>2, <2>3, <2>4 DEF TypeOK
  <1> QED
    BY <1>8, <1>9, <1>10, <1>11, <1>12

\* psram_write: the block is stored, and on a PS2 card the console sees it.
LEMMA StoreStep ==
    ASSUME TypeOK, CardInv, WriteStore
    PROVE  TypeOK' /\ CardInv'
  <1> DEFINE Block == fw.addr .. fw.addr + fw.len - 1
  <1>1. /\ fw.at = "store" /\ fw' = [fw EXCEPT !.at = "mark"]
        /\ psram' = [a \in Address |-> IF a \in Block THEN calls ELSE psram[a]]
        /\ image' = ImageOf(psram')
        /\ UNCHANGED <<mode, dirty, sd, busy, pending, host, calls, transactions>>
    BY DEF WriteStore
  <1>2. CardEnd' = CardEnd /\ Sector' = Sector
    BY <1>1, SameCard
  <1>3. /\ mode \in {"ps1", "ps2"} /\ psram \in [Address -> Writer]
        /\ image \in [0 .. CardEnd - 1 -> Writer]
        /\ fw \in [at : {"idle", "store", "mark"}, addr : Address, len : 0 .. MaxPayload]
    BY DEF TypeOK
  <1>4. InBlock /\ UnsavedIsDirty /\ ChannelUntouched /\ Mirrored /\ BlocksOnCard
    BY DEF CardInv
  <1>5. /\ host.pc = "write" /\ fw.addr \in Nat /\ fw.len \in Nat \ {0}
        /\ fw.addr + fw.len <= ChannelBase /\ fw.addr = host.off
    BY <1>1, <1>4, BlockFacts
  <1>6. /\ CardEnd \in Nat /\ CardEnd <= ChannelBase /\ ChannelBase \in Nat
        /\ 0 .. CardEnd - 1 \subseteq Address /\ CardSize \in Nat
    BY <1>3, WholeSectors, Sizes DEF Address
  <1>7. calls \in Writer
    BY DEF TypeOK, Writer
  <1>8. psram' \in [Address -> Writer]
    BY <1>1, <1>3, <1>7
  <1>9. image' \in [0 .. CardEnd - 1 -> Writer]
    BY <1>1, <1>3, <1>6, <1>8 DEF ImageOf
  <1>10. fw' \in [at : {"idle", "store", "mark"}, addr : Address, len : 0 .. MaxPayload]
         /\ fw'.at = "mark" /\ fw'.addr = fw.addr /\ fw'.len = fw.len
    BY <1>1, <1>3
  <1>11. TypeOK'
    BY <1>1, <1>2, <1>8, <1>9, <1>10 DEF TypeOK
  <1>12. InBlock'
    BY <1>1, <1>4, <1>10 DEF InBlock, ClampLen, Overlaps, Chunk
  <1>13. ASSUME NEW a \in 0 .. CardEnd - 1
         PROVE  /\ mode = "ps1" => image'[a] = image[a]
                /\ mode = "ps2" => image'[a] = psram'[a]
                /\ a \notin Block => image'[a] = image[a]
                /\ mode = "ps2" /\ a \in Block => image'[a] = calls
    <2>1. CASE mode = "ps1"
      BY <1>1, <2>1 DEF ImageOf
    <2>2. CASE mode = "ps2"
      <3>1. a \in Address
        BY <1>6
      <3>2. image'[a] = psram'[a]
        BY <1>1, <2>2 DEF ImageOf
      <3>3. psram'[a] = IF a \in Block THEN calls ELSE psram[a]
        BY <1>1, <3>1
      <3>4. image[a] = psram[a]
        BY <1>4, <2>2 DEF Mirrored
      <3> QED
        BY <2>2, <3>2, <3>3, <3>4
    <2> QED
      BY <1>3, <2>1, <2>2
  <1>14. ChannelUntouched'
    <2>1. ASSUME NEW a \in ChannelBase .. CardSize - 1
          PROVE  psram'[a] = 0
      <3>1. a \in Address /\ a \notin Block
        BY <1>5, <1>6 DEF Address
      <3> QED
        BY <1>1, <1>4, <3>1 DEF ChannelUntouched
    <2> QED
      BY <1>1, <1>4, <2>1 DEF ChannelUntouched
  <1>15. UnsavedIsDirty'
    <2> SUFFICES ASSUME NEW a \in 0 .. CardEnd - 1, image'[a] # sd[a]
                 PROVE  a \div DirtySize \in dirty \/ a \in Block
      BY <1>1, <1>2, <1>10 DEF UnsavedIsDirty
    <2>1. CASE a \notin Block
      BY <1>1, <1>4, <1>13, <2>1 DEF UnsavedIsDirty
    <2> QED
      BY <2>1
  <1>16. Mirrored'
    BY <1>1, <1>2, <1>13 DEF Mirrored
  <1>17. BlockStored'
    <2>1. ASSUME NEW a \in Block
          PROVE  psram'[a] = calls
      <3>1. a \in Address
        BY <1>5, <1>6, Sizes DEF Address
      <3> QED
        BY <1>1, <3>1
    <2> QED
      BY <1>1, <1>10, <2>1 DEF BlockStored
  <1>18. BlocksOnCard'
    <2> SUFFICES ASSUME NEW a \in host.from .. Lesser(host.off, CardEnd) - 1
                 PROVE  image'[a] \in {calls, Console}
      BY <1>1, <1>2 DEF BlocksOnCard, Lesser
    <2>1. a \in 0 .. CardEnd - 1 /\ a < host.off
      <3>1. host.from \in Nat /\ host.off \in Nat
        BY Sizes DEF TypeOK
      <3> QED
        BY <1>6, <3>1 DEF Lesser
    <2>2. image[a] \in {calls, Console}
      BY <1>4, <1>5 DEF BlocksOnCard
    <2>3. a \notin Block
      BY <1>5, <2>1
    <2> QED
      BY <1>13, <2>1, <2>2, <2>3
  <1> QED
    BY <1>11, <1>12, <1>14, <1>15, <1>16, <1>17, <1>18 DEF CardInv

\* bridge_mark_dirty: every sector of the block on the card is marked.
LEMMA MarkStep ==
    ASSUME TypeOK, CardInv, WriteMark
    PROVE  TypeOK' /\ CardInv'
  <1> DEFINE len == MarkLen(fw.addr, fw.len)
             Block == fw.addr .. fw.addr + fw.len - 1
             Part == fw.addr .. fw.addr + len - 1
  <1>1. /\ fw.at = "mark" /\ fw' = Idle /\ pending' = TRUE
        /\ image' = IF mode = "ps1"
                    THEN [a \in 0 .. CardEnd - 1 |-> IF a \in Part THEN psram[a] ELSE image[a]]
                    ELSE image
        /\ dirty' = IF len = 0 THEN dirty ELSE dirty \union DirtySectors(fw.addr, len)
        /\ host' = [host EXCEPT !.off = host.off + Chunk]
        /\ UNCHANGED <<mode, psram, sd, busy, calls, transactions>>
    BY DEF WriteMark
  <1>2. CardEnd' = CardEnd /\ Sector' = Sector
    BY <1>1, SameCard
  <1>3. /\ mode \in {"ps1", "ps2"} /\ psram \in [Address -> Writer]
        /\ image \in [0 .. CardEnd - 1 -> Writer] /\ dirty \subseteq Sector
        /\ host \in [pc : {"idle", "write"}, from : 0 .. CardSize, off : 0 .. CardSize,
                     to : 0 .. CardSize,
                     said : {"none", "busy", "error", "flushed", "unread", "read"}]
    BY DEF TypeOK
  <1>4. /\ InBlock /\ UnsavedIsDirty /\ ChannelUntouched
        /\ Mirrored /\ BlockStored /\ BlocksOnCard
    BY DEF CardInv
  <1>5. /\ host.pc = "write" /\ host.off < host.to /\ host.from <= host.off
        /\ fw.addr \in Nat /\ fw.len \in Nat \ {0} /\ fw.addr + fw.len <= ChannelBase
        /\ fw.addr = host.off /\ fw.len = ClampLen(host.off, Chunk)
    BY <1>1, <1>4, BlockFacts
  <1>6. /\ CardEnd \in Nat /\ CardEnd <= ChannelBase /\ ChannelBase \in Nat
        /\ 0 .. CardEnd - 1 \subseteq Address /\ CardSize \in Nat
    BY <1>3, WholeSectors, Sizes DEF Address
  <1>7. /\ host.off \in Nat /\ host.to \in 0 .. CardSize
        /\ Chunk \in 1 .. MaxPayload /\ host.off + Chunk <= host.to
    BY <1>5, ChunkFacts
  <1>8. /\ len \in 0 .. fw.len /\ (len > 0 => fw.addr + len <= CardEnd)
        /\ \A a \in Block : a < CardEnd => a \in Part
    BY <1>3, <1>5, Marked
  <1>9. len > 0 => /\ DirtySectors(fw.addr, len) \subseteq Sector
                   /\ \A a \in Part : a \div DirtySize \in DirtySectors(fw.addr, len)
    BY <1>3, <1>5, <1>8, MarkedSectors
  <1> HIDE DEF len
  <1>10. image' \in [0 .. CardEnd - 1 -> Writer]
    BY <1>1, <1>3, <1>6
  <1>11. dirty' \subseteq Sector
    BY <1>1, <1>3, <1>8, <1>9
  <1>12. /\ host' \in [pc : {"idle", "write"}, from : 0 .. CardSize, off : 0 .. CardSize,
                       to : 0 .. CardSize,
                       said : {"none", "busy", "error", "flushed", "unread", "read"}]
         /\ host'.pc = "write" /\ host'.from = host.from /\ host'.to = host.to
         /\ host'.off = host.off + Chunk /\ host'.said = host.said
    <2>1. host.off + Chunk \in 0 .. CardSize
      BY <1>6, <1>7, Sizes
    <2> QED
      BY <1>1, <1>3, <1>5, <2>1
  <1>13. fw' \in [at : {"idle", "store", "mark"}, addr : Address, len : 0 .. MaxPayload]
         /\ fw'.at = "idle"
    <2>1. 0 \in Address /\ 0 \in 0 .. MaxPayload
      BY Sizes DEF Address
    <2> QED
      BY <1>1, <2>1 DEF Idle
  <1>14. TypeOK'
    BY <1>1, <1>2, <1>10, <1>11, <1>12, <1>13 DEF TypeOK
  <1>15. InBlock'
    <2>1. host'.from <= host'.off
      BY <1>3, <1>5, <1>7, <1>12, Sizes
    <2> QED
      BY <1>1, <1>4, <1>5, <1>12, <1>13, <2>1 DEF InBlock, Idle
  <1>16. ASSUME NEW a \in 0 .. CardEnd - 1
         PROVE  /\ a \notin Part => image'[a] = image[a]
                /\ a \in Block => image'[a] = psram[a] /\ psram[a] \in {calls, Console}
    <2>1. a \in Block => a \in Part /\ psram[a] \in {calls, Console}
      BY <1>1, <1>4, <1>8, <1>6 DEF BlockStored
    <2>2. CASE mode = "ps1"
      BY <1>1, <2>1, <2>2
    <2>3. CASE mode = "ps2"
      <3>1. image'[a] = image[a] /\ image[a] = psram[a]
        BY <1>1, <1>4, <2>3 DEF Mirrored
      <3> QED
        BY <2>1, <3>1
    <2> QED
      BY <1>3, <2>2, <2>3
  <1>17. ChannelUntouched'
    <2> SUFFICES ASSUME NEW s \in dirty'
                 PROVE  (s + 1) * DirtySize <= ChannelBase
      BY <1>1, <1>4 DEF ChannelUntouched
    <2>1. s \in Sector
      BY <1>11
    <2>2. s \in Nat /\ (s + 1) * DirtySize <= CardEnd
      BY <1>3, <2>1, SectorOnCard
    <2>3. (s + 1) * DirtySize \in Int
      BY <2>2, Sizes
    <2> QED
      BY <1>6, <2>2, <2>3
  <1>18. UnsavedIsDirty'
    <2> SUFFICES ASSUME NEW a \in 0 .. CardEnd - 1, image'[a] # sd[a]
                 PROVE  a \div DirtySize \in dirty'
      BY <1>1, <1>2 DEF UnsavedIsDirty
    <2>1. CASE a \in Part
      <3>1. len > 0
        BY <1>5, <1>8, <2>1
      <3> QED
        BY <1>1, <1>9, <2>1, <3>1
    <2>2. CASE a \notin Part
      <3>1. image[a] # sd[a] /\ a \notin Block
        BY <1>8, <1>16, <2>2, <1>6
      <3>2. a \div DirtySize \in dirty
        BY <1>4, <3>1 DEF UnsavedIsDirty
      <3> QED
        BY <1>1, <3>2
    <2> QED
      BY <2>1, <2>2
  <1>19. Mirrored'
    BY <1>1, <1>2, <1>4 DEF Mirrored
  <1>20. BlockStored'
    BY <1>13 DEF BlockStored
  <1>21. BlocksOnCard'
    <2> SUFFICES ASSUME NEW a \in host.from .. Lesser(host.off + Chunk, CardEnd) - 1
                 PROVE  image'[a] \in {calls, Console}
      BY <1>1, <1>2, <1>12 DEF BlocksOnCard, Lesser
    <2>1. /\ a \in 0 .. CardEnd - 1 /\ a < host.off + Chunk /\ a < CardEnd /\ a >= host.from
          /\ host.from \in Nat
      <3>1. host.from \in Nat
        BY <1>3, Sizes
      <3> QED
        BY <1>6, <1>7, <3>1, Sizes DEF Lesser
    <2>2. CASE a < host.off
      <3>1. a \in host.from .. Lesser(host.off, CardEnd) - 1
        BY <1>6, <1>7, <2>1, <2>2 DEF Lesser
      <3>2. image[a] \in {calls, Console}
        BY <1>4, <1>5, <3>1 DEF BlocksOnCard
      <3>3. a \notin Part
        BY <1>5, <1>8, <2>1, <2>2
      <3> QED
        BY <1>16, <2>1, <3>2, <3>3
    <2>3. CASE a >= host.off
      <3>1. Chunk \in Nat /\ host.off + fw.len <= ChannelBase
        BY <1>5, <1>7, Sizes
      <3>2. \/ fw.len = Chunk
            \/ host.off + fw.len = ChannelBase
        <4>1. \/ ClampLen(host.off, Chunk) = Chunk
              \/ host.off + ClampLen(host.off, Chunk) = ChannelBase
              \/ host.off >= ChannelBase
          BY <1>7, <3>1, Clamped
        <4> QED
          BY <1>5, <1>6, <1>7, <3>1, <4>1
      <3>3. a \in Block
        BY <1>5, <1>6, <1>7, <2>1, <2>3, <3>1, <3>2
      <3> QED
        BY <1>16, <2>1, <3>3
    <2> QED
      BY <1>7, <2>1, <2>2, <2>3
  <1> QED
    BY <1>14, <1>15, <1>17, <1>18, <1>19, <1>20, <1>21 DEF CardInv

\* The console writes a sector of the card, and it is marked.
LEMMA ConsoleStep ==
    ASSUME TypeOK, CardInv, ConsoleWrite
    PROVE  TypeOK' /\ CardInv'
  <1>1. PICK s \in Sector :
            LET units == s * DirtySize .. (s + 1) * DirtySize - 1 IN
            /\ image' = [a \in 0 .. CardEnd - 1 |-> IF a \in units THEN Console ELSE image[a]]
            /\ psram' = IF mode = "ps1" THEN psram
                        ELSE [a \in Address |-> IF a \in units THEN Console ELSE psram[a]]
            /\ dirty' = dirty \union {s}
    BY DEF ConsoleWrite
  <1> DEFINE Units == s * DirtySize .. (s + 1) * DirtySize - 1
  <1>2. UNCHANGED <<mode, sd, busy, pending, fw, host, calls, transactions>>
    BY DEF ConsoleWrite
  <1>3. CardEnd' = CardEnd /\ Sector' = Sector
    BY <1>2, SameCard
  <1>4. /\ mode \in {"ps1", "ps2"} /\ psram \in [Address -> Writer]
        /\ image \in [0 .. CardEnd - 1 -> Writer] /\ dirty \subseteq Sector
    BY DEF TypeOK
  <1>5. /\ InBlock /\ UnsavedIsDirty /\ ChannelUntouched
        /\ Mirrored /\ BlockStored /\ BlocksOnCard
    BY DEF CardInv
  <1>6. /\ CardEnd \in Nat /\ CardEnd <= ChannelBase /\ ChannelBase \in Nat
        /\ 0 .. CardEnd - 1 \subseteq Address /\ CardSize \in Nat
    BY <1>4, WholeSectors, Sizes DEF Address
  <1>7. /\ s \in Nat /\ (s + 1) * DirtySize <= CardEnd
        /\ \A a \in Units : a \in Nat /\ a < CardEnd /\ a \div DirtySize = s
    BY <1>4, SectorOnCard
  <1> HIDE DEF Units
  <1>8. /\ image' = [a \in 0 .. CardEnd - 1 |-> IF a \in Units THEN Console ELSE image[a]]
        /\ psram' = IF mode = "ps1" THEN psram
                    ELSE [a \in Address |-> IF a \in Units THEN Console ELSE psram[a]]
        /\ dirty' = dirty \union {s}
    BY <1>1 DEF Units
  <1>9. Console \in Writer
    BY DEF Writer
  <1>10. TypeOK'
    <2>1. /\ image' \in [0 .. CardEnd - 1 -> Writer] /\ psram' \in [Address -> Writer]
          /\ dirty' \subseteq Sector
      BY <1>4, <1>8, <1>9
    <2> QED
      BY <1>2, <1>3, <2>1 DEF TypeOK
  <1>11. InBlock'
    BY <1>2, <1>5 DEF InBlock, ClampLen, Overlaps, Chunk
  <1>12. \A a \in Address : psram'[a] \in {psram[a], Console}
                            /\ (a \notin Units => psram'[a] = psram[a])
    BY <1>4, <1>8
  <1>13. ChannelUntouched'
    <2>1. ASSUME NEW a \in ChannelBase .. CardSize - 1
          PROVE  psram'[a] = 0
      <3>1. a \in Address /\ a \notin Units
        BY <1>6, <1>7 DEF Address
      <3>2. psram[a] = 0
        BY <1>5 DEF ChannelUntouched
      <3> QED
        BY <1>12, <3>1, <3>2
    <2>2. (s + 1) * DirtySize <= ChannelBase
      <3>1. (s + 1) * DirtySize \in Int
        BY <1>7, Sizes
      <3> QED
        BY <1>6, <1>7, <3>1
    <2> QED
      BY <1>5, <1>8, <2>1, <2>2 DEF ChannelUntouched
  <1>14. UnsavedIsDirty'
    BY <1>2, <1>3, <1>5, <1>7, <1>8 DEF UnsavedIsDirty
  <1>15. Mirrored'
    <2> SUFFICES ASSUME mode = "ps2", NEW a \in 0 .. CardEnd - 1
                 PROVE  image'[a] = psram'[a]
      BY <1>2, <1>3 DEF Mirrored
    <2>1. image[a] = psram[a] /\ a \in Address
      BY <1>5, <1>6 DEF Mirrored
    <2> QED
      BY <1>8, <2>1
  <1>16. BlockStored'
    <2> SUFFICES ASSUME fw.at = "mark", NEW a \in fw.addr .. fw.addr + fw.len - 1
                 PROVE  psram'[a] \in {calls, Console}
      BY <1>2 DEF BlockStored
    <2>1. a \in Address
      <3>1. fw.addr \in Nat /\ fw.len \in Nat /\ fw.addr + fw.len <= ChannelBase
        BY <1>5, BlockFacts
      <3> QED
        BY <1>6, <3>1, Sizes DEF Address
    <2>2. psram[a] \in {calls, Console}
      BY <1>5 DEF BlockStored
    <2> QED
      BY <1>12, <2>1, <2>2
  <1>17. BlocksOnCard'
    <2> SUFFICES ASSUME host.pc = "write" \/ host.said = "flushed",
                        NEW a \in host.from .. Lesser(host.off, CardEnd) - 1
                 PROVE  image'[a] \in {calls, Console}
      BY <1>2, <1>3 DEF BlocksOnCard, Lesser
    <2>1. image[a] \in {calls, Console}
      BY <1>5 DEF BlocksOnCard
    <2>2. a \in 0 .. CardEnd - 1
      <3>1. host.from \in Nat /\ host.off \in Nat
        BY Sizes DEF TypeOK
      <3> QED
        BY <1>6, <3>1 DEF Lesser
    <2> QED
      BY <1>8, <2>1, <2>2
  <1> QED
    BY <1>10, <1>11, <1>13, <1>14, <1>15, <1>16, <1>17 DEF CardInv

\* A sector is saved as it is.
LEMMA SaveStep ==
    ASSUME TypeOK, CardInv, NEW s \in Sector, Save(s)
    PROVE  TypeOK' /\ CardInv'
  <1>1. /\ fw.at = "idle" /\ s \in dirty /\ dirty' = dirty \ {s}
        /\ sd' = [a \in 0 .. CardEnd - 1 |-> IF a \div DirtySize = s THEN image[a] ELSE sd[a]]
        /\ UNCHANGED <<mode, psram, image, busy, pending, fw, host, calls, transactions>>
    BY DEF Save
  <1>2. CardEnd' = CardEnd /\ Sector' = Sector
    BY <1>1, SameCard
  <1>3. /\ InBlock /\ UnsavedIsDirty /\ ChannelUntouched
        /\ Mirrored /\ BlockStored /\ BlocksOnCard
    BY DEF CardInv
  <1>4. TypeOK'
    <2>1. sd' \in [0 .. CardEnd - 1 -> Writer] /\ dirty' \subseteq Sector
      BY <1>1 DEF TypeOK
    <2> QED
      BY <1>1, <1>2, <2>1 DEF TypeOK
  <1>5. UnsavedIsDirty'
    <2> SUFFICES ASSUME NEW a \in 0 .. CardEnd - 1, image[a] # sd'[a]
                 PROVE  a \div DirtySize \in dirty'
      BY <1>1, <1>2 DEF UnsavedIsDirty
    <2>1. a \div DirtySize # s /\ image[a] # sd[a]
      BY <1>1
    <2> QED
      BY <1>1, <1>3, <2>1 DEF UnsavedIsDirty
  <1>6. ChannelUntouched' /\ Mirrored' /\ BlockStored' /\ BlocksOnCard'
    BY <1>1, <1>2, <1>3 DEF ChannelUntouched, Mirrored, BlockStored, BlocksOnCard, Lesser
  <1>7. InBlock'
    BY <1>1, <1>3 DEF InBlock, ClampLen, Overlaps, Chunk
  <1> QED
    BY <1>4, <1>5, <1>6, <1>7 DEF CardInv
-----------------------------------------------------------------------------
\* The invariant of the card transfers, and with it the types (usb_bridge.c:
\* 183-219, :333-367, sd2psx_bridge.py:258-275).
THEOREM TransferInvariant == Spec => [](TypeOK /\ CardInv)
  <1>1. TypeOK /\ CardInv /\ [Next]_vars => (TypeOK /\ CardInv)'
    <2> SUFFICES ASSUME TypeOK, CardInv, [Next]_vars
                 PROVE  TypeOK' /\ CardInv'
      OBVIOUS
    <2>1. CASE WriteStep
      BY <2>1, TalkStep, StoreStep, MarkStep DEF WriteStep
    <2>2. CASE \E s \in Sector : Save(s)
      BY <2>2, SaveStep
    <2>3. CASE ConsoleWrite
      BY <2>3, ConsoleStep
    <2>4. CASE (\E w \in Write : BeginWrite(w)) \/ Read \/ ConsoleBegin \/ ConsoleEnd
               \/ UNCHANGED vars
      BY <2>4, TalkStep
    <2> QED
      BY <2>1, <2>2, <2>3, <2>4 DEF Next
  <1> QED
    BY <1>1, TransferInit, PTL DEF Spec

\* No WRITE reaches the dev channel, no unit that the SD card lacks is left
\* unmarked, and a call that reports success has put its data on the card, for
\* every card, block and sector size and every range (usb_bridge.c:183-219).
THEOREM TransferCorrect == Spec => [](ChannelUntouched /\ UnsavedIsDirty /\ WrittenIsOnCard)
  <1>1. TypeOK /\ CardInv => ChannelUntouched /\ UnsavedIsDirty /\ WrittenIsOnCard
    <2> SUFFICES ASSUME TypeOK, CardInv, host.said = "flushed",
                        NEW a \in host.from .. Lesser(host.to, CardEnd) - 1
                 PROVE  image[a] \in {calls, Console}
      BY DEF CardInv, WrittenIsOnCard
    <2>1. /\ host.from \in Int /\ host.off \in Int /\ host.to \in Int
          /\ CardEnd \in Nat /\ host.off >= host.to
      BY WholeSectors, Sizes DEF TypeOK, CardInv, InBlock
    <2>2. a \in host.from .. Lesser(host.off, CardEnd) - 1
      BY <2>1 DEF Lesser
    <2> QED
      BY <2>2 DEF CardInv, BlocksOnCard
  <1> QED
    BY <1>1, TransferInvariant, PTL

\* The watch command writes the card with calls like any other: what is proved
\* of the transfers holds while it runs (sd2psx_cli.py:74-98).
THEOREM WatchIsTransfer == WatchSpec => Spec
  <1>1. WatchInit => Init
    BY DEF WatchInit
  <1>2. [WatchNext]_allVars => [Next]_vars
    BY DEF WatchNext, WatchStep, Edit, Notice, Open, Pushed, allVars, vars, Next
  <1> QED
    BY <1>1, <1>2, PTL DEF WatchSpec, Spec
=============================================================================
