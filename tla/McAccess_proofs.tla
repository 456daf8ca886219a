--------------------------- MODULE McAccess_proofs ---------------------------
(***************************************************************************)
(* Theorems about McAccess, for every size of sector and of card, every     *)
(* sequence of calls and every pattern of failures: the arithmetic of the   *)
(* loops stays in bounds, and as long as the firmware keeps out of a        *)
(* sector that is being patched, sector accesses are byte accesses.        *)
(***************************************************************************)
EXTENDS McAccess, TLAPS

LEMMA Sizes == SectorSize \in Nat \ {0} /\ Sectors \in Nat /\ CardBytes \in Nat
  BY AccessAssumption DEF CardBytes

LEMMA NextBase ==
    ASSUME NEW k \in Int
    PROVE  SectorSize * (k + 1) = SectorSize * k + SectorSize
  BY Sizes

LEMMA TimesMonotone ==
    ASSUME NEW m \in Int, NEW n \in Int, m <= n
    PROVE  SectorSize * m <= SectorSize * n
  BY Sizes

LEMMA Division ==
    ASSUME NEW a \in Int, NEW d \in Int, d > 0
    PROVE  a = d * (a \div d) + (a % d)
  BY SMT

\* An address, as a sector and an offset in it.
LEMMA SplitAddress ==
    ASSUME NEW a \in Nat
    PROVE  /\ a \div SectorSize \in Nat /\ a % SectorSize \in InSector
           /\ SectorSize * (a \div SectorSize) + (a % SectorSize) = a
  <1>1. a % SectorSize \in 0 .. SectorSize - 1
    BY Sizes
  <1>2. a = SectorSize * (a \div SectorSize) + (a % SectorSize)
    <2>1. a \in Int /\ SectorSize \in Int /\ SectorSize > 0
      BY Sizes
    <2> QED
      BY <2>1, Division
  <1>3. a \div SectorSize \in Int
    BY Sizes
  <1>4. a \div SectorSize >= 0
    <2> SUFFICES ASSUME a \div SectorSize <= -1 PROVE FALSE
      BY <1>3
    <2>1. SectorSize * (a \div SectorSize) <= SectorSize * (-1)
      BY <1>3, TimesMonotone
    <2>2. SectorSize * (-1) = -SectorSize
      BY Sizes
    <2> QED
      BY <1>1, <1>2, <1>3, <2>1, <2>2, Sizes
  <1> QED
    BY <1>1, <1>2, <1>3, <1>4 DEF InSector

\* A sector that begins on the card ends on it.
LEMMA WholeSectors ==
    ASSUME NEW k \in Nat, SectorSize * k < CardBytes
    PROVE  SectorSize * k + SectorSize <= CardBytes
  <1>1. k < Sectors
    <2> SUFFICES ASSUME Sectors <= k PROVE CardBytes <= SectorSize * k
      BY Sizes
    <2> QED
      BY Sizes, TimesMonotone DEF CardBytes
  <1>2. SectorSize * (k + 1) <= SectorSize * Sectors
    BY <1>1, Sizes, TimesMonotone
  <1> QED
    BY <1>2, NextBase DEF CardBytes

\* What the steps below know of the piece that is handled next.
LEMMA PieceFacts ==
    ASSUME TypeOK, remaining > 0
    PROVE  /\ Base \in Nat /\ Base + SectorSize <= CardBytes
           /\ \A k \in InSector : Base + k \in Addr
           /\ Part \in 1 .. remaining /\ offset + Part <= SectorSize
           /\ offset \in InSector /\ InSector = 0 .. SectorSize - 1
           /\ pos \in Nat /\ remaining \in Nat /\ call.at \in Nat /\ call.len \in Nat
           /\ Base + offset = call.at + pos /\ pos + remaining = call.len
           /\ remaining > Part => offset + Part = SectorSize
           /\ call.at + pos + Part <= CardBytes
  <1>1. /\ offset \in 0 .. SectorSize - 1 /\ pos \in Nat /\ remaining \in Nat
        /\ call.at \in Nat /\ call.len \in Nat /\ call.at + call.len <= CardBytes
        /\ sector \in Nat
        /\ Base + offset = call.at + pos /\ pos + remaining = call.len
    BY DEF TypeOK, CallType, InSector
  <1>2. Base \in Nat
    BY <1>1, Sizes DEF Base
  <1>3. Base + SectorSize <= CardBytes
    <2>1. Base < CardBytes
      BY <1>1, <1>2, Sizes
    <2> QED
      BY <1>1, <2>1, WholeSectors DEF Base
  <1>4. /\ Part \in 1 .. remaining /\ offset + Part <= SectorSize
        /\ remaining > Part => offset + Part = SectorSize
    BY <1>1, Sizes DEF Part
  <1>5. \A k \in InSector : Base + k \in Addr
    BY <1>2, <1>3, Sizes DEF InSector, Addr
  <1>6. call.at + pos + Part <= CardBytes
    BY <1>1, <1>4, Sizes
  <1> QED
    BY <1>1, <1>2, <1>3, <1>4, <1>5, <1>6 DEF InSector

\* The arithmetic of one turn of a loop.
LEMMA AdvanceType ==
    ASSUME TypeOK, remaining > 0, Advance
    PROVE  /\ pos' \in Nat /\ remaining' \in Nat /\ pos' + remaining' = call.len
           /\ sector' \in Nat /\ offset' \in InSector /\ pc' = "loop"
           /\ remaining' > 0 => Base' + offset' = call.at + pos'
  <1>1. sector \in Nat /\ 0 \in InSector /\ Base' = SectorSize * sector'
    BY Sizes DEF TypeOK, InSector, Base
  <1>2. Base' = Base + SectorSize
    BY <1>1, NextBase DEF Advance, Base
  <1>3. sector' \in Nat /\ offset' = 0 /\ offset' \in InSector /\ pc' = "loop"
    BY <1>1 DEF Advance
  <1>4. Part \in 1 .. remaining /\ pos' = pos + Part /\ remaining' = remaining - Part
    BY PieceFacts DEF Advance
  <1>5. pos' \in Nat /\ remaining' \in Nat /\ pos' + remaining' = call.len
    <2>1. pos \in Nat /\ remaining \in Nat /\ pos + remaining = call.len
      BY PieceFacts
    <2> QED
      BY <1>4, <2>1
  <1>6. ASSUME remaining' > 0 PROVE Base' + offset' = call.at + pos'
    <2>1. remaining > Part
      BY <1>4, <1>6, PieceFacts
    <2> QED
      BY <1>2, <1>3, <1>4, <2>1, PieceFacts, Sizes
  <1> QED
    BY <1>3, <1>5, <1>6

LEMMA CardContent ==
    ASSUME TypeOK, remaining > 0
    PROVE  OnCard \in [InSector -> Content]
  <1>1. \A k \in InSector : card[Base + k] \in Content
    BY PieceFacts DEF TypeOK
  <1> QED
    BY <1>1 DEF OnCard

LEMMA PatchedType ==
    ASSUME TypeOK, Storing
    PROVE  remaining > 0 /\ Patched \in [InSector -> Content] /\ Rewritten \in [Addr -> Content]
  <1>1. remaining > 0
    BY DEF TypeOK, Storing
  <1>2. ASSUME NEW k \in InSector, k \in offset .. offset + Part - 1
        PROVE  Byte(call.tag, pos + (k - offset)) \in Content
    <2>1. pos + (k - offset) \in Nat
      BY <1>1, <1>2, PieceFacts
    <2>2. call.tag \in Tag \union {Blank}
      BY DEF TypeOK, CallType
    <2> QED
      BY <2>1, <2>2 DEF Byte, Content
  <1>3. ASSUME NEW k \in InSector, k \notin offset .. offset + Part - 1
        PROVE  sbuf[k] \in Content
    <2>1. pc = "store"
      <3> SUFFICES ASSUME ~Partial PROVE FALSE
        BY DEF Storing
      <3>1. offset = 0 /\ Part = SectorSize
        BY <1>1, PieceFacts, Sizes DEF Partial
      <3> QED
        BY <1>3, <3>1, Sizes DEF InSector
    <2> QED
      BY <2>1 DEF TypeOK
  <1>4. Patched \in [InSector -> Content]
    BY <1>2, <1>3 DEF Patched
  <1>5. Rewritten \in [Addr -> Content]
    BY <1>4 DEF Rewritten, TypeOK
  <1> QED
    BY <1>1, <1>4, <1>5
-----------------------------------------------------------------------------
LEMMA TypeInit == Init => TypeOK
  <1> SUFFICES ASSUME Init PROVE TypeOK
    OBVIOUS
  <1>1. card \in [Addr -> Content]
    BY DEF Init, Byte, Content
  <1>2. sbuf \in [InSector -> Content \union {Byte(Undefined, 0)}]
    BY DEF Init, Garbage
  <1>3. call \in CallType /\ call.at + call.len <= CardBytes /\ call.at = 0 /\ call.len = 0
    BY Sizes DEF Init, CallType
  <1> QED
    BY <1>1, <1>2, <1>3, Sizes, AccessAssumption DEF Init, TypeOK, InSector

LEMMA BeginType ==
    ASSUME TypeOK, NEW op \in {"read", "write"}, NEW at \in Addr, NEW len \in 1 .. CardBytes,
           NEW tag \in Tag \union {Blank}, Begin(op, at, len, tag)
    PROVE  TypeOK'
  <1>1. at \in Nat /\ len \in Nat /\ at + len <= CardBytes
    BY Sizes DEF Addr, Begin
  <1>2. call' \in CallType /\ call'.op = op /\ call'.at = at /\ call'.len = len
    BY <1>1 DEF Begin, CallType
  <1>3. /\ sector' \in Nat /\ offset' \in InSector /\ pos' = 0 /\ remaining' = len
        /\ Base' + offset' = at
    <2>1. Base' = SectorSize * sector'
      BY DEF Base
    <2>2. /\ sector' = at \div SectorSize /\ offset' = at % SectorSize
          /\ pos' = 0 /\ remaining' = len
      BY DEF Begin
    <2>3. /\ sector' \in Nat /\ offset' \in InSector
          /\ SectorSize * sector' + offset' = at
      BY <1>1, <2>2, SplitAddress
    <2> QED
      BY <2>1, <2>2, <2>3
  <1>4. Base' + offset' = call'.at + pos'
    BY <1>1, <1>2, <1>3
  <1> QED
    BY <1>1, <1>2, <1>3, <1>4, AccessAssumption DEF TypeOK, Begin

LEMMA StepType ==
    ASSUME TypeOK, [Next]_vars
    PROVE  TypeOK'
  <1>1. ASSUME NEW at \in Addr, NEW len \in 1 .. CardBytes,
               \/ Begin("read", at, len, Blank)
               \/ \E tag \in Tag : Begin("write", at, len, tag)
        PROVE  TypeOK'
    BY <1>1, BeginType
  <1>2. CASE FetchSector
    <2>1. OnCard \in [InSector -> Content]
      BY <1>2, CardContent DEF FetchSector
    <2>2. sbuf' \in [InSector -> Content \union {Byte(Undefined, 0)}]
      BY <1>2, <2>1 DEF FetchSector
    <2> QED
      BY <1>2, <2>2, AdvanceType DEF FetchSector, TypeOK, bounds
  <1>3. CASE ReadBack
    <2>1. OnCard \in [InSector -> Content]
      BY <1>3, CardContent DEF ReadBack
    <2>2. /\ sbuf' \in [InSector -> Content \union {Byte(Undefined, 0)}]
          /\ \A k \in InSector : sbuf'[k] \in Content
      BY <1>3, <2>1 DEF ReadBack
    <2>3. Part' = Part /\ Base' = Base /\ Partial'
      BY <1>3 DEF ReadBack, Part, Base, Partial
    <2> QED
      BY <1>3, <2>2, <2>3 DEF ReadBack, TypeOK, bounds
  <1>4. CASE StoreSector
    <2>1. /\ remaining > 0 /\ Patched \in [InSector -> Content]
          /\ Rewritten \in [Addr -> Content]
      BY <1>4, PatchedType DEF StoreSector
    <2>2. /\ sbuf' \in [InSector -> Content \union {Byte(Undefined, 0)}]
          /\ card' \in [Addr -> Content]
      BY <1>4, <2>1 DEF StoreSector
    <2>3. call.op \in {"read", "write"}
      BY <1>4 DEF StoreSector, Storing, TypeOK
    <2> QED
      BY <1>4, <2>1, <2>2, <2>3, AdvanceType DEF StoreSector, TypeOK, bounds
  <1>5. CASE Return
    BY <1>5 DEF Return, Done, TypeOK, Base
  <1>6. CASE ReadFails
    <2>1. sbuf' \in [InSector -> Content \union {Byte(Undefined, 0)}]
      BY <1>6 DEF ReadFails, Garbage
    <2> QED
      BY <1>6, <2>1 DEF ReadFails, Done, TypeOK, Base
  <1>7. CASE WriteFails
    <2>1. /\ Patched \in [InSector -> Content] /\ Rewritten \in [Addr -> Content]
      BY <1>7, PatchedType DEF WriteFails
    <2>2. /\ sbuf' \in [InSector -> Content \union {Byte(Undefined, 0)}]
          /\ card' \in [Addr -> Content]
      BY <1>7, <2>1 DEF WriteFails, TypeOK
    <2> QED
      BY <1>7, <2>2 DEF WriteFails, Done, TypeOK, Base
  <1>8. ASSUME NEW a \in Addr, NEW t \in Tag, FwStore(a, t)
        PROVE  TypeOK'
    <2>1. card' \in [Addr -> Content]
      BY <1>8 DEF FwStore, TypeOK, Byte, Content
    <2> QED
      BY <1>8, <2>1 DEF FwStore, TypeOK, Base, Part, Partial, loop
  <1>9. CASE UNCHANGED vars
    BY <1>9 DEF vars, loop, bounds, TypeOK, Base, Part, Partial
  <1> QED
    BY <1>1, <1>2, <1>3, <1>4, <1>5, <1>6, <1>7, <1>8, <1>9 DEF Next, Step

\* The loops of mc_read_bytes and mc_write_bytes never leave the range of the
\* call, nor the sector buffer, nor the card.
THEOREM AccessTypeCorrect == Spec => []TypeOK
  BY TypeInit, StepType, PTL DEF Spec
-----------------------------------------------------------------------------
LEMMA FreshStep ==
    ASSUME FirmwareApart, TypeOK, CopyIsFresh, [Next]_vars
    PROVE  CopyIsFresh'
  <1>1. CASE ReadBack
    BY <1>1 DEF ReadBack, CopyIsFresh, OnCard, Base
  <1>2. ASSUME NEW a \in Addr, NEW t \in Tag, FwStore(a, t)
        PROVE  CopyIsFresh'
    <2> SUFFICES ASSUME pc' = "store", NEW k \in InSector
                 PROVE  sbuf'[k] = card'[Base' + k]
      BY DEF CopyIsFresh
    <2>1. pc = "store" /\ Base' = Base /\ sbuf' = sbuf
      BY <1>2 DEF FwStore, loop, Base
    <2>2. remaining > 0
      BY <2>1 DEF TypeOK
    <2>3. Base \in Nat /\ Base + k \in Addr /\ k \in Int
      BY <2>2, PieceFacts, Sizes DEF InSector
    <2>4. a - Base \notin InSector /\ a \in Int
      BY <1>2, <2>1 DEF FwStore, Addr
    <2>5. a # Base + k
      BY <2>3, <2>4
    <2>6. card'[Base + k] = card[Base + k]
      BY <1>2, <2>3, <2>5 DEF FwStore, TypeOK
    <2> QED
      BY <2>1, <2>6 DEF CopyIsFresh
  <1>3. CASE UNCHANGED vars
    BY <1>3 DEF vars, loop, CopyIsFresh, Base
  <1>4. CASE FetchSector \/ StoreSector \/ Return \/ ReadFails \/ WriteFails
    BY <1>4 DEF FetchSector, StoreSector, Return, ReadFails, WriteFails, Advance, Done,
                CopyIsFresh
  <1>5. ASSUME NEW at \in Addr, NEW len \in 1 .. CardBytes,
               \/ Begin("read", at, len, Blank)
               \/ \E tag \in Tag : Begin("write", at, len, tag)
        PROVE  CopyIsFresh'
    BY <1>5 DEF Begin, CopyIsFresh
  <1> QED
    BY <1>1, <1>2, <1>3, <1>4, <1>5 DEF Next, Step

\* A store of the firmware into a sector under way is the only thing that can
\* make mc_write_bytes write back what is no longer there.
THEOREM CopyStaysFresh ==
    ASSUME FirmwareApart
    PROVE  Spec => []CopyIsFresh
  <1>1. Init => CopyIsFresh
    BY DEF Init, CopyIsFresh
  <1>2. TypeOK /\ CopyIsFresh /\ [Next]_vars => CopyIsFresh'
    BY FreshStep
  <1> QED
    BY <1>1, <1>2, AccessTypeCorrect, PTL DEF Spec
-----------------------------------------------------------------------------
LEMMA BeginRefines ==
    ASSUME NEW op \in {"read", "write"}, NEW at \in Addr, NEW len \in 1 .. CardBytes,
           NEW tag \in Tag \union {Blank}, Begin(op, at, len, tag)
    PROVE  B!Next
  <1>1. B!Begin(op, at, len, tag)
    BY DEF Begin, B!Begin
  <1>2. at + len <= CardBytes /\ at \in B!Addr
    BY DEF Begin, B!Addr, Addr
  <1> QED
    BY <1>1, <1>2 DEF B!Next

LEMMA FetchRefines ==
    ASSUME TypeOK, FetchSector
    PROVE  B!FetchPiece
  <1>1. remaining > 0
    BY DEF FetchSector
  <1>2. call.len - remaining = pos /\ Part \in 1 .. remaining
    BY <1>1, PieceFacts
  <1>3. ASSUME NEW k \in 0 .. pos + Part - 1, ~(k < pos)
        PROVE  OnCard[offset + (k - pos)] = card[call.at + k]
    <2>1. /\ pos \in Nat /\ offset \in Nat /\ Base \in Nat /\ call.at \in Nat
          /\ Base + offset = call.at + pos /\ offset + Part <= SectorSize
      BY <1>1, PieceFacts
    <2>2. offset + (k - pos) \in InSector /\ Base + (offset + (k - pos)) = call.at + k
      BY <1>2, <1>3, <2>1, Sizes DEF InSector
    <2> QED
      BY <2>2 DEF OnCard
  <1>4. dst' = [k \in 0 .. pos + Part - 1 |-> IF k < pos THEN dst[k] ELSE card[call.at + k]]
    BY <1>3 DEF FetchSector
  <1>5. /\ pc = "loop" /\ pc' = "loop" /\ call.op = "read" /\ remaining' = remaining - Part
        /\ UNCHANGED <<card, call, result>>
    BY DEF FetchSector, Advance
  <1> QED
    BY <1>2, <1>4, <1>5 DEF B!FetchPiece

\* The sector as it is written back differs from the card in the piece only.
LEMMA RewritesPiece ==
    ASSUME TypeOK, CopyIsFresh, Storing
    PROVE  /\ Part \in 1 .. remaining
           /\ Rewritten = B!Stored(Part)
  <1>1. remaining > 0
    BY DEF TypeOK, Storing
  <1>2. /\ pos \in Nat /\ offset \in InSector /\ Base \in Nat /\ call.at \in Nat
        /\ Base + offset = call.at + pos /\ offset + Part <= SectorSize
        /\ call.len - remaining = pos /\ Part \in 1 .. remaining /\ remaining \in Nat
    BY <1>1, PieceFacts
  <1>3. B!Piece(Part) = call.at + pos .. call.at + pos + Part - 1
    BY <1>2 DEF B!Piece
  <1>4. ASSUME NEW a \in Addr
        PROVE  Rewritten[a] = IF a \in B!Piece(Part) THEN Byte(call.tag, a - call.at) ELSE card[a]
    <2>1. a \in Int
      BY <1>4 DEF Addr
    <2>2. CASE a \in B!Piece(Part)
      <3>1. /\ a - Base \in InSector /\ a - Base \in offset .. offset + Part - 1
            /\ pos + ((a - Base) - offset) = a - call.at
        BY <1>2, <1>3, <2>1, <2>2, Sizes DEF InSector
      <3> QED
        BY <2>2, <3>1 DEF Rewritten, Patched
    <2>3. CASE a \notin B!Piece(Part) /\ a - Base \in InSector
      <3>1. a - Base \notin offset .. offset + Part - 1 /\ Base + (a - Base) = a
        BY <1>2, <1>3, <2>1, <2>3, Sizes DEF InSector
      <3>2. pc = "store"
        <4> SUFFICES ASSUME ~Partial PROVE FALSE
          BY DEF Storing
        <4>1. offset = 0 /\ Part = SectorSize
          BY <1>2, Sizes DEF Partial, InSector
        <4> QED
          BY <2>3, <3>1, <4>1, Sizes DEF InSector
      <3>3. sbuf[a - Base] = card[a]
        BY <2>3, <3>1, <3>2 DEF CopyIsFresh
      <3> QED
        BY <2>3, <3>1, <3>3 DEF Rewritten, Patched
    <2>4. CASE a \notin B!Piece(Part) /\ a - Base \notin InSector
      BY <2>4 DEF Rewritten
    <2> QED
      BY <2>2, <2>3, <2>4
  <1> QED
    BY <1>2, <1>4 DEF Rewritten, B!Stored, B!Addr, Addr, B!Byte, Byte

LEMMA StoreRefines ==
    ASSUME TypeOK, CopyIsFresh, StoreSector
    PROVE  B!StorePiece
  <1>1. Storing /\ card' = Rewritten
    BY DEF StoreSector
  <1>2. Part \in 1 .. remaining /\ card' = B!Stored(Part)
    BY <1>1, RewritesPiece
  <1>3. /\ pc # "idle" /\ pc' = "loop" /\ call.op = "write" /\ remaining' = remaining - Part
        /\ UNCHANGED <<call, dst, result>>
    BY <1>1 DEF StoreSector, Advance, Storing, TypeOK
  <1> QED
    BY <1>2, <1>3 DEF B!StorePiece

LEMMA WriteFailRefines ==
    ASSUME TypeOK, CopyIsFresh, WriteFails
    PROVE  B!Fail
  <1>1. Storing /\ card' \in {card, Rewritten}
    BY DEF WriteFails
  <1>2. Part \in 1 .. remaining /\ card' \in {card, B!Stored(Part)}
    BY <1>1, RewritesPiece
  <1>3. /\ pc # "idle" /\ pc' = "idle" /\ call.op = "write" /\ result' = "failed"
        /\ UNCHANGED <<call, remaining, dst>>
    BY <1>1 DEF WriteFails, Done, Storing, TypeOK
  <1> QED
    BY <1>2, <1>3 DEF B!Fail

LEMMA ByteStoreStep ==
    ASSUME TypeOK, CopyIsFresh, [Next]_vars
    PROVE  [B!Next]_(B!vars)
  <1>1. ASSUME NEW at \in Addr, NEW len \in 1 .. CardBytes,
               \/ Begin("read", at, len, Blank)
               \/ \E tag \in Tag : Begin("write", at, len, tag)
        PROVE  B!Next
    BY <1>1, BeginRefines
  <1>2. CASE FetchSector
    BY <1>2, FetchRefines DEF B!Next
  <1>3. CASE ReadBack
    BY <1>3 DEF ReadBack, B!vars
  <1>4. CASE StoreSector
    BY <1>4, StoreRefines DEF B!Next
  <1>5. CASE Return
    <2>1. call.op # "none"
      BY <1>5 DEF Return, TypeOK
    <2> QED
      BY <1>5, <2>1 DEF Return, Done, B!Next, B!Succeed
  <1>6. CASE ReadFails
    <2>1. call.op # "none"
      BY <1>6 DEF ReadFails, TypeOK
    <2> QED
      BY <1>6, <2>1 DEF ReadFails, Done, B!Next, B!Fail
  <1>7. CASE WriteFails
    BY <1>7, WriteFailRefines DEF B!Next
  <1>8. ASSUME NEW a \in Addr, NEW t \in Tag, FwStore(a, t)
        PROVE  B!Next
    <2>1. B!FwStore
      BY <1>8 DEF FwStore, loop, B!FwStore, B!Addr, Addr, B!Byte, Byte
    <2> QED
      BY <2>1 DEF B!Next
  <1>9. CASE UNCHANGED vars
    BY <1>9 DEF vars, loop, B!vars
  <1> QED
    BY <1>1, <1>2, <1>3, <1>4, <1>5, <1>6, <1>7, <1>8, <1>9 DEF Next, Step

\* For every card, sector size, sequence of calls and pattern of failures:
\* mc_read_bytes and mc_write_bytes read and write bytes, if the firmware
\* does not store into a sector while it is patched.
THEOREM AccessIsByteStore ==
    ASSUME FirmwareApart
    PROVE  Spec => ImplementsByteStore
  <1>1. Init => B!Init
    BY DEF Init, B!Init, B!Addr, Addr, B!Byte, Byte
  <1>2. TypeOK /\ CopyIsFresh /\ [Next]_vars => [B!Next]_(B!vars)
    BY ByteStoreStep
  <1> QED
    BY <1>1, <1>2, AccessTypeCorrect, CopyStaysFresh, PTL
       DEF Spec, ImplementsByteStore, B!Spec
=============================================================================
