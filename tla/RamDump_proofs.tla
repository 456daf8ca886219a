--------------------------- MODULE RamDump_proofs ---------------------------
(***************************************************************************)
(* Theorems about the ELF loader under the programs it runs, for every set  *)
(* of files and every size of the RAM.                                     *)
(***************************************************************************)
EXTENDS RamDump, FiniteSetTheorems, TLAPS

LEMMA Headers ==
    ASSUME LoaderTypeOK
    PROVE  /\ DOMAIN stage.ph = 1 .. Len(stage.ph) /\ Len(stage.ph) \in Nat
           /\ \A h \in DOMAIN stage.ph :
               /\ stage.ph[h] \in HeaderType
               /\ stage.ph[h].filesz \in Nat /\ stage.ph[h].offset \in Nat
               /\ Dst(stage.ph[h]) \in Nat
  <1>1. stage.ph \in Seq(HeaderType)
    BY FileAssumption DEF LoaderTypeOK
  <1>2. \A h \in DOMAIN stage.ph : stage.ph[h] \in HeaderType
    BY <1>1
  <1>3. \A ph \in HeaderType : ph.filesz \in Nat /\ ph.offset \in Nat /\ ph.vaddr \in Nat
    BY DEF HeaderType
  <1>4. \A ph \in HeaderType : Dst(ph) \in Nat
    BY <1>3, LoaderAssumption DEF Dst
  <1> QED
    BY <1>1, <1>2, <1>3, <1>4

LEMMA FilledType ==
    ASSUME LoaderTypeOK, NEW h \in DOMAIN stage.ph
    PROVE  Filled(stage.ph[h]) \in [Ram -> Content]
  <1> DEFINE ph == stage.ph[h]
  <1>1. ph.offset \in Nat /\ Dst(ph) \in Nat /\ ph.filesz \in Nat
    BY Headers
  <1>2. \A a \in Ram : mem[a] \in Content
    BY DEF LoaderTypeOK
  <1>3. ASSUME NEW a \in Ram, a \in Copied(ph)
        PROVE  FileByte(stage, ph.offset + (a - Dst(ph))) \in Content
    <2>1. a \in Int /\ a >= Dst(ph)
      BY <1>1, <1>3 DEF Copied, Ram
    <2>2. ph.offset + (a - Dst(ph)) \in Nat
      BY <1>1, <2>1
    <2> HIDE DEF ph
    <2> QED
      BY <2>2 DEF FileByte, Content, LoaderTypeOK
  <1>4. Zero \in Content
    BY DEF Zero, Content
  <1> HIDE DEF ph
  <1>5. Filled(ph) \in [Ram -> Content]
    BY <1>2, <1>3, <1>4 DEF Filled
  <1> QED
    BY <1>5 DEF ph

\* One turn of the walk puts one more header in place.
LEMMA WalkKeeps ==
    ASSUME LoaderTypeOK, LoadInv, WalkHeader
    PROVE  LoaderTypeOK' /\ LoadInv'
  <1>1. i \in DOMAIN stage.ph /\ i \in Nat /\ Header = stage.ph[i] /\ lpc = "walk"
    BY Headers DEF LoaderTypeOK, WalkHeader, Header
  <1>2. LoaderTypeOK'
    BY <1>1, FilledType, Headers DEF LoaderTypeOK, WalkHeader
  <1>3. UNCHANGED <<stage, before>> /\ i' = i + 1
    BY DEF WalkHeader
  <1> DEFINE Past == {h \in DOMAIN stage.ph : h < i /\ ~Skipped(stage.ph[h])}
             Upto == {h \in DOMAIN stage.ph : h < i + 1 /\ ~Skipped(stage.ph[h])}
  <1>4. InPlace(Past)
    BY <1>1 DEF LoadInv
  <1>5. Past' = Upto
    BY <1>3
  <1>6. InPlace(Past)'
    <2>1. CASE Skipped(Header)
      <3>1. Upto = Past /\ mem' = mem
        BY <1>1, <2>1, Headers DEF WalkHeader
      <3> QED
        BY <1>3, <1>4, <1>5, <3>1 DEF InPlace
    <2>2. CASE ~Skipped(Header)
      <3>1. Upto = Past \union {i} /\ i \notin Past /\ \A h \in Past : h < i
        BY <1>1, <2>2, Headers
      <3>2. mem' = Filled(Header)
        BY <2>2 DEF WalkHeader
      <3>3. SUFFICES ASSUME NEW a \in Ram
                     PROVE  \/ /\ \A h \in Upto : a \notin Reach(stage.ph[h])
                               /\ mem'[a] = before[a]
                            \/ \E h \in Upto :
                                /\ a \in Reach(stage.ph[h])
                                /\ \A g \in Upto : g > h => a \notin Reach(stage.ph[g])
                                /\ mem'[a] = IF a \in Copied(stage.ph[h])
                                   THEN FileByte(stage, stage.ph[h].offset + (a - Dst(stage.ph[h])))
                                   ELSE Zero
        BY <1>3, <1>5 DEF InPlace
      <3>4. CASE a \in Reach(Header)
        <4>1. mem'[a] = IF a \in Copied(Header)
                        THEN FileByte(stage, Header.offset + (a - Dst(Header))) ELSE Zero
          BY <3>2, <3>4 DEF Filled, Reach
        <4>2. \A g \in Upto : ~(g > i)
          BY <1>1, Headers
        <4> QED
          BY <1>1, <3>1, <3>4, <4>1, <4>2
      <3>5. CASE a \notin Reach(Header)
        <4>1. mem'[a] = mem[a]
          BY <3>2, <3>5 DEF Filled, Reach
        <4>2. \/ /\ \A h \in Past : a \notin Reach(stage.ph[h])
                 /\ mem[a] = before[a]
              \/ \E h \in Past :
                  /\ a \in Reach(stage.ph[h])
                  /\ \A g \in Past : g > h => a \notin Reach(stage.ph[g])
                  /\ mem[a] = IF a \in Copied(stage.ph[h])
                     THEN FileByte(stage, stage.ph[h].offset + (a - Dst(stage.ph[h])))
                     ELSE Zero
          BY <1>4 DEF InPlace
        <4> HIDE DEF Past, Upto
        <4> QED
          BY <1>1, <3>1, <3>5, <4>1, <4>2
      <3> QED
        BY <3>4, <3>5
    <2> QED
      BY <2>1, <2>2
  <1> QED
    BY <1>2, <1>6 DEF LoadInv

LEMMA LoaderInitOK == LoaderInit => LoaderTypeOK /\ LoadInv
  <1> SUFFICES ASSUME LoaderInit PROVE LoaderTypeOK /\ LoadInv
    OBVIOUS
  <1>1. Power \in Content
    BY DEF Power, Content
  <1>2. mem \in [Ram -> Content] /\ before \in [Ram -> Content]
    BY <1>1 DEF LoaderInit
  <1> QED
    BY <1>2 DEF LoaderInit, LoaderTypeOK, LoadInv

\* When a walk begins, no header has been looked at.
LEMMA AcceptKeeps ==
    ASSUME LoaderTypeOK, NEW f \in File, Accept(f)
    PROVE  LoaderTypeOK' /\ LoadInv'
  <1>1. f.ph \in Seq(HeaderType)
    BY FileAssumption
  <1>2. LoaderTypeOK'
    BY <1>1 DEF LoaderTypeOK, Accept
  <1>3. {h \in DOMAIN f.ph : h < 1 /\ ~Skipped(f.ph[h])} = {}
    BY <1>1
  <1>4. InPlace({h \in DOMAIN stage.ph : h < i /\ ~Skipped(stage.ph[h])})'
    BY <1>3 DEF InPlace, Accept
  <1> QED
    BY <1>2, <1>4 DEF LoadInv

LEMMA EndWalkKeeps ==
    ASSUME LoaderTypeOK, LoadInv, EndWalk
    PROVE  LoaderTypeOK' /\ LoadInv'
  <1>1. lpc = "walk" /\ i = Len(stage.ph) + 1 /\ stage.entry \in Nat
    BY Headers, FileAssumption DEF LoaderTypeOK, EndWalk
  <1>2. LoaderTypeOK'
    BY <1>1 DEF LoaderTypeOK, EndWalk, Started
  <1>3. LoadInv'
    BY <1>1 DEF LoadInv, EndWalk, InPlace
  <1> QED
    BY <1>2, <1>3

\* The programs only print, and return.
LEMMA ProgramLeavesLoader ==
    ASSUME LoaderTypeOK, LoadInv,
           \/ ProgramStep \/ ReadCommandFails \/ UNCHANGED vars
           \/ \E c \in Command : PushCommand(c)
    PROVE  LoaderTypeOK' /\ LoadInv'
  <1>1. UNCHANGED lvars \/ ReturnToStub
    BY DEF ProgramStep, ReadCommandFails, PushCommand, vars, StartFixed, RefuseFixed,
           StartInteractive, ClearCommand, ReadCommand, RefuseDump, BeginDump, PrintRow,
           CompleteDump
  <1>2. CASE UNCHANGED lvars
    BY <1>2 DEF lvars, LoaderTypeOK, LoadInv, InPlace
  <1>3. CASE ReturnToStub
    BY <1>3 DEF ReturnToStub, LoaderTypeOK, LoadInv
  <1> QED
    BY <1>1, <1>2, <1>3

LEMMA LoaderNext ==
    LoaderTypeOK /\ LoadInv /\ [Next]_vars => LoaderTypeOK' /\ LoadInv'
  <1> SUFFICES ASSUME LoaderTypeOK, LoadInv, [Next]_vars
               PROVE  LoaderTypeOK' /\ LoadInv'
    OBVIOUS
  <1>1. ASSUME NEW f \in File, LoadFile(f)
        PROVE  LoaderTypeOK' /\ LoadInv'
    <2>1. CASE Accept(f)
      BY <2>1, AcceptKeeps
    <2>2. CASE Refuse(f)
      BY <2>2 DEF Refuse, LoaderTypeOK, LoadInv
    <2> QED
      BY <1>1, <2>1, <2>2 DEF LoadFile
  <1>2. CASE LoaderStep
    BY <1>2, WalkKeeps, EndWalkKeeps DEF LoaderStep
  <1>3. CASE \/ ProgramStep \/ ReadCommandFails \/ UNCHANGED vars
             \/ \E c \in Command : PushCommand(c)
    BY <1>3, ProgramLeavesLoader
  <1> QED
    BY <1>1, <1>2, <1>3 DEF Next

\* The stub's walk stays inside its program headers, and what it leaves in
\* the RAM are bytes of files and zeros, for all files whose segments fit.
THEOREM LoaderTypeCorrect == Spec => []LoaderTypeOK
  <1>1. Init => LoaderTypeOK /\ LoadInv
    BY LoaderInitOK DEF Init
  <1> QED
    BY <1>1, LoaderNext, PTL DEF Spec

\* Whatever the files are, and whatever programs ran before, a program starts
\* in the memory its file describes, but for segments without a byte in it.
THEOREM ProgramStartsInPlace == Spec => []SegmentsInPlace
  <1>1. Init => LoaderTypeOK /\ LoadInv
    BY LoaderInitOK DEF Init
  <1>2. LoaderTypeOK /\ LoadInv => SegmentsInPlace
    <2> SUFFICES ASSUME LoaderTypeOK, LoadInv, lpc = "run" PROVE SegmentsInPlace
      BY DEF SegmentsInPlace
    <2>1. {h \in DOMAIN stage.ph : h < i /\ ~Skipped(stage.ph[h])}
            = {h \in DOMAIN stage.ph : ~Skipped(stage.ph[h])}
      BY Headers DEF LoaderTypeOK
    <2> QED
      BY <2>1 DEF LoadInv, SegmentsInPlace
  <1> QED
    BY <1>1, <1>2, LoaderNext, PTL DEF Spec
-----------------------------------------------------------------------------
LEMMA WordFits ==
    ASSUME NEW n \in Nat
    PROVE  /\ Word(n) \in 0 .. WordModulus - 1
           /\ n < WordModulus => Word(n) = n
  BY DumpAssumption DEF Word

LEMMA RangeNat ==
    ASSUME NEW r \in Range32
    PROVE  r.addr \in Nat /\ r.len \in Nat /\ r.addr < WordModulus
  BY DumpAssumption DEF Range32

LEMMA DumpInit == Init => DumpTypeOK
  <1> SUFFICES ASSUME Init PROVE DumpTypeOK
    OBVIOUS
  <1>1. range \in Range32 /\ ppc = "off"
    BY DumpAssumption DEF Init, Range32
  <1>2. rows \in Seq([at : Nat, bytes : Seq(Byte)])
    BY DEF Init
  <1>3. /\ done \in Nat /\ off \in Nat /\ cell = NoCommand /\ asked = NoCommand
        /\ uncleared \in BOOLEAN /\ commands \in Nat /\ faults \in Nat
    BY DEF Init
  <1> QED
    BY <1>1, <1>2, <1>3 DEF DumpTypeOK

\* A dump begins before its first row, or at the end of an empty range.
LEMMA StartDumpType ==
    ASSUME LoaderTypeOK, NEW r \in Range32, StartDump(r), UNCHANGED lvars
    PROVE  /\ ppc' = "dump" /\ range' = r /\ range' \in Range32
           /\ done' \in Nat /\ off' \in Nat /\ rows' \in Seq([at : Nat, bytes : Seq(Byte)])
           /\ done' <= range'.len
           /\ IF done' < range'.len THEN off' < ThisChunk' ELSE off' = 0
  <1>1. /\ ppc' = "dump" /\ range' = r /\ done' = 0 /\ off' = 0 /\ rows' = << >>
        /\ stage' = stage
    BY DEF StartDump, lvars
  <1>2. r.len \in Nat /\ Chunk[Kind] \in Nat \ {0}
    BY RangeNat, DumpAssumption DEF LoaderTypeOK, Kind
  <1>3. ThisChunk' = IF r.len - 0 > Chunk[Kind] THEN Chunk[Kind] ELSE r.len - 0
    BY <1>1 DEF ThisChunk, Kind
  <1> QED
    BY <1>1, <1>2, <1>3

LEMMA RowFacts ==
    ASSUME LoaderTypeOK, DumpTypeOK, ppc = "dump", done < range.len
    PROVE  /\ range.addr \in Nat /\ range.len \in Nat /\ done \in Nat /\ off \in Nat
           /\ ThisRow \in Nat /\ ThisRow > 0 /\ ThisChunk \in Nat
           /\ off + ThisRow <= ThisChunk /\ done + ThisChunk <= range.len
           /\ Chunk[Kind] \in Nat \ {0}
           /\ Label \in Nat
           /\ [k \in 1 .. ThisRow |-> Seen(Word(range.addr + done + off + k - 1))] \in Seq(Byte)
  <1>1. /\ range.addr \in Nat /\ range.len \in Nat /\ done \in Nat /\ off \in Nat
        /\ off < ThisChunk /\ Chunk[Kind] \in Nat \ {0} /\ RowSize \in Nat \ {0}
    BY RangeNat, DumpAssumption DEF DumpTypeOK, LoaderTypeOK, Kind
  <1>2. ThisChunk \in Nat /\ done + ThisChunk <= range.len
    BY <1>1 DEF ThisChunk
  <1>3. ThisRow \in Nat /\ ThisRow > 0 /\ off + ThisRow <= ThisChunk
    BY <1>1, <1>2 DEF ThisRow
  <1>4. Label \in Nat
    <2>1. Word(range.addr + done) \in Nat
      BY <1>1, WordFits, DumpAssumption
    <2> QED
      BY <1>1, <2>1, WordFits, DumpAssumption DEF Label
  <1>5. ASSUME NEW k \in 1 .. ThisRow
        PROVE  Seen(Word(range.addr + done + off + k - 1)) \in Byte
    <2>1. Word(range.addr + done + off + k - 1) \in Nat
      <3>1. range.addr + done + off + k - 1 \in Nat
        BY <1>1, <1>3
      <3> QED
        BY <3>1, WordFits, DumpAssumption
    <2>2. ASSUME NEW a \in Nat PROVE Seen(a) \in Byte
      BY DEF Seen, Byte, LoaderTypeOK
    <2> QED
      BY <2>1, <2>2
  <1> QED
    BY <1>1, <1>2, <1>3, <1>4, <1>5

LEMMA PrintRowType ==
    ASSUME LoaderTypeOK, DumpTypeOK, PrintRow
    PROVE  DumpTypeOK'
  <1> DEFINE row == [at |-> Label,
                     bytes |-> [k \in 1 .. ThisRow |->
                                  Seen(Word(range.addr + done + off + k - 1))]]
  <1>1. ppc = "dump" /\ done < range.len /\ rows' = Append(rows, row)
    BY DEF PrintRow
  <1>2. /\ UNCHANGED <<stage, lpc, ppc, range, cell, asked, uncleared, commands, faults>>
    BY DEF PrintRow, lvars
  <1>3. row \in [at : Nat, bytes : Seq(Byte)]
    BY <1>1, RowFacts
  <1>4. rows' \in Seq([at : Nat, bytes : Seq(Byte)])
    <2> HIDE DEF row
    <2> QED
      BY <1>1, <1>3 DEF DumpTypeOK
  <1>5. /\ done' \in Nat /\ off' \in Nat /\ done' <= range.len
        /\ IF done' < range.len THEN off' < ThisChunk' ELSE off' = 0
    <2>1. CASE off + ThisRow < ThisChunk
      <3>1. done' = done /\ off' = off + ThisRow /\ ThisChunk' = ThisChunk
        BY <1>2, <2>1 DEF PrintRow, ThisChunk, Kind
      <3> QED
        BY <1>1, <2>1, <3>1, RowFacts
    <2>2. CASE ~(off + ThisRow < ThisChunk)
      <3>1. done' = done + ThisChunk /\ off' = 0
        BY <2>2 DEF PrintRow
      <3>2. ThisChunk' = IF range.len - done' > Chunk[Kind] THEN Chunk[Kind] ELSE range.len - done'
        BY <1>2 DEF ThisChunk, Kind
      <3> QED
        BY <1>1, <3>1, <3>2, RowFacts
    <2> QED
      BY <2>1, <2>2
  <1>6. InvalidRange(range)' = InvalidRange(range) /\ IopFits(range)' = IopFits(range) /\ Kind' = Kind
    BY <1>2 DEF InvalidRange, IopFits, Kind
  <1> QED
    BY <1>1, <1>2, <1>4, <1>5, <1>6 DEF DumpTypeOK

\* What the type invariant says outside a dump.
LEMMA NotDumping ==
    ASSUME DumpTypeOK, ppc' \in {"off", "stale", "poll", "clear", "begin"},
           ppc' # "off" => lpc' = "run" /\ Kind' = "interactive",
           range' \in Range32, UNCHANGED <<done, off, rows, commands>>,
           cell' \in Command \union {NoCommand}, asked' \in Command \union {NoCommand},
           uncleared' \in BOOLEAN, faults' \in Nat
    PROVE  DumpTypeOK'
  BY DEF DumpTypeOK

\* Everything that is no part of a dump.
LEMMA OtherType ==
    ASSUME LoaderTypeOK, DumpTypeOK,
           \/ RefuseFixed \/ StartInteractive \/ ClearCommand \/ ReadCommand
           \/ ReadCommandFails \/ RefuseDump \/ CompleteDump
           \/ \E c \in Command : PushCommand(c)
    PROVE  DumpTypeOK'
  <1>1. CASE RefuseFixed
    BY <1>1 DEF RefuseFixed, ReturnToStub, DumpTypeOK
  <1>2. CASE StartInteractive
    BY <1>2 DEF StartInteractive, ReturnToStub, lvars, DumpTypeOK, Kind
  <1>3. CASE ClearCommand
    <2>1. /\ ppc' = "begin" \/ ppc' = "poll"
          /\ lpc' = "run" /\ Kind' = "interactive"
          /\ UNCHANGED <<range, done, off, rows, commands, asked>>
      BY <1>3 DEF ClearCommand, lvars, DumpTypeOK, Kind, After
    <2>2. /\ range' \in Range32 /\ asked' \in Command \union {NoCommand}
          /\ cell' \in Command \union {NoCommand}
          /\ uncleared' \in BOOLEAN /\ faults' \in Nat
      <3>1. /\ range \in Range32 /\ asked \in Command \union {NoCommand}
            /\ cell \in Command \union {NoCommand} /\ uncleared \in BOOLEAN /\ faults \in Nat
        BY DEF DumpTypeOK
      <3>2. faults' \in Nat
        BY <1>3, <3>1 DEF ClearCommand
      <3>3. uncleared' \in BOOLEAN
        BY <1>3, <2>1, <3>1 DEF ClearCommand
      <3>4. cell' \in Command \union {NoCommand}
        BY <1>3, <2>1, <3>1 DEF ClearCommand
      <3> QED
        BY <2>1, <3>1, <3>2, <3>3, <3>4
    <2> QED
      BY <2>1, <2>2, NotDumping
  <1>4. CASE ReadCommand
    BY <1>4, DumpAssumption DEF ReadCommand, lvars, DumpTypeOK, Kind, After
  <1>5. CASE ReadCommandFails
    <2>1. /\ ppc' = "poll" /\ lpc' = "run" /\ Kind' = "interactive"
          /\ UNCHANGED <<range, done, off, rows, commands, asked, cell, uncleared>>
      BY <1>5 DEF ReadCommandFails, lvars, DumpTypeOK, Kind
    <2>2. /\ range' \in Range32 /\ asked' \in Command \union {NoCommand}
          /\ cell' \in Command \union {NoCommand}
          /\ uncleared' \in BOOLEAN /\ faults' \in Nat
      <3>1. /\ range \in Range32 /\ asked \in Command \union {NoCommand}
            /\ cell \in Command \union {NoCommand} /\ uncleared \in BOOLEAN /\ faults \in Nat
        BY DEF DumpTypeOK
      <3>2. faults' \in Nat
        BY <1>5, <3>1 DEF ReadCommandFails
      <3>3. uncleared' \in BOOLEAN
        BY <1>5, <2>1, <3>1 DEF ReadCommandFails
      <3>4. cell' \in Command \union {NoCommand}
        BY <1>5, <2>1, <3>1 DEF ReadCommandFails
      <3> QED
        BY <2>1, <3>1, <3>2, <3>3, <3>4
    <2> QED
      BY <2>1, <2>2, NotDumping
  <1>6. CASE RefuseDump
    BY <1>6 DEF RefuseDump, lvars, DumpTypeOK, Kind, After, Answer
  <1>7. CASE CompleteDump
    BY <1>7 DEF CompleteDump, ReturnToStub, lvars, DumpTypeOK, Kind, After, Answer
  <1>8. ASSUME NEW c \in Command, PushCommand(c) PROVE DumpTypeOK'
    BY <1>8 DEF PushCommand, lvars, DumpTypeOK, Kind, ThisChunk, InvalidRange, IopFits, Word
  <1> QED
    BY <1>1, <1>2, <1>3, <1>4, <1>5, <1>6, <1>7, <1>8

LEMMA DumpNext ==
    LoaderTypeOK /\ DumpTypeOK /\ [Next]_vars => DumpTypeOK'
  <1> SUFFICES ASSUME LoaderTypeOK, DumpTypeOK, [Next]_vars PROVE DumpTypeOK'
    OBVIOUS
  <1>1. ASSUME NEW f \in File, LoadFile(f) PROVE DumpTypeOK'
    <2>1. ppc = "off"
      BY <1>1 DEF LoadFile, Accept, Refuse, DumpTypeOK
    <2> QED
      BY <1>1, <2>1 DEF LoadFile, DumpTypeOK
  <1>2. CASE LoaderStep /\ UNCHANGED pvars
    <2>1. ppc = "off"
      BY <1>2 DEF LoaderStep, WalkHeader, EndWalk, DumpTypeOK
    <2> QED
      BY <1>2, <2>1 DEF pvars, DumpTypeOK
  <1>3. CASE StartFixed
    <2>1. stage.range \in Range32 /\ UNCHANGED lvars /\ StartDump(stage.range)
      BY <1>3, DumpAssumption DEF StartFixed, LoaderTypeOK
    <2>2. Kind # "interactive" /\ (Kind = "ioppeek" => IopFits(stage.range)) /\ lpc = "run"
      BY <1>3 DEF StartFixed
    <2> QED
      BY <1>3, <2>1, <2>2, StartDumpType DEF StartFixed, DumpTypeOK, lvars, Kind, IopFits, Word
  <1>4. CASE BeginDump
    <2>1. range \in Range32 /\ UNCHANGED lvars /\ StartDump(range) /\ Kind = "interactive"
      BY <1>4 DEF BeginDump, DumpTypeOK
    <2> QED
      BY <1>4, <2>1, StartDumpType DEF BeginDump, DumpTypeOK, lvars, Kind, InvalidRange
  <1>5. CASE PrintRow
    BY <1>5, PrintRowType
  <1>6. CASE UNCHANGED vars
    BY <1>6 DEF vars, lvars, pvars, DumpTypeOK, Kind, ThisChunk, InvalidRange, IopFits, Word
  <1> QED
    BY <1>1, <1>2, <1>3, <1>4, <1>5, <1>6, OtherType DEF Next, ProgramStep

\* Chunks and rows divide every range, whatever their sizes: a dump is always
\* at the beginning of a row that is not empty, or at its end.
THEOREM DumpTypeCorrect == Spec => []DumpTypeOK
  BY DumpInit, DumpNext, LoaderTypeCorrect, PTL DEF Spec

\* Loader and programs together: every state has its type (stub_main.c:118-165
\* and the loops of the programs).
THEOREM TypeCorrect == Spec => []TypeOK
  BY LoaderTypeCorrect, DumpTypeCorrect, PTL DEF TypeOK
-----------------------------------------------------------------------------
LEMMA RowsStep ==
    ASSUME LoaderTypeOK, DumpTypeOK, RowsInRange, [Next]_vars
    PROVE  RowsInRange'
  <1>1. CASE PrintRow
    <2> DEFINE row == [at |-> Label,
                       bytes |-> [k \in 1 .. ThisRow |->
                                    Seen(Word(range.addr + done + off + k - 1))]]
    <2>1. ppc = "dump" /\ done < range.len /\ rows' = Append(rows, row) /\ range' = range
      BY <1>1 DEF PrintRow
    <2> SUFFICES ASSUME range.addr + range.len <= WordModulus
                 PROVE  \A r \in 1 .. Len(rows') :
                            /\ rows'[r].at >= range.addr
                            /\ rows'[r].at + Len(rows'[r].bytes) <= range.addr + range.len
      BY <2>1 DEF RowsInRange
    <2>2. Label = range.addr + done + off
      <3>0. /\ range.addr \in Nat /\ range.len \in Nat /\ done \in Nat /\ off \in Nat
            /\ done + off < range.len /\ WordModulus \in Nat
        <4>1. /\ range.addr \in Nat /\ range.len \in Nat /\ done \in Nat /\ off \in Nat
              /\ ThisRow \in Nat /\ ThisRow > 0 /\ ThisChunk \in Nat
              /\ off + ThisRow <= ThisChunk /\ done + ThisChunk <= range.len
          BY <2>1, RowFacts
        <4> QED
          BY <4>1, DumpAssumption
      <3>1. /\ range.addr + done \in Nat /\ range.addr + done < WordModulus
            /\ range.addr + done + off \in Nat /\ range.addr + done + off < WordModulus
        BY <3>0
      <3> QED
        BY <3>1, WordFits DEF Label
    <2>3. row.at = range.addr + done + off /\ Len(row.bytes) = ThisRow
      BY <2>1, <2>2, RowFacts
    <2>4. row.at >= range.addr /\ row.at + Len(row.bytes) <= range.addr + range.len
      BY <2>1, <2>3, RowFacts
    <2>5. /\ Len(rows') = Len(rows) + 1 /\ Len(rows) \in Nat
          /\ \A r \in 1 .. Len(rows) : rows'[r] = rows[r]
          /\ rows'[Len(rows) + 1] = row
      <3> HIDE DEF row
      <3> QED
        BY <2>1 DEF DumpTypeOK
    <2>6. \A r \in 1 .. Len(rows) :
              /\ rows[r].at >= range.addr
              /\ rows[r].at + Len(rows[r].bytes) <= range.addr + range.len
      BY <2>1 DEF RowsInRange
    <2> HIDE DEF row
    <2> QED
      BY <2>4, <2>5, <2>6
  <1>2. CASE StartFixed \/ BeginDump
    BY <1>2 DEF StartFixed, BeginDump, StartDump, RowsInRange
  <1>3. CASE \/ ppc' # "dump"
             \/ UNCHANGED <<ppc, range, rows>>
    BY <1>3 DEF RowsInRange
  <1>4. \/ PrintRow \/ StartFixed \/ BeginDump
        \/ ppc' # "dump" \/ UNCHANGED <<ppc, range, rows>>
    BY DEF Next, ProgramStep, vars, pvars, LoadFile, RefuseFixed, ReturnToStub,
           StartInteractive, ClearCommand, ReadCommand, ReadCommandFails, RefuseDump,
           CompleteDump, PushCommand, After, DumpTypeOK
  <1> QED
    BY <1>1, <1>2, <1>3, <1>4

LEMMA RowOf ==
    ASSUME NEW S, NEW q \in Seq(S), NEW r \in 1 .. Len(q)
    PROVE  q[r] \in S
  OBVIOUS

\* The rows of a range that does not wrap around stay in it.
LEMMA RowsStay == Spec => []RowsInRange
  <1>1. Init => RowsInRange
    BY DEF Init, RowsInRange
  <1>2. LoaderTypeOK /\ DumpTypeOK /\ RowsInRange /\ [Next]_vars => RowsInRange'
    BY RowsStep
  <1> QED
    BY <1>1, <1>2, LoaderTypeCorrect, DumpTypeCorrect, PTL DEF Spec

\* do_dump's check lets no command read more than MaxDump bytes past the RAM.
THEOREM OvershootIsBounded == Spec => []OvershootBounded
  <1>1. LoaderTypeOK /\ DumpTypeOK /\ RowsInRange => OvershootBounded
    <2> SUFFICES ASSUME LoaderTypeOK, DumpTypeOK, RowsInRange, ppc = "dump", Kind = "interactive",
                        NEW r \in 1 .. Len(rows)
                 PROVE  /\ rows[r].at >= range.addr
                        /\ rows[r].at + Len(rows[r].bytes) <= RamSize + MaxDump
      BY DEF OvershootBounded
    <2>1. range.addr \in Nat /\ range.len \in Nat /\ range.addr <= RamSize /\ range.len <= MaxDump
      <3>1. range \in Range32 /\ ~InvalidRange(range)
        BY DEF DumpTypeOK
      <3> QED
        BY <3>1, RangeNat, LoaderAssumption, DumpAssumption DEF InvalidRange
    <2>2. range.addr + range.len <= RamSize + MaxDump /\ range.addr + range.len <= WordModulus
      BY <2>1, LoaderAssumption, DumpAssumption
    <2>3. /\ rows[r].at >= range.addr
          /\ rows[r].at + Len(rows[r].bytes) <= range.addr + range.len
      BY <2>2 DEF RowsInRange
    <2>4. rows[r] \in [at : Nat, bytes : Seq(Byte)]
      <3>1. rows \in Seq([at : Nat, bytes : Seq(Byte)])
        BY DEF DumpTypeOK
      <3> QED
        BY <3>1, RowOf
    <2>5. rows[r].at + Len(rows[r].bytes) \in Nat
      BY <2>4
    <2> QED
      BY <2>1, <2>2, <2>3, <2>5, LoaderAssumption, DumpAssumption
  <1> QED
    BY <1>1, LoaderTypeCorrect, DumpTypeCorrect, RowsStay, PTL

\* ioppeek's check is enough, wherever its sum does not overflow.
THEOREM PeekStaysInside == Spec => []PeekInside
  <1>1. DumpTypeOK /\ RowsInRange => PeekInside
    <2> SUFFICES ASSUME DumpTypeOK, RowsInRange, ppc = "dump", Kind = "ioppeek",
                        range.addr + range.len < WordModulus, NEW r \in 1 .. Len(rows)
                 PROVE  rows[r].at + Len(rows[r].bytes) <= IopSize
      BY DEF PeekInside
    <2>1. range.addr \in Nat /\ range.len \in Nat
      BY RangeNat DEF DumpTypeOK
    <2>2. range.addr + range.len <= IopSize
      <3>1. IopFits(range) /\ range.addr + range.len \in Nat
        BY <2>1 DEF DumpTypeOK
      <3> QED
        BY <2>1, <3>1, WordFits DEF IopFits
    <2>3. rows[r].at + Len(rows[r].bytes) <= range.addr + range.len
      BY <2>1, DumpAssumption DEF RowsInRange
    <2>4. rows[r] \in [at : Nat, bytes : Seq(Byte)]
      <3>1. rows \in Seq([at : Nat, bytes : Seq(Byte)])
        BY DEF DumpTypeOK
      <3> QED
        BY <3>1, RowOf
    <2>5. rows[r].at + Len(rows[r].bytes) \in Nat
      BY <2>4
    <2> QED
      BY <2>1, <2>2, <2>3, <2>5, DumpAssumption
  <1> QED
    BY <1>1, DumpTypeCorrect, RowsStay, PTL
-----------------------------------------------------------------------------
LEMMA Euclid ==
    ASSUME NEW a \in Nat, NEW d \in Nat \ {0}
    PROVE  a = d * (a \div d) + (a % d) /\ a \div d \in Nat /\ a % d \in 0 .. d - 1
  OBVIOUS

LEMMA OneRemainder ==
    ASSUME NEW d \in Nat \ {0}, NEW p \in Nat, NEW q \in Nat,
           NEW x \in 0 .. d - 1, NEW y \in 0 .. d - 1, d * p + x = d * q + y
    PROVE  x = y
  <1>1. CASE p = q
    <2>1. d * p = d * q
      BY <1>1
    <2>2. d * p \in Int
      OBVIOUS
    <2> QED
      BY <2>1, <2>2
  <1>2. CASE p < q
    <2>1. PICK z \in Nat : q = p + 1 + z
      <3>1. q - p - 1 \in Nat /\ q = p + 1 + (q - p - 1)
        BY <1>2
      <3> QED
        BY <3>1
    <2>2. d * q = d * p + d + d * z /\ d * z \in Nat /\ d * p \in Nat
      BY <2>1
    <2> QED
      BY <2>2
  <1>3. CASE q < p
    <2>1. PICK z \in Nat : p = q + 1 + z
      <3>1. p - q - 1 \in Nat /\ p = q + 1 + (p - q - 1)
        BY <1>3
      <3> QED
        BY <3>1
    <2>2. d * p = d * q + d + d * z /\ d * z \in Nat /\ d * q \in Nat
      BY <2>1
    <2> QED
      BY <2>2
  <1> QED
    BY <1>1, <1>2, <1>3

\* Two sums of 32 bits, one after the other, are one sum.
LEMMA WordTwice ==
    ASSUME NEW a \in Nat, NEW b \in Nat
    PROVE  Word(Word(a) + b) = Word(a + b)
  <1> DEFINE w == WordModulus
             r == a % w
             p == a \div w
             q == (r + b) \div w
             x == (r + b) % w
             y == (a + b) % w
             z == (a + b) \div w
  <1>1. w \in Nat \ {0}
    BY DumpAssumption
  <1>2. a = w * p + r /\ p \in Nat /\ r \in 0 .. w - 1
    BY <1>1, Euclid
  <1>3. r + b = w * q + x /\ q \in Nat /\ x \in 0 .. w - 1
    <2>1. r + b \in Nat
      BY <1>1, <1>2
    <2> HIDE DEF r
    <2> QED
      BY <1>1, <2>1, Euclid
  <1>4. a + b = w * z + y /\ z \in Nat /\ y \in 0 .. w - 1
    <2>1. a + b \in Nat
      OBVIOUS
    <2> HIDE DEF w
    <2> QED
      BY <1>1, <2>1, Euclid
  <1>5. x = y
    <2> HIDE DEF w, r, p, q, x, y, z
    <2>1. w * (p + q) + x = w * z + y
      <3>1. w * (p + q) = w * p + w * q /\ w * p \in Nat /\ w * q \in Nat /\ w * z \in Nat
        BY <1>1, <1>2, <1>3, <1>4
      <3> QED
        BY <1>2, <1>3, <1>4, <3>1
    <2>2. p + q \in Nat
      BY <1>2, <1>3
    <2> QED
      BY <1>1, <1>3, <1>4, <2>1, <2>2, OneRemainder
  <1> QED
    BY <1>5 DEF Word

\* A new row adds its own bytes to those of the rows before it.
LEMMA RowAdds ==
    ASSUME NEW S, IsFiniteSet(S), NEW n \in Nat, NEW m \in Nat,
           \A k \in 1 .. m : <<n, k>> \notin S
    PROVE  /\ IsFiniteSet(S \union ({n} \X (1 .. m)))
           /\ Cardinality(S \union ({n} \X (1 .. m))) = Cardinality(S) + m
  <1> DEFINE T == {n} \X (1 .. m)
  <1>1. IsFiniteSet({n}) /\ Cardinality({n}) = 1
    BY FS_Singleton
  <1>2. IsFiniteSet(1 .. m) /\ Cardinality(1 .. m) = m
    BY FS_Interval
  <1>3. IsFiniteSet(T) /\ Cardinality(T) = 1 * m
    BY <1>1, <1>2, FS_Product
  <1>4. S \cap T = {}
    OBVIOUS
  <1>5. Cardinality(S \cap T) = 0
    BY <1>4, FS_EmptySet
  <1>6. Cardinality(S) \in Nat
    BY FS_CardinalityType
  <1> HIDE DEF T
  <1>7. /\ IsFiniteSet(S \union T)
        /\ Cardinality(S \union T) = Cardinality(S) + Cardinality(T) - Cardinality(S \cap T)
    BY <1>3, FS_Union
  <1> QED
    BY <1>3, <1>5, <1>6, <1>7 DEF T

DumpInv ==
    /\ DumpIsExact
    /\ ppc = "dump" => IsFiniteSet(Earlier(Len(rows) + 1))

LEMMA PrintRowExact ==
    ASSUME LoaderTypeOK, DumpTypeOK, DumpInv, PrintRow
    PROVE  DumpInv'
  <1>0. PICK n \in Nat : n = Len(rows)
    BY DEF DumpTypeOK
  <1> DEFINE row == [at |-> Label,
                     bytes |-> [k \in 1 .. ThisRow |->
                                  Seen(Word(range.addr + done + off + k - 1))]]
  <1>1. /\ ppc = "dump" /\ done < range.len /\ rows' = Append(rows, row)
        /\ UNCHANGED <<mem, stage, ppc, range>>
    BY DEF PrintRow, lvars
  <1>2. /\ range.addr \in Nat /\ range.len \in Nat /\ done \in Nat /\ off \in Nat
        /\ ThisRow \in Nat /\ ThisRow > 0 /\ ThisChunk \in Nat
        /\ off + ThisRow <= ThisChunk /\ done + ThisChunk <= range.len
    BY <1>1, RowFacts
  <1>3. row.at = Label /\ Len(row.bytes) = ThisRow
        /\ \A k \in 1 .. ThisRow : row.bytes[k] = Seen(Word(range.addr + done + off + k - 1))
    BY <1>2
  <1>4. /\ Len(rows') = n + 1 /\ rows'[n + 1] = row
        /\ \A r \in 1 .. n : rows'[r] = rows[r]
    <2>1. rows \in Seq([at : Nat, bytes : Seq(Byte)])
      BY DEF DumpTypeOK
    <2> HIDE DEF row
    <2> QED
      BY <1>0, <1>1, <2>1
  <1> HIDE DEF row
  <1>5. \A r \in 1 .. n + 1 : Earlier(r)' = Earlier(r)
    <2> TAKE r \in 1 .. n + 1
    <2>1. \A q \in 1 .. r - 1 : rows'[q] = rows[q]
      BY <1>4
    <2> QED
      BY <2>1 DEF Earlier
  <1>6. Earlier(n + 2)' = Earlier(n + 1) \union ({n + 1} \X (1 .. ThisRow))
    <2>1. 1 .. (n + 2) - 1 = (1 .. (n + 1) - 1) \union {n + 1}
      BY <1>4
    <2>2. \A q \in 1 .. (n + 1) - 1 : rows'[q] = rows[q]
      BY <1>4
    <2>3. Len(rows'[n + 1].bytes) = ThisRow
      BY <1>3, <1>4
    <2>4. Earlier(n + 2)' = UNION {{q} \X (1 .. Len(rows'[q].bytes)) : q \in 1 .. (n + 2) - 1}
      BY DEF Earlier
    <2> QED
      BY <2>1, <2>2, <2>3, <2>4 DEF Earlier
  <1>7. IsFiniteSet(Earlier(n + 1)) /\ Cardinality(Earlier(n + 1)) = done + off
    BY <1>0, <1>1 DEF DumpInv, DumpIsExact
  <1>8. /\ IsFiniteSet(Earlier(n + 2)')
        /\ Cardinality(Earlier(n + 2)') = done + off + ThisRow
    <2>1. \A k \in 1 .. ThisRow : <<n + 1, k>> \notin Earlier(n + 1)
      <3>1. \A q \in 1 .. (n + 1) - 1 : q # n + 1
        BY <1>4
      <3> QED
        BY <3>1 DEF Earlier
    <2>2. n + 1 \in Nat
      BY <1>4
    <2> DEFINE S == Earlier(n + 1)
               m == n + 1
               t == ThisRow
    <2> HIDE DEF S, m, t
    <2>3. /\ IsFiniteSet(S \union ({m} \X (1 .. t)))
          /\ Cardinality(S \union ({m} \X (1 .. t))) = Cardinality(S) + t
      BY <1>2, <1>7, <2>1, <2>2, RowAdds DEF S, m, t
    <2> QED
      BY <1>6, <1>7, <2>3 DEF S, m, t
  <1>9. done' + off' = done + off + ThisRow /\ done' + off' <= range.len
    <2>1. CASE off + ThisRow < ThisChunk
      <3>1. done' = done /\ off' = off + ThisRow
        BY <2>1 DEF PrintRow
      <3> QED
        BY <1>2, <2>1, <3>1
    <2>2. CASE ~(off + ThisRow < ThisChunk)
      <3>1. done' = done + ThisChunk /\ off' = 0
        BY <2>2 DEF PrintRow
      <3> QED
        BY <1>2, <2>2, <3>1
    <2> QED
      BY <2>1, <2>2
  <1>10. Label = Word(range.addr + (done + off))
    <2>1. range.addr + done \in Nat /\ range.addr + done + off = range.addr + (done + off)
      BY <1>2
    <2> QED
      BY <1>2, <2>1, WordTwice DEF Label
  <1>11. ASSUME NEW r \in 1 .. n + 1
         PROVE  /\ rows'[r].at = Word(range.addr + Cardinality(Earlier(r)))
                /\ \A k \in 1 .. Len(rows'[r].bytes) :
                       rows'[r].bytes[k] = Seen(Word(range.addr + Cardinality(Earlier(r)) + k - 1))
    <2>1. CASE r = n + 1
      <3>1. \A k \in 1 .. ThisRow :
               range.addr + done + off + k - 1 = range.addr + (done + off) + k - 1
        BY <1>2
      <3> QED
        BY <1>3, <1>4, <1>7, <1>10, <2>1, <3>1
    <2>2. CASE r # n + 1
      <3>1. r \in 1 .. n /\ rows'[r] = rows[r]
        BY <1>4, <2>2
      <3> QED
        BY <1>0, <1>1, <3>1 DEF DumpInv, DumpIsExact
    <2> QED
      BY <2>1, <2>2
  <1>12. ASSUME NEW r \in 1 .. n + 1
         PROVE  (/\ rows[r].at = Word(range.addr + Cardinality(Earlier(r)))
                 /\ \A k \in 1 .. Len(rows[r].bytes) :
                        rows[r].bytes[k] = Seen(Word(range.addr + Cardinality(Earlier(r)) + k - 1)))'
    <2>1. Earlier(r)' = Earlier(r)
      BY <1>5, <1>12
    <2> QED
      BY <1>1, <1>11, <1>12, <2>1 DEF Seen, Kind, Word
  <1>13. Earlier(Len(rows) + 1)' = Earlier(n + 2)'
    <2>1. (Len(rows') + 1) - 1 = (n + 2) - 1
      BY <1>4
    <2> QED
      BY <2>1 DEF Earlier
  <1>14. /\ done' + off' <= range'.len
         /\ IsFiniteSet(Earlier(Len(rows) + 1)')
         /\ Cardinality(Earlier(Len(rows) + 1)') = done' + off'
    BY <1>1, <1>8, <1>9, <1>13
  <1> QED
    BY <1>4, <1>12, <1>14 DEF DumpInv, DumpIsExact

\* Nothing has been printed when a dump starts.
LEMMA StartExact ==
    ASSUME NEW r \in Range32, StartDump(r)
    PROVE  DumpInv'
  <1>1. /\ range' = r /\ done' = 0 /\ off' = 0 /\ rows' = << >> /\ r.len \in Nat
    BY RangeNat DEF StartDump
  <1>2. Len(rows') = 0
    BY <1>1
  <1>3. Earlier(Len(rows) + 1)' = {}
    BY <1>2 DEF Earlier
  <1>4. IsFiniteSet(Earlier(Len(rows) + 1)') /\ Cardinality(Earlier(Len(rows) + 1)') = 0
    BY <1>3, FS_EmptySet
  <1> QED
    BY <1>1, <1>2, <1>4 DEF DumpInv, DumpIsExact

LEMMA DumpExactStep ==
    ASSUME LoaderTypeOK, DumpTypeOK, DumpInv, [Next]_vars
    PROVE  DumpInv'
  <1>1. CASE StartFixed
    <2>1. stage.range \in Range32 /\ StartDump(stage.range)
      BY <1>1, DumpAssumption DEF StartFixed, LoaderTypeOK
    <2> QED
      BY <2>1, StartExact
  <1>2. CASE BeginDump
    <2>1. range \in Range32 /\ StartDump(range)
      BY <1>2 DEF BeginDump, DumpTypeOK
    <2> QED
      BY <2>1, StartExact
  <1>3. CASE ppc' # "dump"
    BY <1>3 DEF DumpInv, DumpIsExact
  <1>4. CASE UNCHANGED <<mem, stage, ppc, range, done, off, rows>>
    <2>1. Earlier(Len(rows) + 1)' = Earlier(Len(rows) + 1)
      BY <1>4 DEF Earlier
    <2>2. ASSUME ppc = "dump", NEW r \in 1 .. Len(rows)
          PROVE  (/\ rows[r].at = Word(range.addr + Cardinality(Earlier(r)))
                  /\ \A k \in 1 .. Len(rows[r].bytes) :
                         rows[r].bytes[k] = Seen(Word(range.addr + Cardinality(Earlier(r)) + k - 1)))'
      <3>1. Earlier(r)' = Earlier(r)
        BY <1>4 DEF Earlier
      <3>2. /\ rows[r].at = Word(range.addr + Cardinality(Earlier(r)))
            /\ \A k \in 1 .. Len(rows[r].bytes) :
                   rows[r].bytes[k] = Seen(Word(range.addr + Cardinality(Earlier(r)) + k - 1))
        BY <2>2 DEF DumpInv, DumpIsExact
      <3> QED
        BY <1>4, <3>1, <3>2 DEF Seen, Kind, Word
    <2> QED
      BY <1>4, <2>1, <2>2 DEF DumpInv, DumpIsExact
  <1>5. \/ PrintRow \/ StartFixed \/ BeginDump
        \/ ppc' # "dump" \/ UNCHANGED <<mem, stage, ppc, range, done, off, rows>>
    BY DEF Next, ProgramStep, vars, pvars, lvars, LoadFile, RefuseFixed, ReturnToStub,
           StartInteractive, ClearCommand, ReadCommand, ReadCommandFails, RefuseDump,
           CompleteDump, PushCommand, After, DumpTypeOK, Accept, Refuse,
           LoaderStep, WalkHeader, EndWalk
  <1> QED
    BY <1>1, <1>2, <1>3, <1>4, <1>5, PrintRowExact

\* What the PC sees of a dump is the memory, every byte of the range once and
\* at its address, whatever the sizes of range, chunk and row are, and also
\* where the addresses wrap around (dev_hexdump and the loops that call it).
THEOREM DumpsAreExact == Spec => []DumpIsExact
  <1>1. Init => DumpInv
    BY DEF Init, DumpInv, DumpIsExact
  <1>2. LoaderTypeOK /\ DumpTypeOK /\ DumpInv /\ [Next]_vars => DumpInv'
    BY DumpExactStep
  <1>3. DumpInv => DumpIsExact
    BY DEF DumpInv
  <1> QED
    BY <1>1, <1>2, <1>3, LoaderTypeCorrect, DumpTypeCorrect, PTL DEF Spec
=============================================================================
