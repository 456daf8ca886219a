----------------------------- MODULE ElfLoader -----------------------------
(***************************************************************************)
(* load_elf_from_staging of the stub (ps2stub/stub_main.c): the checks of   *)
(* the ELF header, and the walk over the program headers that puts the      *)
(* LOAD segments where they belong.                                        *)
(*                                                                         *)
(* A file is its header fields and its program headers; byte i of it is     *)
(* <<name, i>>.  That no segment reaches the memory of the stub itself,     *)
(* and that a segment's bytes lie in the file, is taken for granted: the    *)
(* code checks neither.                                                    *)
(***************************************************************************)
EXTENDS Integers, Sequences

CONSTANTS
    File,           \* the ELF files that may be in _stage_buf
    RamSize,        \* the mapped RAM of the EE
    KsegSize,       \* the bits of a virtual address that are kept, as a modulus
    EhdrSize,       \* sizeof(Elf32_Ehdr)
    MaxLoads        \* bound of the runs

ASSUME LoaderAssumption ==
    /\ {RamSize, KsegSize, EhdrSize, MaxLoads} \subseteq Nat
    /\ RamSize <= KsegSize /\ KsegSize > 0

HeaderType == [load : BOOLEAN, offset : Nat, vaddr : Nat, filesz : Nat, memsz : Nat]

ASSUME FileAssumption ==
    \A f \in File :
        /\ f.size \in Nat /\ f.entry \in Nat
        /\ f.magic \in BOOLEAN /\ f.exec \in BOOLEAN
        /\ f.ph \in Seq(HeaderType)

VARIABLES
    mem,            \* the RAM
    lpc,            \* "wait", "walk", or "run" while the program runs
    stage,          \* the file in _stage_buf
    i,              \* the program header looked at
    before,         \* ghost: the RAM when the walk began
    loads           \* counted against MaxLoads

lvars == <<mem, lpc, stage, i, before, loads>>

Ram == 0 .. RamSize - 1

FileByte(f, k) == <<f.name, k>>

Zero == <<"zero", 0>>

Power == <<"power", 0>>         \* what RAM holds when the console is switched on

Content == ({f.name : f \in File} \union {"zero", "power"}) \X Nat

LoaderInit ==
    /\ mem = [a \in Ram |-> Power] /\ before = mem
    /\ lpc = "wait" /\ i = 1 /\ loads = 0
    /\ stage \in File
-----------------------------------------------------------------------------
Refused(f) == f.size < EhdrSize \/ ~f.magic \/ ~f.exec

\* The stub says what is wrong, acknowledges nothing and polls again
Refuse(f) ==
    /\ lpc = "wait"
    /\ Refused(f)
    /\ stage' = f
    /\ UNCHANGED <<mem, lpc, i, before, loads>>

Accept(f) ==
    /\ lpc = "wait"
    /\ ~Refused(f)
    /\ loads < MaxLoads /\ loads' = loads + 1
    /\ stage' = f
    /\ lpc' = "walk" /\ i' = 1 /\ before' = mem
    /\ UNCHANGED mem

Header == stage.ph[i]

\* The bytes of the kseg are stripped from the address
Dst(ph) == ph.vaddr % KsegSize

Copied(ph) == Dst(ph) .. Dst(ph) + ph.filesz - 1

Extent(ph) == Dst(ph) .. Dst(ph) + ph.memsz - 1

Reach(ph) == Copied(ph) \union Extent(ph)

\* Mutant: the BSS begins where the segment does
ClearsWhole(ph) ==
    [a \in Ram |->
        IF a \in Extent(ph) /\ ph.memsz > ph.filesz THEN Zero
        ELSE IF a \in Copied(ph) THEN FileByte(stage, ph.offset + (a - Dst(ph)))
        ELSE mem[a]]

\* Mutant: the rest of the segment is left as it is
LeavesBss(ph) ==
    [a \in Ram |->
        IF a \in Copied(ph) THEN FileByte(stage, ph.offset + (a - Dst(ph))) ELSE mem[a]]

\* memcpy, then memset of what the segment is longer in memory than in the file
Filled(ph) ==
    [a \in Ram |->
        IF a \in Copied(ph) THEN FileByte(stage, ph.offset + (a - Dst(ph)))
        ELSE IF a \in Extent(ph) THEN Zero
        ELSE mem[a]]

Skipped(ph) == ~ph.load \/ ph.filesz = 0

WalkHeader ==
    /\ lpc = "walk" /\ i <= Len(stage.ph)
    /\ mem' = IF Skipped(Header) THEN mem ELSE Filled(Header)
    /\ i' = i + 1
    /\ UNCHANGED <<lpc, stage, before, loads>>

\* Mutant: the answer 0 is not taken for a failure
StartsAnyway == "run"

\* The entry point is the answer; 0 means failure
Started == IF stage.entry = 0 THEN "wait" ELSE "run"

EndWalk ==
    /\ lpc = "walk" /\ i > Len(stage.ph)
    /\ lpc' = Started
    /\ UNCHANGED <<mem, stage, i, before, loads>>

LoaderStep == WalkHeader \/ EndWalk
-----------------------------------------------------------------------------
LoaderTypeOK ==
    /\ mem \in [Ram -> Content] /\ before \in [Ram -> Content]
    /\ lpc \in {"wait", "walk", "run"}
    /\ stage \in File
    /\ i \in Nat \ {0} /\ loads \in Nat
    /\ lpc = "walk" => i <= Len(stage.ph) + 1
    /\ lpc = "run" => i = Len(stage.ph) + 1 /\ stage.entry # 0

\* The RAM is what the headers in the set H ask for: the last of them that
\* reaches an address decides what is there.
InPlace(H) ==
    \A a \in Ram :
        \/ /\ \A h \in H : a \notin Reach(stage.ph[h])
           /\ mem[a] = before[a]
        \/ \E h \in H :
            /\ a \in Reach(stage.ph[h])
            /\ \A g \in H : g > h => a \notin Reach(stage.ph[g])
            /\ mem[a] = IF a \in Copied(stage.ph[h])
                        THEN FileByte(stage, stage.ph[h].offset + (a - Dst(stage.ph[h])))
                        ELSE Zero

\* Inductive: after each header, those before it are in place.
LoadInv ==
    lpc # "wait" => InPlace({h \in DOMAIN stage.ph : h < i /\ ~Skipped(stage.ph[h])})

\* A program starts in the memory its file describes, whatever was there
\* before: its segments, zeros to the end of each, and the rest untouched.
\* Segments without a byte in the file are not counted here.
SegmentsInPlace ==
    lpc = "run" => InPlace({h \in DOMAIN stage.ph : ~Skipped(stage.ph[h])})

\* The same of every segment ("Zero BSS (memsz > filesz)", stub_main.c:151).
BssCleared ==
    lpc = "run" => InPlace({h \in DOMAIN stage.ph : stage.ph[h].load})
=============================================================================
