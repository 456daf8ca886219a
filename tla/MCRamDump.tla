----------------------------- MODULE MCRamDump -----------------------------
(***************************************************************************)
(* Files of one and two segments: inside each other, one after the other,   *)
(* with the later one over the earlier, with bits of a kseg, with nothing   *)
(* to load, without an entry point, and without a byte in the file.        *)
(***************************************************************************)
EXTENDS RamDump

Seg(offset, vaddr, filesz, memsz) ==
    [offset |-> offset, vaddr |-> vaddr, filesz |-> filesz, memsz |-> memsz, load |-> TRUE]

\* A header that is not for loading
Note(filesz) ==
    [offset |-> 0, vaddr |-> 0, filesz |-> filesz, memsz |-> filesz, load |-> FALSE]

Elf(name, kind, addr, len, ph) ==
    [name |-> name, kind |-> kind, ph |-> ph, range |-> [addr |-> addr, len |-> len],
     size |-> 9, magic |-> TRUE, exec |-> TRUE, entry |-> 1]

MCFile == {
    Elf("dump", "ramdump", 1, 5, <<Seg(4, 9, 2, 4)>>),
    Elf("wrap", "ramdump", 14, 3, <<Seg(4, 2, 3, 3), Note(2), Seg(1, 3, 1, 3)>>),
    Elf("shell", "interactive", 0, 0, <<Seg(2, 0, 2, 4), Seg(5, 2, 2, 3)>>),
    Elf("bss", "interactive", 0, 0, <<Seg(2, 8, 1, 1), Seg(3, 1, 0, 3)>>),
    Elf("peek", "ioppeek", 0, 4, <<Note(2), Seg(3, 4, 2, 2)>>),
    Elf("far", "ioppeek", 3, 2, <<Seg(3, 4, 1, 1)>>),
    Elf("over", "ioppeek", 14, 4, <<Seg(3, 4, 1, 1)>>),
    [Elf("noentry", "ramdump", 0, 1, <<Seg(1, 5, 1, 1)>>) EXCEPT !.entry = 0],
    [Elf("short", "ramdump", 0, 1, << >>) EXCEPT !.size = 1],
    [Elf("junk", "ramdump", 0, 1, << >>) EXCEPT !.magic = FALSE],
    [Elf("object", "ramdump", 0, 1, << >>) EXCEPT !.exec = FALSE]}

MCChunk == [ramdump |-> 4, interactive |-> 4, ioppeek |-> 2]

\* Inside, at the end, beginning where the RAM ends, past it, empty, too long
MCCommand == {
    [addr |-> 1, len |-> 5], [addr |-> 4, len |-> 3], [addr |-> 6, len |-> 5],
    [addr |-> 15, len |-> 3], [addr |-> 0, len |-> 0], [addr |-> 6, len |-> 6]}
=============================================================================
