------------------------------ MODULE RamDump ------------------------------
(***************************************************************************)
(* The test programs that print memory: elfs/phase1/ramdump.c, with a       *)
(* range fixed when it is built, elfs/phase1/ramdump_interactive.c, which   *)
(* takes its ranges from twelve bytes of the channel, and                   *)
(* elfs/phase2/ioppeek.c, which prints memory of the IOP.  All of them      *)
(* print in chunks, and a chunk in rows (dev_hexdump, elfs/phase1/dev_io.c).*)
(*                                                                         *)
(* The twelve bytes lie in the staging area, where WRITE is refused: what    *)
(* ELF_PUSH leaves there is the command.  A program is loaded by the stub    *)
(* and prints the memory it was loaded into.                               *)
(***************************************************************************)
EXTENDS ElfLoader, FiniteSets

CONSTANTS
    WordModulus,    \* 2^32
    IopSize,        \* IOP_RAM_SIZE
    MaxDump,        \* the longest range the interactive program accepts
    Chunk,          \* CHUNK_SIZE of a program: [kind -> Nat]
    RowSize,        \* bytes in a line of dev_hexdump
    Command,        \* the ranges the PC may ask for
    NoCommand,
    MaxCommands, MaxFaults      \* bounds of the runs

Kinds == {"ramdump", "interactive", "ioppeek"}

\* A first address and a length
Range32 == [addr : 0 .. WordModulus - 1, len : 0 .. WordModulus - 1]

ASSUME DumpAssumption ==
    /\ {WordModulus, IopSize, MaxDump, RowSize, MaxCommands, MaxFaults} \subseteq Nat
    /\ RowSize > 0 /\ WordModulus > 0
    /\ RamSize + MaxDump <= WordModulus
    /\ Chunk \in [Kinds -> Nat \ {0}]
    /\ Command \subseteq Range32 /\ NoCommand \notin Command
    /\ \A f \in File : f.kind \in Kinds /\ f.range \in Range32

VARIABLES
    ppc,            \* where the program is
    range,          \* [addr, len] of the dump
    done, off,      \* of the chunks, and in the chunk
    rows,           \* the lines of the dump
    said,           \* the last message
    cell,           \* the twelve bytes
    asked,          \* ghost: the command the PC waits for
    uncleared,      \* ghost: a command could not be cleared
    commands, faults

pvars == <<ppc, range, done, off, rows, said, cell, asked, uncleared, commands, faults>>
vars  == <<lvars, pvars>>

Kind == stage.kind

Init ==
    /\ LoaderInit
    /\ ppc = "off" /\ range = [addr |-> 0, len |-> 0]
    /\ done = 0 /\ off = 0 /\ rows = << >> /\ said = "none"
    /\ cell = NoCommand /\ asked = NoCommand /\ uncleared = FALSE
    /\ commands = 0 /\ faults = 0
-----------------------------------------------------------------------------
Word(n) == n % WordModulus


StartDump(r) ==
    /\ ppc' = "dump" /\ range' = r
    /\ done' = 0 /\ off' = 0 /\ rows' = << >>

\* Mutant: only the first address is compared
IopStarts(r) == r.addr < IopSize

IopFits(r) == Word(r.addr + r.len) <= IopSize

\* main of ramdump.c: no check at all.  ioppeek.c refuses what reaches past
\* the memory of the IOP, as far as a 32-bit sum shows it.
StartFixed ==
    /\ lpc = "run" /\ ppc = "off"
    /\ \/ Kind = "ramdump"
       \/ Kind = "ioppeek" /\ IopFits(stage.range)
    /\ StartDump(stage.range)
    /\ said' = "dump"
    /\ UNCHANGED <<lvars, cell, asked, uncleared, commands, faults>>

\* The program ends and the stub polls again
ReturnToStub ==
    /\ lpc' = "wait" /\ ppc' = "off"
    /\ UNCHANGED <<mem, stage, i, before, loads>>

RefuseFixed ==
    /\ lpc = "run" /\ ppc = "off"
    /\ Kind = "ioppeek" /\ ~IopFits(stage.range)
    /\ said' = "invalid"
    /\ ReturnToStub
    /\ UNCHANGED <<range, done, off, rows, cell, asked, uncleared, commands, faults>>

\* main of ramdump_interactive.c: mc_access_init, and the announcement
StartInteractive ==
    /\ lpc = "run" /\ ppc = "off" /\ Kind = "interactive"
    /\ \/ /\ ppc' = "stale" /\ said' = "waiting"
          /\ UNCHANGED <<lvars, faults>>
       \/ /\ faults < MaxFaults /\ faults' = faults + 1
          /\ said' = "failed"
          /\ ReturnToStub
    /\ UNCHANGED <<range, done, off, rows, cell, asked, uncleared, commands>>

\* Mutant: a command is cleared when its dump is done, as
\* ramdump_interactive.c:15 has it
ClearsWhenDone(step) ==
    CASE step = "poll"  -> "begin"
      [] step = "dump"  -> "clear"
      [] OTHER          -> "poll"

\* The body of the loop: read_command, clear_command, do_dump.  The first
\* clear_command, of a stale command, leads into it.
After(step) ==
    CASE step = "poll"  -> "clear"
      [] step = "clear" -> "begin"
      [] OTHER          -> "poll"

\* clear_command; its result is not looked at
ClearCommand ==
    /\ ppc \in {"stale", "clear"}
    /\ ppc' = After(ppc)
    /\ \/ cell' = NoCommand /\ UNCHANGED <<uncleared, faults>>
       \/ /\ faults < MaxFaults /\ faults' = faults + 1
          /\ uncleared' = TRUE /\ UNCHANGED cell
    /\ UNCHANGED <<lvars, range, done, off, rows, said, asked, commands>>

\* read_command finds the magic word, or the program polls again
ReadCommand ==
    /\ ppc = "poll"
    /\ IF cell = NoCommand THEN UNCHANGED <<ppc, range>>
       ELSE range' = cell /\ ppc' = After(ppc)
    /\ UNCHANGED <<lvars, done, off, rows, said, cell, asked, uncleared, commands, faults>>

ReadCommandFails ==
    /\ ppc = "poll"
    /\ faults < MaxFaults /\ faults' = faults + 1
    /\ said' = "error"
    /\ UNCHANGED <<lvars, ppc, range, done, off, rows, cell, asked, uncleared, commands>>

\* Mutant: the length is not limited
AnyLength(r) == r.addr > RamSize \/ r.len = 0

\* Mutant: the address is not looked at
AnyAddress(r) == r.len = 0 \/ r.len > MaxDump

\* do_dump compares only the first address, and RamSize itself passes
InvalidRange(r) == r.addr > RamSize \/ r.len = 0 \/ r.len > MaxDump

\* The PC has its answer
Answer == asked' = IF asked = range THEN NoCommand ELSE asked

RefuseDump ==
    /\ ppc = "begin" /\ InvalidRange(range)
    /\ said' = "invalid" /\ Answer
    /\ ppc' = After("dump")
    /\ UNCHANGED <<lvars, range, done, off, rows, cell, uncleared, commands, faults>>

BeginDump ==
    /\ ppc = "begin" /\ ~InvalidRange(range)
    /\ StartDump(range)
    /\ said' = "dump"
    /\ UNCHANGED <<lvars, cell, asked, uncleared, commands, faults>>
-----------------------------------------------------------------------------
\* The byte at an address, as a program of this kind sees it
Seen(a) ==
    IF Kind = "ioppeek" THEN <<"iop", a>>
    ELSE IF a \in Ram THEN mem[a]
    ELSE <<"unmapped", a>>

\* Mutant: the last chunk is as long as the others
WholeChunk == Chunk[Kind]

ThisChunk == IF range.len - done > Chunk[Kind] THEN Chunk[Kind] ELSE range.len - done

ThisRow == IF ThisChunk - off > RowSize THEN RowSize ELSE ThisChunk - off

\* Mutant: rows are labelled with the address of their chunk
ChunkLabel == Word(range.addr + done)

Label == Word(Word(range.addr + done) + off)

\* One turn of the loop of dev_hexdump, and the end of the chunk with the last
PrintRow ==
    /\ ppc = "dump" /\ done < range.len
    /\ rows' = Append(rows,
           [at |-> Label,
            bytes |-> [k \in 1 .. ThisRow |-> Seen(Word(range.addr + done + off + k - 1))]])
    /\ IF off + ThisRow < ThisChunk
       THEN off' = off + ThisRow /\ UNCHANGED done
       ELSE off' = 0 /\ done' = done + ThisChunk
    /\ UNCHANGED <<lvars, ppc, range, said, cell, asked, uncleared, commands, faults>>

\* "dump complete"
CompleteDump ==
    /\ ppc = "dump" /\ done >= range.len
    /\ said' = "complete"
    /\ IF Kind = "interactive"
       THEN ppc' = After(ppc) /\ Answer /\ UNCHANGED lvars
       ELSE ReturnToStub /\ UNCHANGED asked
    /\ UNCHANGED <<range, done, off, rows, cell, uncleared, commands, faults>>

ProgramStep ==
    \/ StartFixed \/ RefuseFixed \/ StartInteractive
    \/ ClearCommand \/ ReadCommand
    \/ RefuseDump \/ BeginDump \/ PrintRow \/ CompleteDump

\* A push leaves a command in the staging area.  The PC waits for the answer
\* to one before the next, and until the program has cleared what was stale:
\* it says that it waits before it does (ramdump_interactive.c:94, :100).
PushCommand(c) ==
    /\ ppc \notin {"off", "stale"} /\ Kind = "interactive"
    /\ asked = NoCommand
    /\ commands < MaxCommands /\ commands' = commands + 1
    /\ cell' = c /\ asked' = c
    /\ UNCHANGED <<lvars, ppc, range, done, off, rows, said, uncleared, faults>>

\* A new file is pushed over the twelve bytes, then loaded
LoadFile(f) ==
    /\ Accept(f) \/ Refuse(f)
    /\ cell' \in Command \union {NoCommand}
    /\ UNCHANGED <<ppc, range, done, off, rows, said, asked, uncleared, commands, faults>>

Next ==
    \/ \E f \in File : LoadFile(f)
    \/ LoaderStep /\ UNCHANGED pvars
    \/ ProgramStep
    \/ ReadCommandFails
    \/ \E c \in Command : PushCommand(c)

Spec == Init /\ [][Next]_vars

\* The console does not stop between two steps of the program
FairSpec == Spec /\ WF_vars(ProgramStep)
-----------------------------------------------------------------------------
Byte == Content \union ({"iop", "unmapped"} \X Nat)

\* Types, and how far a dump has come: always at the beginning of a row that
\* is not empty, or at the end.
DumpTypeOK ==
    /\ ppc \in {"off", "stale", "poll", "clear", "begin", "dump"}
    /\ ppc # "off" => lpc = "run"
    /\ ppc \in {"stale", "poll", "clear", "begin"} => Kind = "interactive"
    /\ range \in Range32
    /\ done \in Nat /\ off \in Nat
    /\ rows \in Seq([at : Nat, bytes : Seq(Byte)])
    /\ cell \in Command \union {NoCommand} /\ asked \in Command \union {NoCommand}
    /\ uncleared \in BOOLEAN /\ commands \in Nat /\ faults \in Nat
    /\ ppc = "dump" =>
        /\ done <= range.len
        /\ IF done < range.len THEN off < ThisChunk ELSE off = 0
        /\ Kind = "interactive" => ~InvalidRange(range)
        /\ Kind = "ioppeek" => IopFits(range)

\* Types of the loader and of the program it has started.
TypeOK == LoaderTypeOK /\ DumpTypeOK

\* The rows stay in a range that does not wrap around.
RowsInRange ==
    ppc = "dump" /\ range.addr + range.len <= WordModulus =>
        \A r \in 1 .. Len(rows) :
            /\ rows[r].at >= range.addr
            /\ rows[r].at + Len(rows[r].bytes) <= range.addr + range.len

\* The bytes in the rows before row r
Earlier(r) == UNION {{q} \X (1 .. Len(rows[q].bytes)) : q \in 1 .. r - 1}

\* What a dump has printed is the range asked for, byte after byte from its
\* first address, none twice and none left out, also where chunks and rows
\* meet; every row is labelled with the address of its first byte.
DumpIsExact ==
    ppc = "dump" =>
        /\ done + off <= range.len
        /\ Cardinality(Earlier(Len(rows) + 1)) = done + off
        /\ \A r \in 1 .. Len(rows) :
            LET first == range.addr + Cardinality(Earlier(r)) IN
                /\ rows[r].at = Word(first)
                /\ \A k \in 1 .. Len(rows[r].bytes) :
                       rows[r].bytes[k] = Seen(Word(first + k - 1))

\* A command cannot make the interactive program print more than MaxDump
\* bytes past the end of the RAM, and its addresses do not wrap around
\* (ramdump_interactive.c:69 lets those bytes through, and no more).
OvershootBounded ==
    ppc = "dump" /\ Kind = "interactive" =>
        \A r \in 1 .. Len(rows) :
            /\ rows[r].at >= range.addr
            /\ rows[r].at + Len(rows[r].bytes) <= RamSize + MaxDump

\* ioppeek prints addresses of the IOP's memory only, unless the sum in
\* ioppeek.c:82 overflows.
PeekInside ==
    ppc = "dump" /\ Kind = "ioppeek" /\ range.addr + range.len < WordModulus =>
        \A r \in 1 .. Len(rows) : rows[r].at + Len(rows[r].bytes) <= IopSize

\* Every command of a PC that waits for the answers is answered, unless an
\* earlier one could not be cleared: clear_command comes before the dump, so
\* that a command stored after "dump complete" is not cleared with it.
CommandAnswered ==
    asked # NoCommand ~> asked = NoCommand \/ uncleared
=============================================================================
