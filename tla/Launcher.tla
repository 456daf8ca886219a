------------------------------ MODULE Launcher ------------------------------
(***************************************************************************)
(* The launcher (launcher/launcher_main.c) around the mailbox: it starts    *)
(* the stub as a thread of lower priority, and then reads the header sector *)
(* every 30 frames to show what the mailbox does and to count the programs  *)
(* run since it was started.                                               *)
(*                                                                         *)
(* A poll may come at any time, the frames are not counted.  The rows of    *)
(* the screen show these variables and have none of their own.             *)
(***************************************************************************)
EXTENDS DevMailboxInv, FiniteSets

VARIABLES
    main,       \* where main() is
    mcReady,    \* _mc_ready
    view,       \* the header as last read: _doorbell, _elf_size, _ack
    elfsRun,    \* _elfs_run
    lastSz,     \* _last_sz
    session,    \* ghost: the commits loaded since the console was switched on
    counted     \* ghost: the commits whose ACK was counted

counters == <<elfsRun, lastSz, counted>>
screen   == <<view, counters>>
lvars    == <<main, mcReady, screen, session>>
allVars  == <<vars, lvars>>

\* Static variables of a launcher just loaded
Fresh ==
    /\ mcReady' = FALSE /\ view' = ClearHdr
    /\ elfsRun' = 0 /\ lastSz' = 0
    /\ session' = {} /\ counted' = {}

LauncherInit ==
    /\ Init
    /\ main = "off" /\ mcReady = FALSE /\ view = ClearHdr
    /\ elfsRun = 0 /\ lastSz = 0
    /\ session = {} /\ counted = {}
-----------------------------------------------------------------------------
\* The user starts the launcher; mc_access_init finds the card ...
McInit ==
    /\ main = "off" /\ spc = "off"
    /\ main' = "start" /\ mcReady' = TRUE
    /\ UNCHANGED <<vars, screen, session>>

\* ... or not, and then the stub is not even loaded
McInitFails ==
    /\ main = "off" /\ spc = "off"
    /\ faults < MaxFaults /\ faults' = faults + 1
    /\ main' = "loop" /\ mcReady' = FALSE
    /\ UNCHANGED <<chan, pc, spc, rmw, job, ghosts, powerOffs, resets, screen, session>>

\* load_and_start_stub: SifLoadElf, CreateThread, StartThread
StartStub ==
    /\ main = "start"
    /\ Boot
    /\ main' = "loop"
    /\ UNCHANGED <<mcReady, screen, session>>

\* One of them fails; main() goes on without a stub
StartStubFails ==
    /\ main = "start"
    /\ faults < MaxFaults /\ faults' = faults + 1
    /\ main' = "loop"
    /\ UNCHANGED <<chan, pc, spc, rmw, job, ghosts, powerOffs, resets, mcReady, screen, session>>

\* Mutant: every poll that sees an ACK counts
CountsEveryPoll(ack) == ack # 0

\* Mutant: a poll is counted when the ACK goes away
CountsFallingAck(ack) == ack = 0 /\ view.ack # 0

\* The code compares ACK with the magic word only: it sees an edge
NewAck(ack) == ack # 0 /\ view.ack = 0

\* poll_dev_header.  prev_ack is always the _ack of the last poll.
PollDevHeader ==
    /\ main = "loop" /\ mcReady
    /\ view' = hdr
    /\ IF NewAck(hdr.ack)
       THEN /\ elfsRun' = elfsRun + 1
            /\ lastSz' = hdr.size
            /\ counted' = counted \union {hdr.ack}
       ELSE UNCHANGED counters
    /\ UNCHANGED <<vars, main, mcReady, session>>

\* The sector cannot be read, or there is no card: the screen stays as it is
PollFails ==
    /\ main = "loop"
    /\ UNCHANGED allVars

\* The console is switched off, whatever it does
SwitchOff ==
    /\ main # "off"
    /\ PowerOff
    /\ main' = "off" /\ Fresh

\* The user sees that there is no stub and starts the launcher again
StartAgain ==
    /\ main = "loop" /\ spc = "off"
    /\ HostWaitsForIdle => host.pc # "push" /\ fw = "idle"
    /\ main' = "off" /\ Fresh
    /\ UNCHANGED vars

\* The stub loads a program
LoadSeen ==
    /\ Load
    /\ session' = IF spc' = "ack" THEN session \union {claim} ELSE session
    /\ UNCHANGED <<main, mcReady, screen>>

\* Everything else the mailbox does is nothing to the launcher
MailboxStep ==
    /\ \/ HostStep \/ FwStep
       \/ McReadHdr \/ McWriteHdr \/ PollDoorbell \/ ReadSector
       \/ PollIdle \/ ElfOutput \/ ElfReturns
       \/ McFail \/ ReadFail
    /\ UNCHANGED lvars

LauncherNext ==
    \/ McInit \/ McInitFails
    \/ StartStub \/ StartStubFails
    \/ PollDevHeader \/ PollFails
    \/ SwitchOff \/ StartAgain
    \/ LoadSeen
    \/ MailboxStep

LauncherSpec == LauncherInit /\ [][LauncherNext]_allVars

\* As FairSpec of DevMailbox, with the steps that start the stub in the place
\* of Boot.  The polls of the launcher need no fairness: they only read.
LauncherFairSpec ==
    /\ LauncherSpec
    /\ WF_allVars(FwStep /\ MailboxStep)
    /\ WF_allVars(StubStep /\ (LoadSeen \/ MailboxStep))
    /\ WF_allVars(McInit \/ StartStub \/ StartAgain)
-----------------------------------------------------------------------------
LauncherTypeOK ==
    /\ TypeOK
    /\ main \in {"off", "start", "loop"}
    /\ mcReady \in BOOLEAN
    /\ view \in HdrType
    /\ elfsRun \in Nat /\ lastSz \in Nat
    /\ session \subseteq loaded /\ counted \subseteq Nat
    /\ main # "loop" => spc = "off"
    /\ spc # "off" => mcReady

\* With a PC that waits for the stub, every run that is counted is a commit
\* the stub loaded, none is counted twice, and at most one of them is older
\* than this session: the one whose ACK the last session left in the header
\* (launcher_main.c:184-190 sees edges of a word that outlives the console).
CountedOnce ==
    /\ counted \subseteq loaded
    /\ elfsRun = Cardinality(counted)
    /\ Cardinality(counted \ session) <= 1

\* The size shown with it is that of an image that was committed, in whatever
\* order the poll meets the stores of a commit or a reset
\* (launcher_main.c:187, usb_bridge.c:226-233, :288-291).
LastIsCommitted ==
    elfsRun > 0 => \E i \in 1 .. Len(log) : lastSz = SizeOf[log[i]]

(* The inductive invariant behind both.                                    *)

\* What was loaded was committed before, and the ACK a poll has seen
\* disappears only together with the doorbell it belongs to, and for good
SeenOnce ==
    /\ \A c \in loaded : c <= Len(log) /\ (fw \in Committing => c < Len(log))
    /\ IsFiniteSet(counted) /\ elfsRun = Cardinality(counted)
    /\ \A c \in counted :
        /\ c # 0 /\ c \in loaded
        /\ \/ hdr.ack = c /\ view.ack = c
           \/ c \notin {hdr.ack, hdr.doorbell} /\ (fw \in Committing => c # Len(log))

\* Only the ACK that the console found when it was switched on is of no
\* program of this session
OneInherited ==
    /\ spc = "ack" => claim \in session
    /\ \A c \in counted \ session :
        /\ hdr.ack \in session \union {0, c}
        /\ \A d \in counted \ session : c = d

\* ACK and size: a reset takes the ACK away first
AckHasSize ==
    /\ hdr.ack # 0 => \E i \in 1 .. Len(log) : hdr.size = SizeOf[log[i]]
    /\ fw = "reset_size" => hdr.ack = 0

\* Types, and what the launcher knows of a mailbox whose PC waits for the
\* stub: each state of both (launcher_main.c:171-190) is one of these.
LauncherInv ==
    /\ LauncherTypeOK
    /\ main = "start" => mcReady
    /\ SeenOnce /\ OneInherited /\ AckHasSize /\ LastIsCommitted
=============================================================================
