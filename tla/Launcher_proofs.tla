-------------------------- MODULE Launcher_proofs --------------------------
(***************************************************************************)
(* Theorems about the launcher: the mailbox keeps its promises under it,    *)
(* and what it counts is what the stub ran.                                *)
(***************************************************************************)
EXTENDS Launcher, DevMailboxLoader_proofs, FiniteSetTheorems

\* The card fails the launcher, and nothing else happens to the mailbox.
Failing ==
    /\ faults' = faults + 1
    /\ UNCHANGED <<chan, pc, spc, rmw, job, ghosts, powerOffs, resets>>

LEMMA MailboxUnderneath ==
    ASSUME [LauncherNext]_allVars
    PROVE  [Next]_vars \/ Failing
  BY DEF LauncherNext, McInit, McInitFails, StartStub, StartStubFails, PollDevHeader,
         PollFails, SwitchOff, StartAgain, LoadSeen, MailboxStep, allVars, Failing,
         Next, StubStep

\* A failure that is only counted disturbs none of the invariants.
LEMMA FailingKeeps ==
    ASSUME TypeOK, Failing
    PROVE  /\ TypeOK'
           /\ AnyHostInv => AnyHostInv'
           /\ QuietInv => QuietInv'
           /\ RejectReason'
           /\ [L!Next]_(L!vars)
           /\ UNCHANGED hdr
  <1>1. /\ faults \in Nat /\ powerOffs \in Nat /\ faults' = faults + 1
        /\ UNCHANGED <<hdr, staging, fw, host, log, spc, held, buf, claim, esize, rd, stage,
                       done, loaded, powerOffs, resets>>
    BY DEF TypeOK, Failing, chan, pc, rmw, job, ghosts
  <1>2. TypeOK'
    BY <1>1 DEF TypeOK
  <1>3. AnyHostInv => AnyHostInv'
    BY <1>1 DEF AnyHostInv, Current
  <1>4. QuietInv => QuietInv'
    BY <1>1 DEF QuietInv, Exclusive, NotStale, HeadSector, Offered, Holds, LastSize, Working,
                RunsWhatWasCommitted, Answered, AckIsForLatest
  <1>5. RejectReason'
    BY <1>1 DEF RejectReason
  <1>6. [L!Next]_(L!vars)
    <2>1. Running' = Running
      BY <1>1, SameRunning
    <2> QED
      BY <1>1, <2>1 DEF L!Disturb, L!Next
  <1> QED
    BY <1>1, <1>2, <1>3, <1>4, <1>5, <1>6

\* Every PC
LEMMA MailboxStays ==
    LauncherSpec => [](TypeOK /\ AnyHostInv)
  <1>1. LauncherInit => TypeOK /\ AnyHostInv
    BY TypeInit, AnyHostInit DEF LauncherInit
  <1>2. TypeOK /\ AnyHostInv /\ [LauncherNext]_allVars => TypeOK' /\ AnyHostInv'
    BY MailboxUnderneath, FailingKeeps, TypeStep, AnyHostStep
  <1> QED
    BY <1>1, <1>2, PTL DEF LauncherSpec

\* A PC that waits
LEMMA MailboxStaysQuiet ==
    ASSUME HostWaitsForIdle, ShortFiles
    PROVE  LauncherSpec => [](TypeOK /\ AnyHostInv /\ QuietInv /\ RejectReason)
  <1>1. LauncherInit => QuietInv /\ RejectReason
    BY QuietInit DEF LauncherInit, Init, RejectReason
  <1>2. TypeOK /\ AnyHostInv /\ QuietInv /\ RejectReason /\ [LauncherNext]_allVars
          => QuietInv' /\ RejectReason'
    BY MailboxUnderneath, FailingKeeps, QuietStep, RejectReasonStep
  <1> QED
    BY <1>1, <1>2, MailboxStays, PTL DEF LauncherSpec

\* A stub that a launcher starts, restarts and watches runs what was
\* committed, and the PC is told about its own image (stub_main.c:280-312;
\* load_and_start_stub of launcher_main.c).
THEOREM LauncherQuiet ==
    HostWaitsForIdle /\ ShortFiles
        => (LauncherSpec => [](QuietInv /\ RunsWhatWasCommitted /\ AckIsForLatest))
  <1> SUFFICES ASSUME HostWaitsForIdle, ShortFiles
               PROVE  LauncherSpec => [](QuietInv /\ RunsWhatWasCommitted /\ AckIsForLatest)
    OBVIOUS
  <1>1. QuietInv => RunsWhatWasCommitted /\ AckIsForLatest
    BY DEF QuietInv, Working, Answered
  <1> QED
    BY <1>1, MailboxStaysQuiet, PTL

\* The launcher reads the doorbell and never touches it.
THEOREM LauncherKeepsDoorbell ==
    HostWaitsForIdle /\ ShortFiles
        => (LauncherSpec => DoorbellNotLost /\ ArmedOnlyByCommit)
  <1> SUFFICES ASSUME HostWaitsForIdle, ShortFiles
               PROVE  LauncherSpec => DoorbellNotLost /\ ArmedOnlyByCommit
    OBVIOUS
  <1>1. TypeOK /\ AnyHostInv /\ QuietInv /\ RejectReason /\ [LauncherNext]_allVars
          => /\ [hdr.doorbell # 0 /\ hdr'.doorbell = 0
                   => hdr.doorbell = claim \/ fw = "reset_doorbell"]_vars
             /\ [hdr.doorbell = 0 /\ hdr'.doorbell # 0 => fw = "commit_doorbell"]_vars
    BY MailboxUnderneath, FailingKeeps, DoorbellStep
  <1> QED
    BY <1>1, MailboxStaysQuiet, PTL DEF LauncherSpec, DoorbellNotLost, ArmedOnlyByCommit

\* The mailbox with the launcher around it, switched off and started again at
\* any time, is still a loader that runs whole images, each once.
THEOREM LauncherIsLoader ==
    HostWaitsForIdle /\ ShortFiles => (LauncherSpec => ImplementsLoader)
  <1> SUFFICES ASSUME HostWaitsForIdle, ShortFiles
               PROVE  LauncherSpec => ImplementsLoader
    OBVIOUS
  <1>1. LauncherInit => L!Init
    BY DEF LauncherInit, Init, L!Init, ClearHdr, Committing, Running, Occupied, L!Nothing
  <1>2. TypeOK /\ AnyHostInv /\ QuietInv /\ RejectReason /\ [LauncherNext]_allVars
          => [L!Next]_(L!vars)
    BY MailboxUnderneath, FailingKeeps, LoaderStep
  <1> QED
    BY <1>1, <1>2, MailboxStaysQuiet, PTL DEF LauncherSpec, ImplementsLoader, L!Spec
-----------------------------------------------------------------------------
(* The variables of the launcher itself.                                   *)

MainInv ==
    /\ LauncherTypeOK
    /\ main = "start" => mcReady

\* What the mailbox does by itself
LEMMA MailboxStepKeeps ==
    ASSUME MailboxStep, spc = "off"
    PROVE  spc' = "off"
  BY DEF MailboxStep, HostStep, FwStep, FwStore, DevRingDoorbell, DevResetStores, BeginPush,
         PushChunk, Commit, CommitRefused, StatusPoll, GiveUp, Abandon, DevReset, McReadHdr,
         McWriteHdr, PollDoorbell, ReadSector, PollIdle, ElfOutput, ElfReturns, McFail,
         ReadFail, HdrJob, chan, pc, rmw, job, ghosts, bounds, vars

LEMMA LoadedGrows ==
    ASSUME MailboxStep \/ LoadSeen
    PROVE  /\ loaded \subseteq loaded'
           /\ session' \subseteq session \union {claim}
           /\ session \subseteq session'
           /\ \/ session' = session
              \/ spc' = "ack" /\ session' = session \union {claim} /\ claim \in loaded'
  BY DEF MailboxStep, LoadSeen, Load, HostStep, FwStep, FwStore, DevRingDoorbell,
         DevResetStores, BeginPush, PushChunk, Commit, CommitRefused, StatusPoll, GiveUp,
         Abandon, DevReset, McReadHdr, McWriteHdr, PollDoorbell, ReadSector, PollIdle,
         ElfOutput, ElfReturns, McFail, ReadFail, chan, pc, rmw, job, ghosts, bounds, vars,
         lvars

LEMMA MainInit == LauncherInit => MainInv
  <1> SUFFICES ASSUME LauncherInit PROVE MainInv
    OBVIOUS
  <1>1. TypeOK /\ spc = "off"
    BY TypeInit DEF LauncherInit, Init
  <1>2. view \in HdrType
    BY Sizes DEF LauncherInit, ClearHdr, HdrType
  <1>3. /\ main = "off" /\ mcReady \in BOOLEAN
        /\ elfsRun \in Nat /\ lastSz \in Nat /\ session = {} /\ counted = {}
    BY DEF LauncherInit
  <1> QED
    BY <1>1, <1>2, <1>3 DEF MainInv, LauncherTypeOK

LEMMA MainStep ==
    ASSUME MainInv, TypeOK', [LauncherNext]_allVars
    PROVE  MainInv'
  <1> USE DEF MainInv, LauncherTypeOK, lvars, screen, counters
  <1>0. /\ main \in {"off", "start", "loop"} /\ mcReady \in BOOLEAN
        /\ view \in HdrType /\ elfsRun \in Nat /\ lastSz \in Nat
        /\ session \subseteq loaded /\ counted \subseteq Nat
        /\ hdr \in HdrType
    BY DEF TypeOK
  <1>1. ASSUME UNCHANGED <<loaded, screen, session>>,
               main' \in {"off", "start", "loop"}, mcReady' \in BOOLEAN,
               main' # "loop" => spc' = "off",
               spc' # "off" \/ main' = "start" => mcReady'
        PROVE  MainInv'
    BY <1>0, <1>1
  <1>2. CASE McInit \/ McInitFails \/ StartStub \/ StartStubFails
    <2>1. UNCHANGED <<loaded, screen, session>>
      BY <1>2 DEF McInit, McInitFails, StartStub, StartStubFails, Boot, vars, ghosts
    <2>2. /\ main' \in {"off", "start", "loop"} /\ mcReady' \in BOOLEAN
          /\ main' # "loop" => spc' = "off"
          /\ spc' # "off" \/ main' = "start" => mcReady'
      BY <1>0, <1>2 DEF McInit, McInitFails, StartStub, StartStubFails, Boot, vars
    <2> QED
      BY <1>1, <2>1, <2>2
  <1>3. CASE PollDevHeader
    <2>1. UNCHANGED <<loaded, spc, main, mcReady, session>> /\ view' = hdr
      BY <1>3 DEF PollDevHeader, vars, ghosts
    <2>2. /\ elfsRun' \in Nat /\ lastSz' \in Nat /\ counted' \subseteq Nat
      <3>1. hdr.ack \in Nat /\ hdr.size \in Nat
        BY <1>0, Sizes DEF HdrType
      <3>2. CASE NewAck(hdr.ack)
        <4>1. /\ elfsRun' = elfsRun + 1 /\ lastSz' = hdr.size
              /\ counted' = counted \union {hdr.ack}
          BY <1>3, <3>2 DEF PollDevHeader
        <4>2. elfsRun' \in Nat
          BY <1>0, <4>1
        <4>3. lastSz' \in Nat
          BY <3>1, <4>1
        <4>4. counted' \subseteq Nat
          BY <1>0, <3>1, <4>1
        <4> QED
          BY <4>2, <4>3, <4>4
      <3>3. CASE ~NewAck(hdr.ack)
        BY <1>0, <1>3, <3>3 DEF PollDevHeader
      <3> QED
        BY <3>2, <3>3
    <2> QED
      BY <1>0, <2>1, <2>2
  <1>4. CASE PollFails \/ UNCHANGED allVars
    BY <1>0, <1>1, <1>4 DEF PollFails, allVars, vars, ghosts
  <1>5. CASE SwitchOff \/ StartAgain
    <2>1. main' = "off" /\ spc' = "off" /\ Fresh /\ UNCHANGED loaded
      BY <1>5 DEF SwitchOff, StartAgain, PowerOff, vars, ghosts
    <2>2. view' \in HdrType /\ elfsRun' \in Nat /\ lastSz' \in Nat
      BY <2>1, Sizes DEF Fresh, ClearHdr, HdrType
    <2> QED
      BY <2>1, <2>2 DEF Fresh
  <1>6. CASE LoadSeen \/ MailboxStep
    <2>1. UNCHANGED <<main, mcReady, screen>>
      BY <1>6 DEF LoadSeen, MailboxStep
    <2>2. session' \subseteq loaded'
      BY <1>0, <1>6, LoadedGrows
    <2>3. spc = "off" => spc' = "off"
      BY <1>6, MailboxStepKeeps DEF LoadSeen, Load
    <2> QED
      BY <1>0, <2>1, <2>2, <2>3
  <1> QED
    BY <1>2, <1>3, <1>4, <1>5, <1>6 DEF LauncherNext

\* Whatever PC and card do, there is no stub before the launcher has found the
\* card and started it, and what was loaded since is among what was loaded
\* ever (main of launcher_main.c).
THEOREM LauncherTypeCorrect == LauncherSpec => []LauncherTypeOK
  <1>1. MainInv => LauncherTypeOK
    BY DEF MainInv
  <1>2. MainInv /\ TypeOK' /\ [LauncherNext]_allVars => MainInv'
    BY MainStep
  <1> QED
    BY <1>1, <1>2, MainInit, MailboxStays, PTL DEF LauncherSpec
-----------------------------------------------------------------------------
(* What is counted, with a PC that waits.                                  *)

LEMMA CountInit ==
    LauncherInit => SeenOnce /\ OneInherited /\ AckHasSize /\ LastIsCommitted
  <1> SUFFICES ASSUME LauncherInit
               PROVE  SeenOnce /\ OneInherited /\ AckHasSize /\ LastIsCommitted
    OBVIOUS
  <1>1. /\ hdr.ack = 0 /\ fw = "idle" /\ spc = "off" /\ loaded = {}
        /\ elfsRun = 0 /\ counted = {}
    BY DEF LauncherInit, Init, ClearHdr
  <1>2. IsFiniteSet(counted) /\ Cardinality(counted) = 0
    BY <1>1, FS_EmptySet
  <1> QED
    BY <1>1, <1>2 DEF SeenOnce, OneInherited, AckHasSize, LastIsCommitted

\* The mailbox does nothing to header or commits.
LEMMA CountsKept ==
    ASSUME SeenOnce, OneInherited, AckHasSize, LastIsCommitted,
           UNCHANGED <<hdr, fw, log, loaded, view, counters, session>>,
           spc' = "ack" => claim' \in session'
    PROVE  (SeenOnce /\ OneInherited /\ AckHasSize /\ LastIsCommitted)'
  BY DEF SeenOnce, OneInherited, AckHasSize, LastIsCommitted, counters, Committing

\* A launcher just started has counted nothing.
LEMMA CountsFresh ==
    ASSUME SeenOnce, AckHasSize, Fresh, UNCHANGED <<hdr, fw, log, loaded>>, spc' = "off"
    PROVE  (SeenOnce /\ OneInherited /\ AckHasSize /\ LastIsCommitted)'
  <1>1. elfsRun' = 0 /\ counted' = {}
    BY DEF Fresh
  <1>2. IsFiniteSet(counted') /\ Cardinality(counted') = 0
    BY <1>1, FS_EmptySet
  <1> QED
    BY <1>1, <1>2 DEF SeenOnce, OneInherited, AckHasSize, LastIsCommitted, Committing

\* poll_dev_header: what it counts it has not counted before.
LEMMA CountsPoll ==
    ASSUME TypeOK, AnyHostInv, LauncherTypeOK,
           SeenOnce, OneInherited, AckHasSize, LastIsCommitted, PollDevHeader
    PROVE  (SeenOnce /\ OneInherited /\ AckHasSize /\ LastIsCommitted)'
  <1>1. /\ UNCHANGED <<hdr, fw, log, loaded, spc, claim, session>> /\ view' = hdr
    BY DEF PollDevHeader, vars, chan, pc, ghosts, job
  <1>2. CASE ~NewAck(hdr.ack)
    BY <1>1, <1>2 DEF PollDevHeader, NewAck, SeenOnce, OneInherited, AckHasSize,
                      LastIsCommitted, counters, Committing
  <1>3. CASE NewAck(hdr.ack)
    <2> DEFINE a == hdr.ack
    <2>1. a # 0 /\ view.ack = 0 /\ a \in loaded
      BY <1>3 DEF NewAck, AnyHostInv, Current
    <2>2. a \notin counted
      BY <2>1 DEF SeenOnce
    <2>3. elfsRun' = elfsRun + 1 /\ lastSz' = hdr.size /\ counted' = counted \union {a}
      BY <1>3 DEF PollDevHeader
    <2>4. IsFiniteSet(counted') /\ elfsRun' = Cardinality(counted')
      BY <2>2, <2>3, FS_AddElement DEF SeenOnce
    <2>5. SeenOnce'
      BY <1>1, <2>1, <2>3, <2>4 DEF SeenOnce, Committing
    <2>6. OneInherited'
      BY <1>1, <2>1, <2>3 DEF OneInherited
    <2>7. AckHasSize' /\ LastIsCommitted'
      BY <1>1, <2>1, <2>3 DEF AckHasSize, LastIsCommitted
    <2> QED
      BY <2>5, <2>6, <2>7
  <1> QED
    BY <1>2, <1>3

\* A commit is newer than everything that was counted.
LEMMA CountsCommit ==
    ASSUME TypeOK, QuietInv, SeenOnce, OneInherited, AckHasSize, LastIsCommitted,
           Commit, UNCHANGED lvars
    PROVE  (SeenOnce /\ OneInherited /\ AckHasSize /\ LastIsCommitted)'
  <1>1. /\ UNCHANGED <<hdr, loaded, spc, claim, view, counters, session>>
        /\ host.pc = "push" /\ log' = Append(log, host.img) /\ fw' = "commit_size"
    BY DEF Commit, lvars, screen, chan, job, ghosts
  <1>2. /\ log \in Seq(Image) /\ host.img \in Image /\ loaded \subseteq Nat
    BY <1>1 DEF TypeOK
  <1>3. /\ Len(log) \in Nat /\ Len(log') = Len(log) + 1
        /\ \A n \in 1 .. Len(log) : log'[n] = log[n]
    BY <1>1, <1>2
  <1>4. UNCHANGED <<elfsRun, lastSz, counted>>
    BY <1>1 DEF counters
  <1>5. SeenOnce'
    BY <1>1, <1>2, <1>3, <1>4 DEF SeenOnce, Committing
  <1>6. OneInherited'
    BY <1>1, <1>4 DEF OneInherited
  <1>7. AckHasSize' /\ LastIsCommitted'
    BY <1>1, <1>3, <1>4 DEF AckHasSize, LastIsCommitted
  <1> QED
    BY <1>5, <1>6, <1>7

\* dev_ring_doorbell: the ACK of the commit before goes, and its doorbell is
\* not on any more.
LEMMA CountsRing ==
    ASSUME ShortFiles, TypeOK, AnyHostInv, QuietInv,
           SeenOnce, OneInherited, AckHasSize, LastIsCommitted,
           DevRingDoorbell, UNCHANGED lvars
    PROVE  (SeenOnce /\ OneInherited /\ AckHasSize /\ LastIsCommitted)'
  <1>1. /\ UNCHANGED <<log, loaded, spc, claim, view, session, elfsRun, lastSz, counted>>
        /\ fw \in Committing /\ fw' # "reset_size"
        /\ fw' \in Committing \/ fw = "commit_doorbell"
    BY DEF DevRingDoorbell, FwStore, lvars, screen, counters, job, ghosts, Committing
  <1>2. /\ hdr \in HdrType /\ log \in Seq(Image) /\ log # << >> /\ loaded \subseteq Nat
    BY <1>1 DEF TypeOK, Committing
  <1>3. hdr.doorbell = 0
    BY <1>1 DEF QuietInv, Exclusive, Committing
  <1>4. \/ fw = "commit_size" /\ hdr'.size = SizeOf[log[Len(log)]]
           /\ hdr'.ack = hdr.ack /\ hdr'.doorbell = hdr.doorbell
        \/ fw = "commit_ack" /\ hdr'.ack = 0
           /\ hdr'.size = hdr.size /\ hdr'.doorbell = hdr.doorbell
        \/ fw = "commit_doorbell" /\ hdr'.doorbell = Len(log) /\ fw' = "idle"
           /\ hdr'.size = hdr.size /\ hdr'.ack = hdr.ack
    <2>1. Len(log) \in 1 .. Len(log)
      BY <1>2
    <2>2. WireSize(log[Len(log)]) = SizeOf[log[Len(log)]]
      <3>1. /\ log[Len(log)] \in Image /\ SizeOf[log[Len(log)]] \in Nat
            /\ SizeOf[log[Len(log)]] < LenModulus /\ LenModulus \in Nat
        BY <2>1, CommittedSize, MailboxAssumption DEF ShortFiles
      <3> QED
        BY <3>1 DEF WireSize
    <2> QED
      BY <1>2, <2>2 DEF DevRingDoorbell, FwStore, HdrType
  <1>5. Len(log) \in 1 .. Len(log)
    BY <1>2
  <1>6. SeenOnce'
    BY <1>1, <1>3, <1>4 DEF SeenOnce, Committing
  <1>7. OneInherited'
    BY <1>1, <1>4 DEF OneInherited
  <1>8. AckHasSize' /\ LastIsCommitted'
    BY <1>1, <1>4, <1>5 DEF AckHasSize, LastIsCommitted
  <1> QED
    BY <1>6, <1>7, <1>8

\* dev_reset, and its stores.
LEMMA CountsReset ==
    ASSUME TypeOK, QuietInv, SeenOnce, OneInherited, AckHasSize, LastIsCommitted,
           DevReset \/ DevResetStores, UNCHANGED lvars
    PROVE  (SeenOnce /\ OneInherited /\ AckHasSize /\ LastIsCommitted)'
  <1>1. /\ UNCHANGED <<log, loaded, spc, claim, view, session, elfsRun, lastSz, counted>>
        /\ fw \notin Committing /\ fw' \notin Committing
    BY DEF DevReset, DevResetStores, FwStore, lvars, screen, counters, job, ghosts, Committing
  <1>2. hdr \in HdrType
    BY DEF TypeOK
  <1>3. \/ hdr' = hdr /\ fw' # "reset_size"
        \/ hdr'.doorbell = 0 /\ hdr'.ack = hdr.ack /\ hdr'.size = hdr.size /\ fw' # "reset_size"
        \/ hdr'.doorbell = hdr.doorbell /\ hdr'.ack = 0 /\ fw = "reset_ack"
        \/ hdr'.doorbell = hdr.doorbell /\ hdr'.ack = hdr.ack /\ fw = "reset_size" /\ fw' = "idle"
    BY <1>2 DEF DevReset, DevResetStores, FwStore, chan, HdrType
  <1>4. fw = "reset_ack" => hdr.doorbell = 0
    BY DEF QuietInv, Exclusive
  <1>5. SeenOnce'
    BY <1>1, <1>3, <1>4 DEF SeenOnce
  <1>6. OneInherited'
    BY <1>1, <1>3 DEF OneInherited
  <1>7. AckHasSize' /\ LastIsCommitted'
    BY <1>1, <1>3 DEF AckHasSize, LastIsCommitted
  <1> QED
    BY <1>5, <1>6, <1>7

\* A header job: an ACK it writes is that of the doorbell which is still on.
LEMMA CountsJob ==
    ASSUME TypeOK, QuietInv, SeenOnce, OneInherited, AckHasSize, LastIsCommitted,
           McWriteHdr, UNCHANGED lvars
    PROVE  (SeenOnce /\ OneInherited /\ AckHasSize /\ LastIsCommitted)'
  <1>1. /\ UNCHANGED <<fw, log, loaded, claim, view, session, elfsRun, lastSz, counted>>
        /\ spc \in HdrJob /\ spc' = After(spc)
    BY DEF McWriteHdr, lvars, screen, counters, pc, job
  <1>2. hdr' = Patch(spc, hdr)
    BY DEF McWriteHdr, QuietInv, NotStale, HeadSector
  <1>3. /\ hdr'.size = hdr.size
        /\ hdr'.ack = IF spc = "ack" THEN claim ELSE hdr.ack
        /\ hdr'.doorbell = IF spc \in {"clear", "reject"} THEN 0 ELSE hdr.doorbell
    BY <1>1, <1>2, PatchedHdr DEF TypeOK
  <1>4. spc' # "ack"
    BY <1>1 DEF After, HdrJob
  <1>5. spc \in {"ack", "clear", "reject"} => claim = hdr.doorbell /\ claim # 0 /\ fw = "idle"
    BY DEF QuietInv, Working, Claiming, Exclusive
  <1>6. SeenOnce'
    BY <1>1, <1>3, <1>5 DEF SeenOnce, Committing
  <1>7. OneInherited'
    BY <1>1, <1>3, <1>4 DEF OneInherited
  <1>8. AckHasSize'
    <2>1. CASE spc = "ack"
      <3>1. hdr.size = LastSize /\ Len(log) \in 1 .. Len(log) /\ fw = "idle"
        BY <1>5, <2>1, Armed DEF TypeOK, HdrType
      <3> QED
        BY <1>1, <1>3, <3>1 DEF AckHasSize, LastSize
    <2>2. CASE spc # "ack"
      BY <1>1, <1>3, <2>2 DEF AckHasSize
    <2> QED
      BY <2>1, <2>2
  <1>9. LastIsCommitted'
    BY <1>1 DEF LastIsCommitted
  <1> QED
    BY <1>6, <1>7, <1>8, <1>9

\* What is loaded is the last commit, and belongs to this session.
LEMMA CountsLoad ==
    ASSUME TypeOK, AnyHostInv, QuietInv, SeenOnce, OneInherited, AckHasSize, LastIsCommitted,
           LoadSeen
    PROVE  (SeenOnce /\ OneInherited /\ AckHasSize /\ LastIsCommitted)'
  <1>1. /\ UNCHANGED <<hdr, fw, log, claim, view, elfsRun, lastSz, counted>>
        /\ spc = "load" /\ spc' \in {"ack", "reject"}
        /\ loaded' \in {loaded, loaded \union {claim}}
        /\ session' = IF spc' = "ack" THEN session \union {claim} ELSE session
    BY DEF LoadSeen, Load, screen, counters, chan, pc, job
  <1>2. claim <= Len(log) /\ (fw \in Committing => claim < Len(log))
    BY DEF AnyHostInv
  <1>3. SeenOnce'
    BY <1>1, <1>2 DEF SeenOnce, Committing
  <1>4. OneInherited'
    BY <1>1 DEF OneInherited
  <1>5. AckHasSize' /\ LastIsCommitted'
    BY <1>1 DEF AckHasSize, LastIsCommitted
  <1> QED
    BY <1>3, <1>4, <1>5

LEMMA CountsStep ==
    ASSUME HostWaitsForIdle, ShortFiles, TypeOK, AnyHostInv, QuietInv, LauncherTypeOK,
           SeenOnce, OneInherited, AckHasSize, LastIsCommitted, [LauncherNext]_allVars
    PROVE  (SeenOnce /\ OneInherited /\ AckHasSize /\ LastIsCommitted)'
  <1> DEFINE Same == /\ UNCHANGED <<hdr, fw, log, loaded, view, counters, session>>
                     /\ spc' = "ack" => spc = "ack" /\ claim' = claim
  <1>1. ASSUME Same
        PROVE  (SeenOnce /\ OneInherited /\ AckHasSize /\ LastIsCommitted)'
    <2>1. spc' = "ack" => claim' \in session'
      BY <1>1 DEF OneInherited
    <2> QED
      BY <1>1, <2>1, CountsKept
  <1>2. CASE \/ McInit \/ McInitFails \/ StartStub \/ StartStubFails \/ PollFails
             \/ UNCHANGED allVars
    <2>1. Same
      BY <1>2 DEF McInit, McInitFails, StartStub, StartStubFails, PollFails, Boot,
                  allVars, vars, lvars, screen, chan, pc, job, ghosts
    <2> QED
      BY <1>1, <2>1
  <1>3. CASE SwitchOff \/ StartAgain
    <2>1. Fresh /\ UNCHANGED <<hdr, fw, log, loaded>> /\ spc' = "off"
      BY <1>3 DEF SwitchOff, StartAgain, PowerOff, vars, chan, pc, ghosts
    <2> QED
      BY <2>1, CountsFresh
  <1>4. CASE MailboxStep
    <2>1. CASE Commit
      BY <1>4, <2>1, CountsCommit DEF MailboxStep
    <2>2. CASE DevRingDoorbell
      BY <1>4, <2>2, CountsRing DEF MailboxStep
    <2>3. CASE DevReset \/ DevResetStores
      BY <1>4, <2>3, CountsReset DEF MailboxStep
    <2>4. CASE McWriteHdr
      BY <1>4, <2>4, CountsJob DEF MailboxStep
    <2>5. CASE \/ (\E img \in Image : BeginPush(img)) \/ PushChunk \/ CommitRefused
               \/ StatusPoll \/ GiveUp \/ Abandon
               \/ McReadHdr \/ PollDoorbell \/ ReadSector \/ PollIdle \/ ElfOutput
               \/ ElfReturns \/ McFail \/ ReadFail
      <3>1. UNCHANGED <<hdr, fw, log, loaded>>
        BY <2>5 DEF BeginPush, PushChunk, CommitRefused, StatusPoll, GiveUp, Abandon,
                    McReadHdr, PollDoorbell, ReadSector, PollIdle, ElfOutput, ElfReturns,
                    McFail, ReadFail, vars, chan, pc, ghosts
      <3>2. spc' = "ack" => spc = "ack" /\ claim' = claim
        BY <2>5 DEF BeginPush, PushChunk, CommitRefused, StatusPoll, GiveUp, Abandon,
                    McReadHdr, PollDoorbell, ReadSector, PollIdle, ElfOutput, ElfReturns,
                    McFail, ReadFail, vars, job, After, HdrJob
      <3>3. UNCHANGED <<view, counters, session>>
        BY <1>4 DEF MailboxStep, lvars, screen
      <3> QED
        BY <1>1, <3>1, <3>2, <3>3
    <2> QED
      BY <1>4, <2>1, <2>2, <2>3, <2>4, <2>5 DEF MailboxStep, HostStep, FwStep
  <1> QED
    BY <1>2, <1>3, <1>4, CountsPoll, CountsLoad DEF LauncherNext

\* With a PC that waits for the stub, everything the launcher shows fits the
\* mailbox it watches.
THEOREM LauncherInvariant ==
    HostWaitsForIdle /\ ShortFiles => (LauncherSpec => []LauncherInv)
  <1> SUFFICES ASSUME HostWaitsForIdle, ShortFiles
               PROVE  LauncherSpec => []LauncherInv
    OBVIOUS
  <1> DEFINE Counts == SeenOnce /\ OneInherited /\ AckHasSize /\ LastIsCommitted
  <1>1. LauncherInit => Counts
    BY CountInit
  <1>2. TypeOK /\ AnyHostInv /\ QuietInv /\ LauncherTypeOK /\ Counts /\ [LauncherNext]_allVars
          => Counts'
    BY CountsStep
  <1>3. MainInv /\ TypeOK' /\ [LauncherNext]_allVars => MainInv'
    BY MainStep
  <1>4. MainInv => LauncherTypeOK
    BY DEF MainInv
  <1>5. MainInv /\ Counts => LauncherInv
    BY DEF MainInv, LauncherInv
  <1> HIDE DEF Counts
  <1> QED
    BY <1>1, <1>2, <1>3, <1>4, <1>5, MainInit, MailboxStaysQuiet, PTL DEF LauncherSpec

\* Every run that is counted is a commit the stub loaded, no commit is counted
\* twice, at most one of them was run by the session before, and the size
\* shown is that of a committed image (poll_dev_header of launcher_main.c).
THEOREM LauncherCorrect ==
    HostWaitsForIdle /\ ShortFiles
        => (LauncherSpec => [](CountedOnce /\ LastIsCommitted))
  <1> SUFFICES ASSUME HostWaitsForIdle, ShortFiles
               PROVE  LauncherSpec => [](CountedOnce /\ LastIsCommitted)
    OBVIOUS
  <1>1. LauncherInv => CountedOnce /\ LastIsCommitted
    <2> SUFFICES ASSUME SeenOnce, OneInherited PROVE CountedOnce
      BY DEF LauncherInv
    <2>1. Cardinality(counted \ session) <= 1
      <3>1. CASE counted \ session = {}
        BY <3>1, FS_EmptySet
      <3>2. CASE counted \ session # {}
        <4>1. PICK c : c \in counted \ session
          BY <3>2
        <4>2. counted \ session = {c}
          BY <4>1 DEF OneInherited
        <4> QED
          BY <4>2, FS_Singleton
      <3> QED
        BY <3>1, <3>2
    <2> QED
      BY <2>1 DEF CountedOnce, SeenOnce
  <1> QED
    BY <1>1, LauncherInvariant, PTL
=============================================================================
