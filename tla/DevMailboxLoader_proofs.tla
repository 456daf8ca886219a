----------------------- MODULE DevMailboxLoader_proofs -----------------------
(***************************************************************************)
(* The mailbox implements Loader for a PC that pushes, commits and resets   *)
(* only while the stub is quiet.                                           *)
(***************************************************************************)
EXTENDS DevMailboxLoader, DevMailbox_proofs

\* Every image that was committed has the size the firmware was told, and the
\* stub accepts it.
LEMMA CommittedSize ==
    ASSUME TypeOK, ShortFiles, NEW i \in 1 .. Len(log)
    PROVE  log[i] \in Image /\ SizeOf[log[i]] \in 1 .. MaxPayload /\ SizeFits(SizeOf[log[i]])
  <1>1. log[i] \in Image /\ Accepted(log[i])
    BY DEF TypeOK
  <1>2. SizeOf[log[i]] \in Nat /\ SizeOf[log[i]] < LenModulus /\ LenModulus \in Nat
    BY <1>1, Sizes, MailboxAssumption DEF ShortFiles
  <1>3. SizeOf[log[i]] % LenModulus = SizeOf[log[i]]
    BY <1>2
  <1>4. SizeOf[log[i]] \in 1 .. MaxPayload
    BY <1>1, <1>3 DEF Accepted, WireSize
  <1> QED
    BY <1>1, <1>4, Sizes DEF SizeFits

LEMMA RejectReasonStep ==
    ASSUME ShortFiles, TypeOK, QuietInv, RejectReason, [Next]_vars
    PROVE  RejectReason'
  <1> USE DEF chan, pc, rmw, job, ghosts, bounds
  <1> SUFFICES ASSUME spc' = "reject"
               PROVE  log'[claim'] \notin Loadable \/ faults' + powerOffs' > 0
    BY DEF RejectReason
  <1>0. faults \in Nat /\ powerOffs \in Nat
    BY DEF TypeOK
  <1>1. CASE PollDoorbell
    <2>1. hdr.doorbell # 0 /\ ~SizeFits(hdr.size)
      BY <1>1 DEF PollDoorbell
    <2>2. hdr.size = LastSize /\ Len(log) \in 1 .. Len(log)
      BY <2>1, Armed DEF TypeOK, HdrType
    <2> QED
      BY <2>1, <2>2, CommittedSize DEF LastSize
  <1>2. CASE Load
    <2>1. stage[0] \notin Loadable /\ spc = "load" /\ UNCHANGED <<log, claim>>
      BY <1>2 DEF Load
    <2>2. hdr.doorbell # 0 /\ claim = Len(log) /\ Holds(stage, LastSize)
      BY <2>1, Armed DEF QuietInv, Working, Claiming
    <2>3. Len(log) \in 1 .. Len(log) /\ LastSize \in 1 .. MaxPayload
      BY <2>2, Armed, CommittedSize DEF LastSize, TypeOK, HdrType
    <2>4. 0 \in 0 .. LastSize - 1
      BY <2>3, Sizes
    <2> QED
      BY <2>1, <2>2, <2>4 DEF Holds
  <1>3. CASE ReadFail
    BY <1>0, <1>3 DEF ReadFail
  <1>4. CASE McFail \/ McWriteHdr
    <2>1. spc \in HdrJob /\ spc' = After(spc)
      BY <1>4 DEF McFail, McWriteHdr
    <2> QED
      BY <2>1, AfterJob DEF After, HdrJob
  <1>5. ASSUME spc = "reject", UNCHANGED <<log, claim, faults, powerOffs>>
        PROVE  log'[claim'] \notin Loadable \/ faults' + powerOffs' > 0
    BY <1>5 DEF RejectReason
  <1>6. CASE Commit
    BY <1>6 DEF Commit, QuietInv, Exclusive
  <1> QED
    BY <1>1, <1>2, <1>3, <1>4, <1>5, <1>6
       DEF Next, HostStep, FwStep, StubStep, FwStore, DevRingDoorbell, DevResetStores,
           BeginPush, PushChunk, CommitRefused, StatusPoll, GiveUp, Abandon, DevReset,
           McReadHdr, PollIdle, ReadSector, ElfOutput, ElfReturns, PowerOff, Boot, vars

\* What the PS2 runs is the same as long as the stub stays with it.
LEMMA SameRunning ==
    ASSUME (spc \in Occupied) <=> (spc' \in Occupied),
           spc \in Occupied => UNCHANGED <<claim, log, stage>>
    PROVE  Running' = Running
  BY DEF Running

\* A stub that is busy with an image runs something.
LEMMA BusyRuns ==
    ASSUME TypeOK, QuietInv, spc \in Occupied
    PROVE  /\ Running.commit = claim /\ claim # 0
           /\ Running # L!Nothing
  <1>1. claim # 0 /\ claim \in Nat
    BY DEF QuietInv, Working, RunsWhatWasCommitted, Occupied, TypeOK
  <1>2. Running.commit = claim
    BY DEF Running
  <1>3. (L!Nothing).commit = 0
    BY DEF L!Nothing
  <1> QED
    BY <1>1, <1>2, <1>3

LEMMA IdleRuns ==
    ASSUME spc \notin Occupied
    PROVE  Running = L!Nothing
  BY DEF Running, L!Nothing

\* What the PC does to its own variables.
LEMMA HostSteps ==
    ASSUME TypeOK, QuietInv, AnyHostInv,
           UNCHANGED <<hdr, log, loaded, faults, powerOffs, spc, claim, stage>>,
           fw \notin Committing, fw' \notin Committing,
           \/ host'.said # "ack"
           \/ host'.said = host.said
           \/ Len(log) \in loaded
    PROVE  [L!Next]_(L!vars)
  <1>1. Running' = Running
    BY SameRunning
  <1>2. CASE host'.said # "ack"
    BY <1>1, <1>2 DEF L!Forget, L!Next, L!vars
  <1>3. CASE host'.said = "ack" /\ host.said # "ack"
    BY <1>1, <1>3 DEF L!Tell, L!Next, L!vars
  <1>4. CASE host'.said = "ack" /\ host.said = "ack"
    BY <1>1, <1>4 DEF L!vars
  <1> QED
    BY <1>2, <1>3, <1>4

\* A header job of the stub, done on a copy that is not stale.
LEMMA JobSteps ==
    ASSUME TypeOK, QuietInv, RejectReason, McWriteHdr
    PROVE  [L!Next]_(L!vars)
  <1> USE DEF pc, bounds, job
  <1>1. /\ spc \in HdrJob /\ spc' = After(spc)
        /\ UNCHANGED <<fw, host, log, claim, esize, rd, stage, loaded, faults, powerOffs>>
    BY DEF McWriteHdr
  <1>2. hdr' = Patch(spc, hdr)
    BY DEF McWriteHdr, QuietInv, NotStale, HeadSector
  <1>3. hdr'.doorbell = IF spc \in {"clear", "reject"} THEN 0 ELSE hdr.doorbell
    BY <1>1, <1>2, PatchedHdr DEF TypeOK
  <1>4. CASE spc \notin {"clear", "reject", "returned"}
    <2>1. (spc \in Occupied) <=> (spc' \in Occupied)
      BY <1>1, <1>4 DEF After, HdrJob, Occupied
    <2> QED
      BY <1>1, <1>3, <1>4, <2>1, SameRunning DEF L!vars
  <1>5. CASE spc = "clear"
    <2>1. spc \in Occupied /\ spc' \in Occupied
      BY <1>1, <1>5 DEF After, Occupied
    <2>2. Running' = Running /\ Running.commit = claim
      BY <1>1, <2>1, SameRunning, BusyRuns
    <2>3. hdr.doorbell = claim /\ claim # 0
      BY <1>5 DEF QuietInv, Working, Claiming
    <2> QED
      BY <1>1, <1>3, <1>5, <2>2, <2>3 DEF L!Clear, L!Next
  <1>6. CASE spc = "reject"
    <2>1. spc \notin Occupied /\ spc' \notin Occupied
      BY <1>1, <1>6 DEF After, Occupied
    <2>2. Running = L!Nothing /\ Running' = L!Nothing
      BY <2>1, IdleRuns DEF Running, L!Nothing
    <2>3. hdr.doorbell = claim /\ claim # 0
      BY <1>6 DEF QuietInv, Working, Claiming
    <2>4. log[hdr.doorbell] \notin Loadable \/ faults + powerOffs > 0
      BY <1>6, <2>3 DEF RejectReason
    <2> QED
      BY <1>1, <1>3, <1>6, <2>2, <2>3, <2>4 DEF L!Reject, L!Next
  <1>7. CASE spc = "returned"
    <2>1. spc \in Occupied /\ spc' \notin Occupied
      BY <1>1, <1>7 DEF After, Occupied
    <2>2. Running # L!Nothing /\ Running' = L!Nothing
      BY <2>1, BusyRuns DEF Running, L!Nothing
    <2> QED
      BY <1>1, <1>3, <1>7, <2>2 DEF L!Return, L!Next
  <1> QED
    BY <1>4, <1>5, <1>6, <1>7

\* load_elf_from_staging: the stub takes what the doorbell offers.
LEMMA LoadSteps ==
    ASSUME ShortFiles, TypeOK, AnyHostInv, QuietInv, Load
    PROVE  [L!Next]_(L!vars)
  <1> USE DEF chan, pc, rmw, job, bounds
  <1>1. /\ spc = "load"
        /\ UNCHANGED <<hdr, fw, host, log, claim, esize, rd, stage, faults, powerOffs>>
    BY DEF Load
  <1>2. hdr.doorbell # 0 /\ claim = hdr.doorbell /\ claim = Len(log) /\ Holds(stage, LastSize)
    BY <1>1, Armed DEF QuietInv, Working, Claiming
  <1>3. claim \in 1 .. Len(log) /\ LastSize \in 1 .. MaxPayload
    BY <1>2, Armed, CommittedSize DEF LastSize, TypeOK, HdrType
  <1>4. \A u \in 0 .. SizeOf[log[claim]] - 1 : stage[u] = log[claim]
    BY <1>2 DEF Holds, LastSize
  <1>5. stage[0] = log[claim]
    BY <1>2, <1>3, <1>4, Sizes DEF LastSize
  <1>6. Running = L!Nothing
    BY <1>1, IdleRuns DEF Occupied
  <1>7. CASE stage[0] \in Loadable
    <2>1. spc' = "ack" /\ loaded' = loaded \union {claim}
      BY <1>7 DEF Load
    <2>2. Running' = [commit |-> claim, content |-> L!Whole(log[claim])]
      BY <1>1, <1>4, <2>1 DEF Running, Occupied, L!Whole
    <2>3. claim \notin loaded \/ faults + powerOffs > 0
      BY <1>1 DEF AnyHostInv, Claiming, TypeOK
    <2> QED
      BY <1>1, <1>2, <1>5, <1>6, <1>7, <2>1, <2>2, <2>3 DEF L!Take, L!Next
  <1>8. CASE stage[0] \notin Loadable
    <2>1. spc' = "reject" /\ loaded' = loaded
      BY <1>8 DEF Load
    <2>2. Running' = Running
      BY <1>1, <2>1, SameRunning DEF Occupied
    <2> QED
      BY <1>1, <2>1, <2>2 DEF L!vars
  <1> QED
    BY <1>7, <1>8

\* Every step of the mailbox is a step of the loader or none at all.
LEMMA LoaderStep ==
    ASSUME HostWaitsForIdle, ShortFiles, TypeOK, AnyHostInv, QuietInv, RejectReason,
           [Next]_vars
    PROVE  [L!Next]_(L!vars)
  <1> USE DEF chan, pc, rmw, job, ghosts, bounds
  <1>0. /\ host \in [pc : {"idle", "push", "wait"}, img : Content, off : Nat,
                     said : {"none", "ack", "noack", "refused"}]
        /\ host.pc = "push" => fw = "idle"
        /\ hdr \in HdrType /\ faults \in Nat /\ powerOffs \in Nat
    BY DEF TypeOK
  <1>1. CASE (\E img \in Image : BeginPush(img)) \/ CommitRefused \/ StatusPoll \/ GiveUp
             \/ Abandon \/ DevReset \/ PushChunk
    <2>1. UNCHANGED <<hdr, log, loaded, faults, powerOffs, spc, claim, stage>>
      BY <1>1 DEF BeginPush, PushChunk, CommitRefused, StatusPoll, GiveUp, Abandon, DevReset
    <2>2. fw \notin Committing /\ fw' \notin Committing
      BY <1>0, <1>1 DEF BeginPush, PushChunk, CommitRefused, StatusPoll, GiveUp, Abandon,
                        DevReset, Committing
    <2>3. CASE StatusPoll
      <3>1. hdr.ack = Len(log) /\ hdr.ack \in loaded
        BY <2>3 DEF StatusPoll, QuietInv, Answered, AnyHostInv, Current
      <3> QED
        BY <2>1, <2>2, <3>1, HostSteps
    <2>4. CASE ~StatusPoll
      <3>1. host'.said # "ack" \/ host'.said = host.said
        <4>1. ASSUME NEW img \in Image, BeginPush(img) PROVE host'.said = "none"
          BY <4>1 DEF BeginPush
        <4>2. CASE CommitRefused \/ GiveUp \/ DevReset
          BY <1>0, <4>2 DEF CommitRefused, GiveUp, DevReset
        <4>3. CASE PushChunk \/ Abandon
          BY <1>0, <4>3 DEF PushChunk, Abandon
        <4> QED
          BY <1>1, <2>4, <4>1, <4>2, <4>3
      <3> QED
        BY <2>1, <2>2, <3>1, HostSteps
    <2> QED
      BY <2>3, <2>4
  <1>2. CASE Commit
    <2>1. /\ host.pc = "push" /\ host.img \in Image /\ host'.said = host.said
          /\ log' = Append(log, host.img) /\ fw' = "commit_size"
          /\ UNCHANGED <<hdr, loaded, faults, powerOffs, spc, claim, stage>>
      BY <1>0, <1>2 DEF Commit, TypeOK
    <2>2. hdr.doorbell = 0 /\ host.said = "none" /\ spc \in {"poll", "off"}
      BY <2>1 DEF QuietInv, Exclusive, Answered
    <2>3. Running' = Running
      BY <2>1, <2>2, SameRunning DEF Occupied
    <2> QED
      BY <2>1, <2>2, <2>3 DEF L!Commit, L!Next, Committing
  <1>3. CASE FwStep
    <2>1. UNCHANGED <<host, log, loaded, faults, powerOffs, spc, claim, stage>>
      BY <1>3 DEF FwStep, DevRingDoorbell, DevResetStores, FwStore
    <2>2. Running' = Running
      BY <2>1, SameRunning
    <2>3. CASE fw = "commit_doorbell"
      <3>1. fw' = "idle" /\ hdr' = [hdr EXCEPT !.doorbell = Len(log)]
        BY <1>3, <2>3 DEF FwStep, DevRingDoorbell, DevResetStores, FwStore
      <3>2. hdr'.doorbell = Len(log)
        BY <1>0, <3>1 DEF HdrType
      <3> QED
        BY <2>1, <2>2, <2>3, <3>1, <3>2 DEF L!Offer, L!Next, Committing
    <2>4. CASE fw = "reset_doorbell"
      <3>1. fw' = "reset_ack" /\ hdr' = [hdr EXCEPT !.doorbell = 0]
        BY <1>3, <2>4 DEF FwStep, DevRingDoorbell, DevResetStores, FwStore
      <3>2. hdr'.doorbell = 0
        BY <1>0, <3>1 DEF HdrType
      <3> QED
        BY <2>1, <2>2, <2>4, <3>1, <3>2 DEF L!Withdraw, L!Next, Committing
    <2>5. CASE fw \notin {"commit_doorbell", "reset_doorbell"}
      <3>1. hdr'.doorbell = hdr.doorbell
        BY <1>0, <1>3, <2>5 DEF FwStep, DevRingDoorbell, DevResetStores, FwStore, HdrType
      <3>2. (fw \in Committing) <=> (fw' \in Committing)
        BY <1>3, <2>5 DEF FwStep, DevRingDoorbell, DevResetStores, FwStore, Committing
      <3> QED
        BY <2>1, <2>2, <3>1, <3>2 DEF L!vars
    <2> QED
      BY <2>3, <2>4, <2>5
  <1>4. CASE McWriteHdr
    BY <1>4, JobSteps
  <1>5. CASE Load
    BY <1>5, LoadSteps
  <1>6. CASE McFail \/ ReadFail \/ PowerOff
    <2>1. /\ UNCHANGED <<hdr, fw, host, log, loaded>>
          /\ faults' + powerOffs' > 0
      BY <1>0, <1>6 DEF McFail, ReadFail, PowerOff
    <2>2. Running' = Running \/ Running' = L!Nothing
      <3>1. CASE spc' \notin Occupied
        BY <3>1 DEF Running, L!Nothing
      <3>2. CASE spc' \in Occupied
        <4>1. spc \in Occupied /\ UNCHANGED <<claim, stage, log>>
          BY <1>6, <3>2 DEF McFail, ReadFail, PowerOff, Occupied, After, HdrJob
        <4> QED
          BY <3>2, <4>1, SameRunning
      <3> QED
        BY <3>1, <3>2
    <2> QED
      BY <2>1, <2>2 DEF L!Disturb, L!Next
  <1>7. CASE \/ McReadHdr \/ PollIdle \/ PollDoorbell \/ ReadSector \/ ElfOutput
             \/ ElfReturns \/ Boot \/ UNCHANGED vars
    <2>1. UNCHANGED <<hdr, fw, host, log, loaded, faults, powerOffs>>
      BY <1>7 DEF McReadHdr, PollIdle, PollDoorbell, ReadSector, ElfOutput, ElfReturns,
                  Boot, vars
    <2>2. /\ (spc \in Occupied) <=> (spc' \in Occupied)
          /\ spc \in Occupied => UNCHANGED <<claim, stage>>
      BY <1>7 DEF McReadHdr, PollIdle, PollDoorbell, ReadSector, ElfOutput, ElfReturns,
                  Boot, vars, Occupied
    <2>3. Running' = Running
      BY <2>1, <2>2, SameRunning
    <2> QED
      BY <2>1, <2>3 DEF L!vars
  <1> QED
    BY <1>1, <1>2, <1>3, <1>4, <1>5, <1>6, <1>7 DEF Next, HostStep, StubStep

\* A doorbell is only ever rejected because the image it offers is no program
\* or because something failed (stub_main.c:239, :271, :281).
THEOREM RejectedForAReason ==
    HostWaitsForIdle /\ ShortFiles => (Spec => []RejectReason)
  <1> SUFFICES ASSUME HostWaitsForIdle, ShortFiles
               PROVE  Spec => []RejectReason
    OBVIOUS
  <1>1. Init => RejectReason
    BY DEF Init, RejectReason
  <1>2. TypeOK /\ AnyHostInv /\ QuietInv /\ RejectReason /\ [Next]_vars => RejectReason'
    BY RejectReasonStep
  <1> QED
    BY <1>1, <1>2, QuietInvariant, PTL DEF Spec

\* With a PC that waits for the stub to be quiet, header, sectors and polling
\* together are a loader (ImplementsLoader).
THEOREM MailboxIsLoader ==
    HostWaitsForIdle /\ ShortFiles => (Spec => ImplementsLoader)
  <1> SUFFICES ASSUME HostWaitsForIdle, ShortFiles
               PROVE  Spec => ImplementsLoader
    OBVIOUS
  <1>1. Init => L!Init
    BY DEF Init, L!Init, ClearHdr, Committing, Running, Occupied, L!Nothing
  <1>2. TypeOK /\ AnyHostInv /\ QuietInv /\ RejectReason /\ [Next]_vars => [L!Next]_(L!vars)
    BY LoaderStep
  <1> QED
    BY <1>1, <1>2, QuietInvariant, RejectedForAReason, PTL DEF Spec, ImplementsLoader, L!Spec
=============================================================================
