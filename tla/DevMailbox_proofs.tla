-------------------------- MODULE DevMailbox_proofs --------------------------
(***************************************************************************)
(* Theorems about DevMailbox, for every geometry, every set of images and  *)
(* every bound.                                                            *)
(***************************************************************************)
EXTENDS DevMailboxInv, TLAPS

\* The payload limit fits the staging area, so a committed size is a size the
\* stub accepts.
LEMMA Sizes ==
    /\ ElfMaxSize \in Nat /\ HeaderSize \in Nat \ {0} /\ SectorSize \in Nat \ {0}
    /\ MaxPayload \in Nat \ {0} /\ MaxPayload <= ElfMaxSize
    /\ \A img \in Image : SizeOf[img] \in Nat /\ WireSize(img) \in Nat
    /\ 0 \in Unit
  BY GeometryAssumption, MailboxAssumption
     DEF ElfMaxSize, RingOffset, ChannelBase, WireSize, Unit

\* Where a header job leads.
LEMMA AfterJob ==
    ASSUME NEW j \in HdrJob
    PROVE  /\ After(j) \in HdrJob \union {"read", "run", "poll"}
           /\ (After(j) = "read" <=> j = "ringreset")
           /\ After(j) # "ringreset"
  BY DEF After, HdrJob

\* What a header job patches.
LEMMA PatchedHdr ==
    ASSUME NEW j \in HdrJob, NEW h \in HdrType, claim \in Nat
    PROVE  /\ Patch(j, h) \in HdrType
           /\ Patch(j, h).size = h.size
           /\ Patch(j, h).ack = IF j = "ack" THEN claim ELSE h.ack
           /\ Patch(j, h).doorbell = IF j \in {"clear", "reject"} THEN 0 ELSE h.doorbell
  BY DEF Patch, HdrJob, HdrType

\* What one store of the firmware makes of a header.
LEMMA StoredHdr ==
    ASSUME NEW h \in HdrType, NEW n \in Nat, NEW s \in 0 .. MaxPayload
    PROVE  /\ [h EXCEPT !.doorbell = n] \in HdrType
           /\ [h EXCEPT !.ack = n] \in HdrType
           /\ [h EXCEPT !.size = s] \in HdrType
  BY DEF HdrType

LEMMA ClearedField ==
    ASSUME NEW h \in HdrType
    PROVE  /\ [h EXCEPT !.doorbell = 0] \in HdrType
           /\ [h EXCEPT !.ack = 0] \in HdrType
           /\ [h EXCEPT !.size = 0] \in HdrType
  <1>1. 0 \in 0 .. MaxPayload
    BY Sizes
  <1> QED
    BY <1>1, StoredHdr

-----------------------------------------------------------------------------
LEMMA TypeInit == Init => TypeOK
  <1> SUFFICES ASSUME Init PROVE TypeOK
    OBVIOUS
  <1>1. Blank \in [Unit -> Content] /\ NoSector.head \in [HeadUnit -> Content]
    BY DEF Blank, Content, NoSector
  <1>2. ClearHdr \in HdrType /\ NoSector.hdr \in HdrType
    BY Sizes DEF ClearHdr, HdrType, NoSector
  <1>3. NoSector \in [hdr : HdrType, head : [HeadUnit -> Content]]
    BY <1>1, <1>2 DEF NoSector
  <1>4. /\ host \in [pc : {"idle", "push", "wait"}, img : Content, off : Nat,
                     said : {"none", "ack", "noack", "refused"}]
        /\ host.pc # "push"
    BY DEF Init, Content
  <1>9. log \in Seq(Image) /\ \A i \in 1 .. Len(log) : Accepted(log[i])
    BY DEF Init
  <1>5. esize \in 0 .. MaxPayload /\ rd \in 0 .. esize /\ rd = 0
    BY Sizes DEF Init
  <1>6. buf \in [hdr : HdrType, head : [HeadUnit -> Content]] /\ held = FALSE
    BY <1>3 DEF Init
  <1>7. hdr \in HdrType /\ staging \in [Unit -> Content] /\ stage \in [Unit -> Content]
    BY <1>1, <1>2 DEF Init
  <1>8. /\ fw = "idle" /\ spc = "off"
        /\ claim = 0 /\ done = 0 /\ loaded = {}
        /\ faults = 0 /\ powerOffs = 0 /\ resets = 0
    BY DEF Init
  <1> QED
    BY <1>4, <1>5, <1>6, <1>7, <1>8, <1>9 DEF TypeOK

LEMMA TypeStep == TypeOK /\ [Next]_vars => TypeOK'
  <1> SUFFICES ASSUME TypeOK, [Next]_vars PROVE TypeOK'
    OBVIOUS
  <1> USE DEF TypeOK, chan, pc, rmw, job, ghosts, bounds
  <1>0. NoSector \in [hdr : HdrType, head : [HeadUnit -> Content]]
    BY Sizes DEF NoSector, ClearHdr, HdrType, Content
  <1>1. ASSUME NEW img \in Image, BeginPush(img) PROVE TypeOK'
    BY <1>1, Sizes DEF BeginPush, Content
  <1>2. CASE PushChunk
    <2> DEFINE end == ChunkEnd(host.off, SizeOf[host.img])
    <2>1. end \in Nat /\ end <= SizeOf[host.img]
      BY <1>2, Sizes DEF PushChunk, ChunkEnd
    <2>2. staging' \in [Unit -> Content]
      BY <1>2 DEF PushChunk, Content
    <2> QED
      BY <1>2, <2>1, <2>2 DEF PushChunk
  <1>3. CASE Commit
    <2>1. log' \in Seq(Image) /\ Len(log') = Len(log) + 1
      BY <1>3 DEF Commit
    <2>2. ASSUME NEW i \in 1 .. Len(log') PROVE Accepted(log'[i])
      BY <1>3, <2>1 DEF Commit
    <2> QED
      BY <1>3, <2>1, <2>2 DEF Commit
  <1>4. CASE CommitRefused
    BY <1>4 DEF CommitRefused
  <1>5. CASE StatusPoll \/ GiveUp \/ Abandon
    <2>1. /\ host' \in [pc : {"idle"}, img : Content, off : Nat,
                        said : {"none", "ack", "noack", "refused"}]
          /\ UNCHANGED <<chan, fw, log, spc, rmw, job, ghosts, bounds>>
      BY <1>5 DEF StatusPoll, GiveUp, Abandon
    <2> QED
      BY <2>1
  <1>6. CASE DevReset
    BY <1>6 DEF DevReset
  <1>7. CASE DevRingDoorbell
    <2>1. /\ fw = "commit_size" => WireSize(log[Len(log)]) \in 0 .. MaxPayload
          /\ Len(log) \in Nat
      BY Sizes DEF Accepted
    <2>2. fw = "commit_size" => [hdr EXCEPT !.size = WireSize(log[Len(log)])] \in HdrType
      BY <2>1, StoredHdr
    <2>3. [hdr EXCEPT !.ack = 0] \in HdrType /\ [hdr EXCEPT !.doorbell = Len(log)] \in HdrType
      BY <2>1, StoredHdr
    <2>4. hdr' \in HdrType
      BY <1>7, <2>2, <2>3 DEF DevRingDoorbell, FwStore
    <2>5. /\ fw \in {"commit_size", "commit_ack", "commit_doorbell"}
          /\ fw' \in {"commit_ack", "commit_doorbell", "idle"}
          /\ UNCHANGED <<staging, host, log, spc, rmw, job, ghosts, bounds>>
      BY <1>7 DEF DevRingDoorbell, FwStore
    <2> QED
      BY <2>4, <2>5
  <1>8. CASE DevResetStores
    <2>1. /\ [hdr EXCEPT !.doorbell = 0] \in HdrType
          /\ [hdr EXCEPT !.ack = 0] \in HdrType
          /\ [hdr EXCEPT !.size = 0] \in HdrType
      BY ClearedField
    <2>2. hdr' \in HdrType
      BY <1>8, <2>1 DEF DevResetStores, FwStore
    <2>3. /\ fw \in {"reset_doorbell", "reset_ack", "reset_size"}
          /\ fw' \in {"reset_ack", "reset_size", "idle"}
          /\ UNCHANGED <<staging, host, log, spc, rmw, job, ghosts, bounds>>
      BY <1>8 DEF DevResetStores, FwStore
    <2> QED
      BY <2>2, <2>3
  <1>9. CASE McReadHdr
    <2>1. HeadSector \in [hdr : HdrType, head : [HeadUnit -> Content]]
      BY DEF HeadSector, HeadUnit
    <2> QED
      BY <1>9, <2>1 DEF McReadHdr
  <1>10. CASE McWriteHdr
    <2>1. hdr' \in HdrType
      BY <1>10, PatchedHdr DEF McWriteHdr
    <2>2. staging' \in [Unit -> Content]
      BY <1>10 DEF McWriteHdr
    <2> QED
      BY <1>0, <1>10, <2>1, <2>2, AfterJob DEF McWriteHdr
  <1>11. CASE McFail
    <2>1. /\ spc' \in HdrJob \union {"read", "run", "poll"}
          /\ spc' # "ringreset" /\ (spc' = "read" => spc = "ringreset")
          /\ held' = FALSE /\ buf' = NoSector /\ faults' = faults + 1
          /\ UNCHANGED <<chan, pc, job, ghosts, powerOffs, resets>>
      BY <1>11, AfterJob DEF McFail
    <2>2. faults' \in Nat /\ powerOffs' \in Nat /\ resets' \in Nat
      BY <2>1
    <2>3. held' \in BOOLEAN /\ ~held' /\ (buf \in [hdr : HdrType, head : [HeadUnit -> Content]])'
      BY <1>0, <2>1
    <2>4. UNCHANGED <<hdr, staging, fw, host, log, claim, esize, rd, stage, done, loaded>>
      BY <2>1
    <2>5. spc' \in HdrJob \union {"off", "poll", "read", "load", "run"}
      BY <2>1
    <2>6. spc' \in {"ringreset", "read"} => esize' > 0 /\ rd' < esize'
      BY <2>1, <2>4
    <2> QED
      BY <2>2, <2>3, <2>4, <2>5, <2>6
  <1>12. CASE PollIdle
    BY <1>12 DEF PollIdle, vars
  <1>13. CASE PollDoorbell
    BY <1>13, Sizes DEF PollDoorbell, SizeFits, HdrType, HdrJob
  <1>14. CASE ReadSector
    <2>1. stage' \in [Unit -> Content]
      BY <1>14 DEF ReadSector
    <2>2. rd' \in 0 .. esize /\ spc' \in {"read", "load"} /\ (spc' = "read" => rd' < esize)
      BY <1>14, Sizes DEF ReadSector
    <2> QED
      BY <1>14, <2>1, <2>2, Sizes DEF ReadSector, HdrJob
  <1>15. CASE ReadFail
    BY <1>15 DEF ReadFail, HdrJob
  <1>16. CASE Load
    BY <1>16 DEF Load, HdrJob
  <1>17. CASE ElfOutput \/ ElfReturns
    BY <1>17 DEF ElfOutput, ElfReturns, HdrJob
  <1>18. CASE PowerOff
    <2>1. stage' \in [Unit -> Content]
      BY <1>18 DEF PowerOff, Blank, Content
    <2>2. /\ spc' = "off" /\ held' = FALSE /\ buf' = NoSector
          /\ claim' = 0 /\ esize' = 0 /\ rd' = 0 /\ powerOffs' \in Nat
          /\ UNCHANGED <<chan, pc, ghosts, faults, resets>>
      BY <1>18 DEF PowerOff
    <2>3. buf' \in [hdr : HdrType, head : [HeadUnit -> Content]] /\ held' \in BOOLEAN
      BY <1>0, <2>2
    <2>4. UNCHANGED <<hdr, staging, fw, host, log, done, loaded, faults, resets>>
      BY <2>2
    <2>5. esize' \in 0 .. MaxPayload /\ rd' \in 0 .. esize' /\ claim' \in Nat
      BY <2>2, Sizes
    <2> QED
      BY <2>1, <2>2, <2>3, <2>4, <2>5
  <1>19. CASE Boot
    BY <1>19 DEF Boot, HdrJob
  <1>20. CASE UNCHANGED vars
    BY <1>20 DEF vars
  <1> QED
    BY <1>1, <1>2, <1>3, <1>4, <1>5, <1>6, <1>7, <1>8, <1>9, <1>10, <1>11, <1>12,
       <1>13, <1>14, <1>15, <1>16, <1>17, <1>18, <1>19, <1>20
       DEF Next, HostStep, FwStep, StubStep

\* Every reachable state is well typed; in particular the sizes the stub reads
\* from the header (stub_main.c:230) never exceed what one packet can commit.
THEOREM TypeCorrect == Spec => []TypeOK
  BY TypeInit, TypeStep, PTL DEF Spec

-----------------------------------------------------------------------------
(* With any PC *)

LEMMA AnyHostInit == Init => AnyHostInv
  BY DEF Init, AnyHostInv, Current, ClearHdr, NoSector, Committing, Claiming

LEMMA AnyHostStep == TypeOK /\ AnyHostInv /\ [Next]_vars => AnyHostInv'
  <1> SUFFICES ASSUME TypeOK, AnyHostInv, [Next]_vars PROVE AnyHostInv'
    OBVIOUS
  <1> DEFINE kept == <<hdr, buf, fw, log, spc, claim, done, loaded, faults, powerOffs>>
  <1> USE DEF AnyHostInv, Current, chan, pc, rmw, job, ghosts, bounds
  <1>0. /\ hdr \in HdrType /\ buf.hdr \in HdrType
        /\ log \in Seq(Image) /\ Len(log) \in Nat
        /\ claim \in Nat /\ done \in Nat /\ loaded \subseteq Nat
        /\ faults \in Nat /\ powerOffs \in Nat
    BY DEF TypeOK
  <1>1. ASSUME UNCHANGED kept PROVE AnyHostInv'
    BY <1>1
  <1>2. CASE Commit
    <2>1. Len(log') = Len(log) + 1
      BY <1>0, <1>2 DEF Commit, TypeOK
    <2> QED
      BY <1>0, <1>2, <2>1 DEF Commit, HdrType, Committing
  <1>3. CASE DevReset
    BY <1>3 DEF DevReset, Committing
  <1>4. CASE DevRingDoorbell
    <2>1. UNCHANGED <<buf, log, spc, claim, done, loaded, faults, powerOffs>>
      BY <1>4 DEF DevRingDoorbell, FwStore
    <2>2. fw \in Committing
      BY <1>4 DEF DevRingDoorbell, FwStore, Committing
    <2>3. \/ hdr'.doorbell = hdr.doorbell
          \/ hdr'.doorbell = Len(log) /\ fw' = "idle"
      BY <1>0, <1>4 DEF DevRingDoorbell, FwStore, HdrType
    <2>4. hdr'.ack = hdr.ack \/ hdr'.ack = 0
      BY <1>0, <1>4 DEF DevRingDoorbell, FwStore, HdrType
    <2> QED
      BY <1>0, <2>1, <2>2, <2>3, <2>4 DEF HdrType, Committing
  <1>5. CASE DevResetStores
    <2>1. UNCHANGED <<buf, log, spc, claim, done, loaded, faults, powerOffs>>
      BY <1>5 DEF DevResetStores, FwStore
    <2>2. fw' \notin Committing
      BY <1>5 DEF DevResetStores, FwStore, Committing
    <2>3. /\ hdr'.doorbell \in {hdr.doorbell, 0}
          /\ hdr'.ack \in {hdr.ack, 0}
      BY <1>0, <1>5 DEF DevResetStores, FwStore, HdrType
    <2> QED
      BY <1>0, <2>1, <2>2, <2>3 DEF HdrType
  <1>6. CASE McReadHdr
    BY <1>6 DEF McReadHdr, HeadSector
  <1>7. CASE McWriteHdr
    <2>0. spc \in HdrJob /\ spc' = After(spc) /\ hdr' = Patch(spc, buf.hdr)
      BY <1>7 DEF McWriteHdr
    <2>1. /\ UNCHANGED <<fw, log, claim, loaded, faults, powerOffs>>
          /\ buf'.hdr.doorbell = 0 /\ buf'.hdr.ack = 0
          /\ done' = IF spc \in {"clear", "reject"} THEN claim ELSE done
      BY <1>7 DEF McWriteHdr, NoSector, ClearHdr
    <2>2. /\ hdr'.ack = IF spc = "ack" THEN claim ELSE buf.hdr.ack
          /\ hdr'.doorbell = IF spc \in {"clear", "reject"} THEN 0 ELSE buf.hdr.doorbell
      BY <1>0, <2>0, PatchedHdr
    <2>3. /\ spc' \in Claiming => spc \in {"ringreset", "ack"}
          /\ spc' = "clear" <=> spc = "ack"
          /\ spc' # "ack"
      BY <2>0 DEF After, HdrJob, Claiming
    <2>4. CASE spc \in {"clear", "reject"}
      BY <1>0, <2>1, <2>2, <2>3, <2>4 DEF HdrType, Claiming
    <2>5. CASE spc \notin {"clear", "reject"}
      BY <1>0, <2>0, <2>1, <2>2, <2>3, <2>5 DEF HdrType, Claiming
    <2> QED
      BY <2>4, <2>5
  <1>8. CASE McFail
    <2>1. /\ UNCHANGED <<hdr, fw, log, claim, done, loaded, powerOffs>>
          /\ buf'.hdr.doorbell = 0 /\ buf'.hdr.ack = 0
          /\ faults' = faults + 1
          /\ spc \in HdrJob /\ spc' = After(spc)
      BY <1>8 DEF McFail, NoSector, ClearHdr
    <2>2. (spc' \in Claiming => spc \in {"ringreset", "ack"}) /\ spc' # "ack"
      BY <2>1 DEF After, HdrJob, Claiming
    <2> QED
      BY <1>0, <2>1, <2>2 DEF Claiming
  <1>9. CASE PollDoorbell
    BY <1>0, <1>9 DEF PollDoorbell, HdrType, Claiming
  <1>10. CASE ReadSector
    BY <1>10 DEF ReadSector, Claiming
  <1>11. CASE ReadFail
    BY <1>0, <1>11 DEF ReadFail, Claiming
  <1>12. CASE Load
    BY <1>0, <1>12 DEF Load, Claiming
  <1>13. CASE ElfOutput \/ ElfReturns \/ Boot
    <2>1. /\ UNCHANGED <<hdr, buf, fw, log, claim, done, loaded, faults, powerOffs>>
          /\ spc \in {"run", "off"} /\ spc' \in {"output", "returned", "installed"}
      BY <1>13 DEF ElfOutput, ElfReturns, Boot
    <2> QED
      BY <2>1 DEF Claiming
  <1>14. CASE PowerOff
    <2>1. /\ UNCHANGED <<hdr, fw, log, done, loaded, faults>>
          /\ buf'.hdr.doorbell = 0 /\ buf'.hdr.ack = 0
          /\ powerOffs' = powerOffs + 1 /\ spc' = "off" /\ claim' = 0
      BY <1>14 DEF PowerOff, NoSector, ClearHdr
    <2> QED
      BY <1>0, <2>1 DEF Claiming
  <1>15. CASE \/ \E img \in Image : BeginPush(img)
              \/ PushChunk \/ CommitRefused \/ StatusPoll \/ GiveUp \/ Abandon
              \/ PollIdle \/ UNCHANGED vars
    <2>1. UNCHANGED kept
      BY <1>15 DEF BeginPush, PushChunk, CommitRefused, StatusPoll, GiveUp, Abandon,
                   PollIdle, vars
    <2> QED
      BY <1>1, <2>1
  <1> QED
    BY <1>2, <1>3, <1>4, <1>5, <1>6, <1>7, <1>8, <1>9, <1>10, <1>11, <1>12,
       <1>13, <1>14, <1>15 DEF Next, HostStep, FwStep, StubStep

\* Whatever the PC does, a doorbell the stub has cleared stays cleared, ACK is
\* only ever set for an image that was loaded, and without a card failure or a
\* power cycle no commit is loaded twice (stub_main.c:287-314).
THEOREM AnyHostCorrect ==
    Spec => [](AnyHostInv /\ ClearedStaysCleared /\ AckImpliesLoaded /\ RunsOnce)
  <1>1. TypeOK /\ AnyHostInv => ClearedStaysCleared /\ AckImpliesLoaded /\ RunsOnce
    BY DEF TypeOK, AnyHostInv, Current, ClearedStaysCleared, AckImpliesLoaded, RunsOnce,
           Claiming, HdrJob
  <1> QED
    BY <1>1, TypeInit, TypeStep, AnyHostInit, AnyHostStep, PTL DEF Spec
-----------------------------------------------------------------------------
(* What DevMailbox guarantees to a PC that pushes, commits and resets only  *)
(* while the stub is quiet, and whose files are short enough for the len   *)
(* field of ELF_COMMIT.                                                     *)

LEMMA QuietInit == Init => QuietInv
  <1> SUFFICES ASSUME Init PROVE QuietInv
    OBVIOUS
  <1>1. hdr.doorbell = 0 /\ hdr.ack = 0
    BY DEF Init, ClearHdr
  <1>2. host.pc = "idle" /\ host.said = "none" /\ fw = "idle" /\ spc = "off" /\ held = FALSE
    BY DEF Init
  <1> QED
    BY <1>1, <1>2 DEF QuietInv, Exclusive, NotStale, Offered, Working, Answered,
       Committing, Claiming, RunsWhatWasCommitted, AckIsForLatest

\* While a doorbell is armed the header holds the size of the last commit, and
\* the stub finds all of its image in the staging area.
LEMMA Armed ==
    ASSUME TypeOK, QuietInv, hdr.doorbell # 0
    PROVE  /\ hdr.doorbell = Len(log) /\ Len(log) \in Nat /\ log[Len(log)] \in Image
           /\ LastSize \in Nat /\ hdr.size = LastSize /\ Holds(staging, LastSize)
           /\ host.pc # "push"
           /\ fw = "idle" \/ spc = "off"
  <1>1. log \in Seq(Image) /\ log # << >> /\ hdr.doorbell \in Nat
    BY DEF TypeOK, HdrType, QuietInv, Offered
  <1>2. Len(log) \in Nat /\ log[Len(log)] \in Image
    BY <1>1
  <1> QED
    BY <1>1, <1>2, Sizes DEF QuietInv, Offered, Exclusive, LastSize

LEMMA QuietStep ==
    HostWaitsForIdle /\ ShortFiles
        => (TypeOK /\ AnyHostInv /\ QuietInv /\ [Next]_vars => QuietInv')
  <1> SUFFICES ASSUME HostWaitsForIdle, ShortFiles, TypeOK, AnyHostInv, QuietInv, [Next]_vars
               PROVE  QuietInv'
    OBVIOUS
  <1> USE DEF QuietInv, chan, pc, rmw, job, ghosts, bounds
  <1>0. /\ hdr \in HdrType /\ hdr.doorbell \in Nat /\ hdr.ack \in Nat
        /\ log \in Seq(Image) /\ Len(log) \in Nat
        /\ claim \in Nat
        /\ held => spc \in HdrJob
        /\ host.pc = "push" => fw = "idle"
        /\ host \in [pc : {"idle", "push", "wait"}, img : Content, off : Nat,
                     said : {"none", "ack", "noack", "refused"}]
    BY DEF TypeOK, HdrType
  <1>a. spc \in {"poll", "off", "read", "load", "run"} => ~held
    BY <1>0 DEF HdrJob
  <1>1. ASSUME NEW img \in Image, BeginPush(img) PROVE QuietInv'
    <2>1. UNCHANGED <<chan, fw, log, spc, rmw, job, ghosts>>
      BY <1>1 DEF BeginPush
    <2>2. /\ host'.pc = "push" /\ host'.off = 0 /\ host'.said = "none" /\ fw = "idle"
          /\ spc \in {"poll", "off"} /\ hdr.doorbell = 0
      BY <1>1 DEF BeginPush, Quiet
    <2>3. NotStale' /\ Exclusive'
      BY <1>a, <2>1, <2>2 DEF NotStale, Exclusive
    <2>4. Offered'
      BY <2>1, <2>2 DEF Offered, Holds, LastSize, Committing
    <2>5. Working' /\ Answered'
      BY <2>1, <2>2 DEF Working, Holds, RunsWhatWasCommitted, Claiming, Answered, AckIsForLatest
    <2> QED
      BY <2>3, <2>4, <2>5
  <1>2. CASE PushChunk
    <2> DEFINE end == ChunkEnd(host.off, SizeOf[host.img])
    <2>1. /\ UNCHANGED <<hdr, fw, log, spc, rmw, job, ghosts>>
          /\ host.pc = "push" /\ host'.pc = "push" /\ host'.img = host.img
          /\ host'.off = end /\ host'.said = host.said
          /\ fw = "idle" /\ spc \in {"poll", "off"} /\ hdr.doorbell = 0
      BY <1>0, <1>2 DEF PushChunk, Exclusive
    <2>2. host.off \in Nat /\ end \in Nat /\ end <= ElfMaxSize /\ ElfMaxSize \in Nat
      BY <1>2, Sizes DEF PushChunk, ChunkEnd, TypeOK
    <2>3. \A u \in 0 .. end - 1 : staging'[u] = host.img
      BY <1>2, <2>1, <2>2 DEF PushChunk, Offered, Unit
    <2>4. Offered'
      BY <2>1, <2>3 DEF Offered, Committing
    <2>5. NotStale' /\ Exclusive'
      BY <1>a, <2>1 DEF NotStale, Exclusive
    <2>6. Working' /\ Answered'
      BY <2>1 DEF Working, RunsWhatWasCommitted, Claiming, Answered, AckIsForLatest
    <2> QED
      BY <2>4, <2>5, <2>6
  <1>3. CASE Commit
    <2>1. /\ UNCHANGED <<chan, spc, rmw, job, ghosts>>
          /\ host.pc = "push" /\ host'.pc = "wait" /\ host'.said = host.said
          /\ fw' = "commit_size" /\ spc \in {"poll", "off"} /\ hdr.doorbell = 0
      BY <1>0, <1>3 DEF Commit, Exclusive
    <2>2. /\ log' # << >> /\ log'[Len(log')] = host.img
          /\ host.off = SizeOf[host.img]
      BY <1>0, <1>3 DEF Commit, TypeOK
    <2>3. Offered'
      BY <2>1, <2>2 DEF Offered, Holds, LastSize
    <2>4. NotStale' /\ Exclusive'
      BY <1>a, <2>1 DEF NotStale, Exclusive
    <2>5. Working' /\ Answered'
      BY <2>1 DEF Working, RunsWhatWasCommitted, Claiming, Answered, AckIsForLatest
    <2> QED
      BY <2>3, <2>4, <2>5
  <1>4. CASE CommitRefused \/ StatusPoll \/ GiveUp \/ Abandon
    <2>1. /\ UNCHANGED <<chan, fw, log, spc, rmw, job, ghosts>>
          /\ host'.pc = "idle"
      BY <1>0, <1>4 DEF CommitRefused, StatusPoll, GiveUp, Abandon
    <2>2. host'.said = "ack" =>
            host.said = "ack" \/ (host.pc = "wait" /\ fw = "idle" /\ hdr.ack # 0)
      BY <1>0, <1>4 DEF CommitRefused, StatusPoll, GiveUp, Abandon
    <2>3. AckIsForLatest'
      BY <2>1, <2>2 DEF AckIsForLatest, Answered, AnyHostInv, Current
    <2>4. Exclusive' /\ NotStale' /\ Offered' /\ Working'
      BY <2>1 DEF Exclusive, NotStale, HeadSector, Offered, Holds, LastSize, Working,
                  RunsWhatWasCommitted
    <2> QED
      BY <2>1, <2>3, <2>4 DEF Answered
  <1>5. CASE DevReset
    <2>1. /\ UNCHANGED <<chan, log, spc, rmw, job, ghosts>>
          /\ host.pc = "idle" /\ host'.pc = "idle" /\ host'.said = "none"
          /\ fw' = "reset_doorbell" /\ spc \in {"poll", "off"}
          /\ hdr.doorbell = 0 \/ spc = "off"
      BY <1>0, <1>5 DEF DevReset, Quiet
    <2>2. Exclusive' /\ NotStale' /\ Answered'
      BY <1>a, <2>1 DEF Exclusive, NotStale, Answered, AckIsForLatest
    <2>3. Offered' /\ Working'
      BY <2>1 DEF Offered, Holds, LastSize, Committing, Working, RunsWhatWasCommitted
    <2> QED
      BY <2>2, <2>3
  <1>6. CASE DevRingDoorbell
    <2>1. /\ UNCHANGED <<staging, host, log, spc, rmw, job, ghosts>>
          /\ fw \in Committing
      BY <1>6 DEF DevRingDoorbell, FwStore, Committing
    <2>2. /\ spc \in {"poll", "off"} /\ hdr.doorbell = 0 /\ host.pc # "push" /\ ~held
          /\ log # << >> /\ Holds(staging, LastSize)
          /\ log[Len(log)] \in Image
      BY <1>0, <1>a, <2>1 DEF Exclusive, Offered, Committing
    <2>3. WireSize(log[Len(log)]) = LastSize
      <3>1. LastSize \in Nat /\ LastSize < LenModulus
        BY <2>2, MailboxAssumption DEF ShortFiles, LastSize
      <3> QED
        BY <3>1, MailboxAssumption DEF WireSize, LastSize
    <2>4. \/ /\ fw = "commit_size" /\ fw' = "commit_ack"
             /\ hdr' = [hdr EXCEPT !.size = LastSize]
          \/ /\ fw = "commit_ack" /\ fw' = "commit_doorbell"
             /\ hdr' = [hdr EXCEPT !.ack = 0]
          \/ /\ fw = "commit_doorbell" /\ fw' = "idle"
             /\ hdr' = [hdr EXCEPT !.doorbell = Len(log)]
      BY <1>6, <2>3 DEF DevRingDoorbell, FwStore
    <2>5. /\ hdr'.doorbell = IF fw' = "idle" THEN Len(log) ELSE 0
          /\ fw' \in {"commit_ack", "commit_doorbell", "idle"}
          /\ hdr'.size = LastSize
          /\ host.pc = "wait" /\ fw' # "commit_ack" => hdr'.ack \in {0, Len(log)}
      BY <1>0, <2>2, <2>4 DEF HdrType, Offered, Answered
    <2>6. Exclusive' /\ NotStale'
      BY <2>1, <2>2, <2>5 DEF Exclusive, NotStale
    <2>7. Offered'
      BY <2>1, <2>2, <2>5 DEF Offered, Holds, LastSize
    <2>8. Working' /\ Answered'
      BY <2>1, <2>2, <2>5 DEF Working, RunsWhatWasCommitted, Claiming, Answered, AckIsForLatest
    <2> QED
      BY <2>6, <2>7, <2>8
  <1>7. CASE DevResetStores
    <2>1. /\ UNCHANGED <<staging, host, log, spc, rmw, job, ghosts>>
          /\ fw \notin Committing /\ fw' \notin Committing /\ fw # "idle"
          /\ spc \in {"poll", "off"} /\ fw' # "reset_doorbell"
      BY <1>7 DEF DevResetStores, FwStore, Exclusive, Committing
    <2>2. hdr'.doorbell = 0 /\ hdr'.ack \in {0, hdr.ack}
      BY <1>0, <1>7 DEF DevResetStores, FwStore, HdrType, Exclusive
    <2>3. ~held /\ host.pc # "push"
      BY <1>0, <1>a, <2>1
    <2>4. Exclusive' /\ NotStale'
      BY <2>1, <2>2, <2>3 DEF Exclusive, NotStale
    <2>5. Offered'
      BY <2>1, <2>2, <2>3 DEF Offered, Committing
    <2>6. Working' /\ Answered'
      BY <2>1, <2>2 DEF Working, RunsWhatWasCommitted, Claiming, Answered, AckIsForLatest,
                        Committing
    <2> QED
      BY <2>4, <2>5, <2>6
  <1>8. CASE McReadHdr
    <2>1. UNCHANGED <<chan, fw, host, log, spc, job, ghosts>> /\ buf' = HeadSector
      BY <1>8 DEF McReadHdr
    <2>2. NotStale' /\ Exclusive'
      BY <2>1 DEF NotStale, HeadSector, Exclusive
    <2>3. Offered' /\ Working' /\ Answered'
      BY <2>1 DEF Offered, Holds, LastSize, Working, RunsWhatWasCommitted, Answered,
                  AckIsForLatest
    <2> QED
      BY <2>2, <2>3
  <1>9. CASE McWriteHdr
    <2>1. /\ UNCHANGED <<fw, host, log, job, loaded>>
          /\ spc \in HdrJob /\ spc' = After(spc) /\ held' = FALSE
          /\ hdr' = Patch(spc, hdr)
      BY <1>9 DEF McWriteHdr, NotStale, HeadSector
    <2>2. staging' = staging
      BY <1>9 DEF McWriteHdr, NotStale, HeadSector, HeadUnit, TypeOK
    <2>3. /\ hdr'.size = hdr.size
          /\ hdr'.ack = IF spc = "ack" THEN claim ELSE hdr.ack
          /\ hdr'.doorbell = IF spc \in {"clear", "reject"} THEN 0 ELSE hdr.doorbell
      BY <1>0, <2>1, PatchedHdr
    <2>4. fw = "idle" /\ host.pc # "push"
      BY <2>1 DEF Exclusive, HdrJob
    <2>5. /\ spc' \in Claiming => spc \in {"ringreset", "ack"}
          /\ spc' \in {"ringreset", "read", "load"} => spc = "ringreset" /\ spc' = "read"
          /\ spc' \in {"ack", "clear", "jumping", "run", "output", "returned"}
               => spc \in {"ack", "clear", "jumping", "output"}
      BY <2>1 DEF After, HdrJob, Claiming
    <2>6. NotStale' /\ Exclusive'
      BY <2>1, <2>4 DEF NotStale, Exclusive
    <2>7. Offered'
      BY <2>1, <2>2, <2>3, <2>4 DEF Offered, Holds, LastSize, Committing
    <2>8. Working'
      BY <2>1, <2>3, <2>5 DEF Working, Holds, RunsWhatWasCommitted, Claiming
    <2>9. Answered'
      BY <2>1, <2>3 DEF Answered, AckIsForLatest, Working, Claiming, Offered
    <2> QED
      BY <2>6, <2>7, <2>8, <2>9
  <1>10. CASE McFail
    <2>1. /\ UNCHANGED <<chan, fw, host, log, job, loaded>>
          /\ spc \in HdrJob /\ spc' = After(spc) /\ held' = FALSE
      BY <1>10 DEF McFail
    <2>2. fw = "idle" /\ host.pc # "push"
      BY <2>1 DEF Exclusive, HdrJob
    <2>3. /\ spc' \in Claiming => spc \in {"ringreset", "ack"}
          /\ spc' \in {"ringreset", "read", "load"} => spc = "ringreset" /\ spc' = "read"
          /\ spc' \in {"ack", "clear", "jumping", "run", "output", "returned"}
               => spc \in {"ack", "clear", "jumping", "output"}
      BY <2>1 DEF After, HdrJob, Claiming
    <2>4. NotStale' /\ Exclusive'
      BY <2>1, <2>2 DEF NotStale, Exclusive
    <2>5. Offered' /\ Answered'
      BY <2>1 DEF Offered, Holds, LastSize, Answered, AckIsForLatest
    <2>6. Working'
      BY <2>1, <2>3 DEF Working, Holds, RunsWhatWasCommitted, Claiming
    <2> QED
      BY <2>4, <2>5, <2>6
  <1>11. CASE PollDoorbell
    <2>1. /\ UNCHANGED <<chan, fw, host, log, rmw, stage, ghosts>>
          /\ hdr.doorbell # 0 /\ spc = "poll" /\ spc' \in {"ringreset", "reject"}
          /\ claim' = hdr.doorbell /\ esize' = hdr.size /\ rd' = 0
      BY <1>11 DEF PollDoorbell
    <2>2. fw = "idle" /\ host.pc # "push" /\ ~held
      BY <1>a, <2>1 DEF Exclusive
    <2>3. NotStale' /\ Exclusive'
      BY <2>1, <2>2 DEF NotStale, Exclusive
    <2>4. Offered' /\ Answered'
      BY <2>1 DEF Offered, Holds, LastSize, Answered, AckIsForLatest
    <2>5. Working'
      BY <2>1 DEF Working, Holds, RunsWhatWasCommitted, Claiming
    <2> QED
      BY <2>3, <2>4, <2>5
  <1>12. CASE ReadSector
    <2>0. PICK end \in rd + 1 .. esize :
            /\ stage' = [u \in Unit |-> IF u \in rd .. end - 1 THEN staging[u] ELSE stage[u]]
            /\ rd' = end
            /\ spc' = IF end = esize THEN "load" ELSE "read"
      BY <1>12 DEF ReadSector
    <2>1. /\ UNCHANGED <<chan, fw, host, log, rmw, claim, esize, ghosts>>
          /\ spc = "read" /\ spc' \in {"read", "load"}
          /\ spc' = "load" => rd' = esize
      BY <1>12, <2>0 DEF ReadSector
    <2>2. fw = "idle" /\ host.pc # "push" /\ ~held
      BY <1>a, <2>1 DEF Exclusive
    <2>3. /\ claim = hdr.doorbell /\ hdr.doorbell # 0 /\ esize = hdr.size
          /\ esize = LastSize /\ Holds(staging, LastSize) /\ Holds(stage, rd)
      BY <2>1, Armed DEF Working, Claiming
    <2>4. rd \in Nat /\ esize \in Nat /\ esize <= ElfMaxSize /\ ElfMaxSize \in Nat
      BY Sizes DEF TypeOK
    <2>5. ASSUME NEW u \in 0 .. end - 1 PROVE stage'[u] = log[Len(log)]
      <3>1. u \in Unit /\ u \in 0 .. esize - 1
        BY <2>0, <2>4 DEF Unit
      <3>2. staging[u] = log[Len(log)]
        BY <2>3, <3>1 DEF Holds
      <3>3. u < rd => stage[u] = log[Len(log)]
        BY <2>3, <2>4, <3>1 DEF Holds
      <3> QED
        BY <2>0, <2>4, <3>1, <3>2, <3>3
    <2>6. NotStale' /\ Exclusive'
      BY <2>1, <2>2 DEF NotStale, Exclusive
    <2>7. Offered' /\ Answered'
      BY <2>1 DEF Offered, Holds, LastSize, Answered, AckIsForLatest
    <2>8. Working'
      BY <2>0, <2>1, <2>3, <2>5 DEF Working, Holds, RunsWhatWasCommitted, Claiming
    <2> QED
      BY <2>6, <2>7, <2>8
  <1>13. CASE ReadFail
    <2>1. /\ UNCHANGED <<chan, fw, host, log, rmw, job, ghosts>>
          /\ spc = "read" /\ spc' = "reject"
      BY <1>13 DEF ReadFail
    <2>2. fw = "idle" /\ host.pc # "push" /\ ~held
      BY <1>a, <2>1 DEF Exclusive
    <2>3. NotStale' /\ Exclusive'
      BY <2>1, <2>2 DEF NotStale, Exclusive
    <2>4. Offered' /\ Answered'
      BY <2>1 DEF Offered, Holds, LastSize, Answered, AckIsForLatest
    <2>5. Working'
      BY <2>1 DEF Working, RunsWhatWasCommitted, Claiming
    <2> QED
      BY <2>3, <2>4, <2>5
  <1>14. CASE Load
    <2>1. /\ UNCHANGED <<chan, fw, host, log, rmw, job, done>>
          /\ spc = "load" /\ spc' \in {"ack", "reject"}
          /\ loaded \subseteq loaded'
      BY <1>14 DEF Load
    <2>2. fw = "idle" /\ host.pc # "push" /\ ~held
      BY <1>a, <2>1 DEF Exclusive
    <2>3. /\ claim = hdr.doorbell /\ claim = Len(log) /\ claim # 0
          /\ LastSize = rd /\ Holds(stage, rd)
      BY <2>1, Armed DEF Working, Claiming
    <2>4. /\ claim \in 1 .. Len(log)
          /\ \A u \in 0 .. SizeOf[log[claim]] - 1 : stage[u] = log[claim]
      BY <1>0, <2>3 DEF Holds, LastSize
    <2>5. NotStale' /\ Exclusive'
      BY <2>1, <2>2 DEF NotStale, Exclusive
    <2>6. Offered' /\ Answered'
      BY <2>1 DEF Offered, Holds, LastSize, Answered, AckIsForLatest
    <2>7. Working'
      BY <2>1, <2>3, <2>4 DEF Working, RunsWhatWasCommitted, Claiming
    <2> QED
      BY <2>5, <2>6, <2>7
  <1>15. CASE ElfOutput \/ ElfReturns
    <2>1. /\ UNCHANGED <<chan, fw, host, log, rmw, job, ghosts>>
          /\ spc = "run" /\ spc' \in {"output", "returned"}
      BY <1>15 DEF ElfOutput, ElfReturns
    <2>2. fw = "idle" /\ host.pc # "push" /\ ~held
      BY <1>a, <2>1 DEF Exclusive
    <2>3. NotStale' /\ Exclusive'
      BY <2>1, <2>2 DEF NotStale, Exclusive
    <2>4. Offered' /\ Answered'
      BY <2>1 DEF Offered, Holds, LastSize, Answered, AckIsForLatest
    <2>5. Working'
      BY <2>1 DEF Working, RunsWhatWasCommitted, Claiming
    <2> QED
      BY <2>3, <2>4, <2>5
  <1>16. CASE PowerOff \/ Boot
    <2>1. /\ UNCHANGED <<chan, fw, host, log, ghosts>>
          /\ spc' \in {"off", "installed"} /\ held' = FALSE
          /\ host.pc # "push" /\ fw = "idle"
      BY <1>a, <1>16 DEF PowerOff, Boot, TypeOK
    <2>2. NotStale' /\ Exclusive'
      BY <2>1 DEF NotStale, Exclusive
    <2>3. Offered' /\ Answered'
      BY <2>1 DEF Offered, Holds, LastSize, Answered, AckIsForLatest
    <2>4. Working'
      BY <2>1 DEF Working, RunsWhatWasCommitted, Claiming
    <2> QED
      BY <2>2, <2>3, <2>4
  <1>17. CASE PollIdle \/ UNCHANGED vars
    <2>1. UNCHANGED vars
      BY <1>17 DEF PollIdle
    <2> QED
      BY <2>1 DEF vars, Exclusive, NotStale, HeadSector, Offered, Holds, LastSize,
                  Working, RunsWhatWasCommitted, Answered, AckIsForLatest
  <1> QED
    BY <1>1, <1>2, <1>3, <1>4, <1>5, <1>6, <1>7, <1>8, <1>9, <1>10, <1>11,
       <1>12, <1>13, <1>14, <1>15, <1>16, <1>17
       DEF Next, HostStep, FwStep, StubStep

\* With a PC that writes only while the stub polls (as cmd_elf of
\* sd2psx_cli.py:105-138 does when the program before has returned), all the
\* invariants of DevMailbox hold together.
THEOREM QuietInvariant ==
    HostWaitsForIdle /\ ShortFiles => (Spec => [](TypeOK /\ AnyHostInv /\ QuietInv))
  <1> SUFFICES ASSUME HostWaitsForIdle, ShortFiles
               PROVE  Spec => [](TypeOK /\ AnyHostInv /\ QuietInv)
    OBVIOUS
  <1>1. TypeOK /\ AnyHostInv /\ QuietInv /\ [Next]_vars => QuietInv'
    BY QuietStep
  <1> QED
    BY <1>1, TypeInit, TypeStep, AnyHostInit, AnyHostStep, QuietInit, PTL DEF Spec

\* With such a PC the stub runs all of the image that was committed
\* (stub_main.c:280-312), and an acknowledgement the PC sees is about the
\* image it just pushed (wait_for_ack, sd2psx_bridge.py:453).
THEOREM QuietCorrect ==
    HostWaitsForIdle /\ ShortFiles
        => (Spec => [](RunsWhatWasCommitted /\ AckIsForLatest))
  <1>1. QuietInv => RunsWhatWasCommitted /\ AckIsForLatest
    BY DEF QuietInv, Working, Answered
  <1> QED
    BY <1>1, QuietInvariant, PTL

\* What one step may do to the doorbell.
LEMMA DoorbellStep ==
    ASSUME TypeOK, QuietInv, [Next]_vars
    PROVE  /\ hdr.doorbell # 0 /\ hdr'.doorbell = 0
                => hdr.doorbell = claim \/ fw = "reset_doorbell"
           /\ hdr.doorbell = 0 /\ hdr'.doorbell # 0 => fw = "commit_doorbell"
  <1> SUFFICES ASSUME hdr'.doorbell # hdr.doorbell
               PROVE  /\ hdr'.doorbell = 0 => hdr.doorbell = claim \/ fw = "reset_doorbell"
                      /\ hdr.doorbell = 0 => fw = "commit_doorbell"
    OBVIOUS
  <1> USE DEF chan, pc, rmw, job, ghosts, bounds
  <1>1. CASE McWriteHdr
    <2>1. hdr' = Patch(spc, hdr) /\ spc \in HdrJob
      BY <1>1 DEF McWriteHdr, QuietInv, NotStale, HeadSector
    <2>2. hdr'.doorbell = IF spc \in {"clear", "reject"} THEN 0 ELSE hdr.doorbell
      BY <2>1, PatchedHdr DEF TypeOK
    <2> QED
      BY <2>2 DEF QuietInv, Working, Claiming
  <1>2. CASE DevRingDoorbell
    BY <1>2 DEF DevRingDoorbell, FwStore, TypeOK, HdrType, QuietInv, Offered, Exclusive
  <1>3. CASE DevResetStores
    BY <1>3 DEF DevResetStores, FwStore, TypeOK, HdrType
  <1>4. ASSUME hdr' = hdr PROVE FALSE
    BY <1>4
  <1> QED
    BY <1>1, <1>2, <1>3, <1>4
       DEF Next, HostStep, FwStep, StubStep, BeginPush, PushChunk, Commit, CommitRefused,
           StatusPoll, GiveUp, Abandon, DevReset, McReadHdr, McFail, PollIdle, PollDoorbell,
           ReadSector, ReadFail, Load, ElfOutput, ElfReturns, PowerOff, Boot, vars

\* With such a PC no doorbell is lost: only the stub that claimed it or
\* DEV_RESET disarms it (stub_main.c:174, usb_bridge.c:288), and only a new
\* commit arms it.
THEOREM DoorbellSafe ==
    HostWaitsForIdle /\ ShortFiles => (Spec => DoorbellNotLost /\ ArmedOnlyByCommit)
  <1>1. TypeOK /\ AnyHostInv /\ QuietInv /\ [Next]_vars
          => /\ [hdr.doorbell # 0 /\ hdr'.doorbell = 0
                   => hdr.doorbell = claim \/ fw = "reset_doorbell"]_vars
             /\ [hdr.doorbell = 0 /\ hdr'.doorbell # 0 => fw = "commit_doorbell"]_vars
    BY DoorbellStep
  <1> QED
    BY <1>1, QuietInvariant, PTL DEF Spec, DoorbellNotLost, ArmedOnlyByCommit
=============================================================================
