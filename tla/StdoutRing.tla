----------------------------- MODULE StdoutRing -----------------------------
(***************************************************************************)
(* The ring buffer that carries stdout from the PS2 to the PC.  The stub    *)
(* (ps2stub/stdout_ring.c) writes bytes into the ring and publishes its     *)
(* write pointer in STDOUT_HEAD; the firmware (dev_stdout_pull in           *)
(* firmware/usb_bridge.c) reads STDOUT_HEAD when the PC asks for output and *)
(* keeps the drain pointer in a variable of its own.  STDOUT_TAIL is left   *)
(* out: both sides write it and none reads it, so the stub never learns how *)
(* much room there is, and never waits.                                     *)
(*                                                                         *)
(* Each update of STDOUT_HEAD sets the whole word, so the read-modify-write *)
(* of its sector, the subject of DevMailbox, is one step here.  dev_reset   *)
(* is one step too: the only other reader of stdout_tail is the pull of the *)
(* same thread.  A byte of the ring is a ghost: its session and its place   *)
(* in what the stub wrote in that session.                                  *)
(***************************************************************************)
EXTENDS DevChannel, Sequences

CONSTANTS
    MaxPull,        \* bytes in one STDOUT_PULL, USB_BRIDGE_MAX_PAYLOAD
    ResetPolicy,    \* when the PC sends DEV_RESET: between sessions and before
                    \* each of them, at any time, or never
    MaxWrite,       \* bounds: bytes in one write,
    MaxBytes,       \*   bytes in a session,
    MaxSessions, MaxFaults, MaxPowerOffs

ASSUME RingAssumption ==
    /\ MaxPull \in Nat \ {0}
    /\ ResetPolicy \in {"between", "anytime", "never"}
    /\ {MaxWrite, MaxBytes, MaxSessions, MaxFaults, MaxPowerOffs} \subseteq Nat

Slot == 0 .. RingSize - 1

VARIABLES
    ring,       \* the ring in PSRAM
    HEAD,       \* STDOUT_HEAD in PSRAM
    spc,        \* what the stub is doing
    head,       \* _head, its copy of the write pointer
    rem,        \* remaining bytes of the write it is in
    tail,       \* stdout_tail of the firmware
    fpc,        \* "copy" while the firmware serves a pull
    need,       \* to_read of that pull
    chunk,      \* data_buf: what it has copied so far
    session, nput, npub, ngot,  \* ghosts: bytes put, published and pulled
    recv,       \* what the PC has received in the session
    fresh,      \* nothing was published since DEV_RESET
    lossy,      \* bytes of the session were overwritten unread, or not stored
    faults, powerOffs

stub   == <<spc, head, rem>>
pull   == <<fpc, need, chunk>>
ghosts == <<session, nput, npub, ngot, recv, fresh, lossy>>
bounds == <<faults, powerOffs>>
vars   == <<ring, HEAD, stub, tail, pull, ghosts, bounds>>

Byte(k) == <<session, k>>

\* Mutant: the write pointer may rest on the end of the ring
WrapLate(i) == IF i > RingSize THEN i - RingSize ELSE i

\* Where the write pointer goes when it passes the end of the ring
Wrap(i) == IF i >= RingSize THEN i - RingSize ELSE i

Lesser(a, b) == IF a < b THEN a ELSE b

Init ==
    /\ ring = [s \in Slot |-> <<0, 0>>] /\ HEAD = 0
    /\ spc = "off" /\ head = 0 /\ rem = 0
    /\ tail = 0 /\ fpc = "idle" /\ need = 0 /\ chunk = << >>
    /\ session = 0 /\ nput = 0 /\ npub = 0 /\ ngot = 0
    /\ recv = << >> /\ fresh = TRUE /\ lossy = FALSE
    /\ faults = 0 /\ powerOffs = 0
-----------------------------------------------------------------------------
(* The stub *)

Boot ==
    /\ spc = "off" /\ spc' = "init"
    /\ UNCHANGED <<ring, HEAD, head, rem, tail, pull, ghosts, bounds>>

\* Mutant: stdout_ring_init does not look at the published pointer
RingInitZero ==
    /\ spc = "init" /\ spc' = "run"
    /\ head' = 0 /\ nput' = npub
    /\ UNCHANGED <<ring, HEAD, rem, tail, pull, session, npub, ngot, recv, fresh, lossy, bounds>>

\* stdout_ring_init takes over the published pointer; bytes put but not
\* published before a power cycle are forgotten
RingInit ==
    /\ spc = "init" /\ spc' = "run"
    /\ head' = HEAD /\ nput' = npub
    /\ UNCHANGED <<ring, HEAD, rem, tail, pull, session, npub, ngot, recv, fresh, lossy, bounds>>

\* ... and starts from 0 if it cannot read it
RingInitFail ==
    /\ spc = "init" /\ spc' = "run"
    /\ faults < MaxFaults /\ faults' = faults + 1
    /\ head' = 0 /\ nput' = npub
    /\ lossy' = (lossy \/ HEAD # 0)
    /\ UNCHANGED <<ring, HEAD, rem, tail, pull, session, npub, ngot, recv, fresh, powerOffs>>

\* stdout_ring_write is called, by the stub or by the program it runs
BeginWrite(n) ==
    /\ spc = "run" /\ spc' = "put"
    /\ nput + n <= MaxBytes
    /\ rem' = n
    /\ UNCHANGED <<ring, HEAD, head, tail, pull, ghosts, bounds>>

\* One turn of its loop: up to the end of the ring, of which the card stores
\* the first "stored" bytes
Put(stored) ==
    LET n == Lesser(rem, RingSize - head) IN
    /\ spc = "put"
    /\ ring' = [s \in Slot |-> IF s \in head .. head + Lesser(n, stored) - 1
                               THEN Byte(nput + 1 + s - head) ELSE ring[s]]
    /\ head' = Wrap(head + n)
    /\ rem' = rem - n
    /\ nput' = nput + n
    /\ lossy' = (lossy \/ nput + n - ngot >= RingSize \/ stored < n)
    /\ spc' = IF rem > n THEN "put" ELSE "publish"
    /\ UNCHANGED <<HEAD, tail, pull, session, npub, ngot, recv, fresh>>

PutAll == Put(RingSize) /\ UNCHANGED bounds

\* A sector write fails; the result of mc_write_bytes is ignored
PutFail ==
    /\ faults < MaxFaults /\ faults' = faults + 1
    /\ \E stored \in 0 .. RingSize - 1 :
        stored < Lesser(rem, RingSize - head) /\ Put(stored)
    /\ UNCHANGED powerOffs

Publish ==
    /\ spc = "publish" /\ spc' = "run"
    /\ HEAD' = head /\ npub' = nput
    /\ fresh' = FALSE
    /\ UNCHANGED <<ring, head, rem, tail, pull, session, nput, ngot, recv, lossy, bounds>>

PublishFail ==
    /\ spc = "publish" /\ spc' = "run"
    /\ faults < MaxFaults /\ faults' = faults + 1
    /\ UNCHANGED <<ring, HEAD, head, rem, tail, pull, ghosts, powerOffs>>

\* The start-up lines are out, or the program has returned: back to polling
Return ==
    /\ spc = "run" /\ spc' = "poll"
    /\ UNCHANGED <<ring, HEAD, head, rem, tail, pull, ghosts, bounds>>

\* The ghosts of a session that has sent and received nothing yet
NewSession ==
    /\ session' = session + 1
    /\ nput' = 0 /\ npub' = 0 /\ ngot' = 0
    /\ recv' = << >> /\ lossy' = FALSE

\* An ELF is claimed: HEAD and TAIL are set to 0 and the ring initialised
RingReset ==
    /\ spc = "poll" /\ spc' = "init"
    /\ session < MaxSessions
    /\ ResetPolicy = "between" => fresh
    /\ HEAD' = 0
    /\ NewSession
    /\ UNCHANGED <<ring, head, rem, tail, pull, fresh, bounds>>

\* The card does not take the zeros, which nobody notices
RingResetFail ==
    /\ spc = "poll" /\ spc' = "init"
    /\ session < MaxSessions
    /\ ResetPolicy = "between" => fresh
    /\ faults < MaxFaults /\ faults' = faults + 1
    /\ NewSession
    /\ UNCHANGED <<ring, HEAD, head, rem, tail, pull, fresh, powerOffs>>

PowerOff ==
    /\ spc # "off" /\ spc' = "off"
    /\ powerOffs < MaxPowerOffs /\ powerOffs' = powerOffs + 1
    /\ head' = 0 /\ rem' = 0
    /\ UNCHANGED <<ring, HEAD, tail, pull, ghosts, faults>>
-----------------------------------------------------------------------------
(* The firmware *)

\* Mutant: it waits until a packet can be filled
PullBeginFull ==
    /\ fpc = "idle" /\ fpc' = "copy"
    /\ Available(HEAD, tail) >= MaxPull
    /\ need' = Lesser(Available(HEAD, tail), MaxPull)
    /\ UNCHANGED <<ring, HEAD, stub, tail, chunk, ghosts, bounds>>

\* dev_stdout_pull finds bytes between its tail and the HEAD it reads
PullBegin ==
    /\ fpc = "idle" /\ fpc' = "copy"
    /\ Available(HEAD, tail) > 0
    /\ need' = Lesser(Available(HEAD, tail), MaxPull)
    /\ UNCHANGED <<ring, HEAD, stub, tail, chunk, ghosts, bounds>>

\* Mutant: the second segment starts at the drain pointer again
PullCopyAgain ==
    LET n == Lesser(need - Len(chunk), RingSize - tail) IN
    /\ fpc = "copy" /\ Len(chunk) < need
    /\ chunk' = chunk \o [i \in 1 .. n |-> ring[tail + i - 1]]
    /\ UNCHANGED <<ring, HEAD, stub, tail, fpc, need, ghosts, bounds>>

\* It copies them, in two segments if they wrap around
PullCopy ==
    LET pos == Wrap(tail + Len(chunk))
        n   == Lesser(need - Len(chunk), RingSize - pos) IN
    /\ fpc = "copy" /\ Len(chunk) < need
    /\ chunk' = chunk \o [i \in 1 .. n |-> ring[pos + i - 1]]
    /\ UNCHANGED <<ring, HEAD, stub, tail, fpc, need, ghosts, bounds>>

\* Mutant: the tail is set to the start of the ring when it would pass its end
PullEndRestarts ==
    /\ fpc = "copy" /\ Len(chunk) = need /\ fpc' = "idle"
    /\ tail' = IF tail + need >= RingSize THEN 0 ELSE tail + need
    /\ recv' = recv \o chunk
    /\ ngot' = ngot + need
    /\ need' = 0 /\ chunk' = << >>
    /\ UNCHANGED <<ring, HEAD, stub, session, nput, npub, fresh, lossy, bounds>>

\* It advances the tail and sends them
PullEnd ==
    /\ fpc = "copy" /\ Len(chunk) = need /\ fpc' = "idle"
    /\ tail' = (tail + need) % RingSize
    /\ recv' = recv \o chunk
    /\ ngot' = ngot + need
    /\ need' = 0 /\ chunk' = << >>
    /\ UNCHANGED <<ring, HEAD, stub, session, nput, npub, fresh, lossy, bounds>>

\* Mutant: dev_reset leaves stdout_tail alone
DevResetKeepsTail ==
    /\ fpc = "idle"
    /\ session < MaxSessions
    /\ \/ ResetPolicy = "between" /\ spc \in {"poll", "off"}
       \/ ResetPolicy = "anytime"
    /\ HEAD' = 0
    /\ NewSession /\ fresh' = TRUE
    /\ UNCHANGED <<ring, stub, tail, pull, bounds>>

DevReset ==
    /\ fpc = "idle"
    /\ session < MaxSessions
    /\ \/ ResetPolicy = "between" /\ spc \in {"poll", "off"}
       \/ ResetPolicy = "anytime"
    /\ HEAD' = 0 /\ tail' = 0
    /\ NewSession /\ fresh' = TRUE
    /\ UNCHANGED <<ring, stub, pull, bounds>>
-----------------------------------------------------------------------------
(* The answer to DEV_STATUS, which changes nothing: its last two bytes       *)

\* A uint16_t of a packed struct, sent as it lies in the RP2040's memory: the
\* low byte first
PendingSent ==
    LET pending == Lesser(Available(HEAD, tail), 65535) IN <<pending % 256, pending \div 256>>

\* dev_status() takes the first of them for the high byte
PendingRead(bytes) == bytes[1] * 256 + bytes[2]
-----------------------------------------------------------------------------
StubStep == RingInit \/ PutAll \/ Publish

PullStep == PullBegin \/ PullCopy \/ PullEnd

Next ==
    \/ Boot \/ Return \/ RingReset
    \/ \E n \in 1 .. MaxWrite : BeginWrite(n)
    \/ StubStep \/ PullStep
    \/ RingInitFail \/ PutFail \/ PublishFail \/ RingResetFail
    \/ PowerOff \/ DevReset

Spec == Init /\ [][Next]_vars

\* stream_stdout keeps pulling as long as it gets bytes
FairSpec == Spec /\ WF_vars(PullStep)
-----------------------------------------------------------------------------
\* Every variable has its type; the pointers stay inside the ring.
TypeOK ==
    /\ ring \in [Slot -> Nat \X Nat]
    /\ HEAD \in Slot /\ head \in Slot /\ tail \in Slot
    /\ spc \in {"off", "init", "run", "put", "publish", "poll"}
    /\ rem \in Nat /\ (spc = "put" => rem > 0)
    /\ fpc \in {"idle", "copy"}
    /\ need \in 0 .. MaxPull /\ need < RingSize
    /\ chunk \in Seq(Nat \X Nat) /\ Len(chunk) <= need
    /\ fpc = "idle" => need = 0 /\ chunk = << >>
    /\ session \in Nat /\ nput \in Nat /\ npub \in Nat /\ ngot \in Nat
    /\ faults \in Nat /\ powerOffs \in Nat
    /\ recv \in Seq(Nat \X Nat)
    /\ fresh \in BOOLEAN /\ lossy \in BOOLEAN

\* The PC receives what the program of this session printed: nothing left
\* over from an earlier one, nothing twice, nothing out of order, however
\* writes and pulls interleave, as long as the ring does not overrun and the
\* card stores what it is given.
ReceivesThisSession ==
    lossy \/ recv = [k \in 1 .. Len(recv) |-> Byte(k)]

\* Between the firmware's drain pointer and the published write pointer lie
\* exactly the bytes published and not pulled, and a pull under way takes no
\* others (usb_bridge.c:254-263), although STDOUT_HEAD is moved by the stub
\* and by DEV_RESET, each on its own (stdout_ring.c:78, stub_main.c:248).
UnreadIsBetween ==
    lossy \/ (Available(HEAD, tail) = npub - ngot /\ need <= npub - ngot)

\* What dev_status() returns as stdout_pending is not the "bytes available in
\* stdout ring" (usb_bridge.h:79), but their number with its bytes swapped
\* (sd2psx_bridge.py:446): 256 for one byte, and right only where both bytes
\* of the number are the same.
StatusIsSwapped ==
    LET unread == npub - ngot IN
    lossy \/ /\ PendingRead(PendingSent) = (unread % 256) * 256 + unread \div 256
             /\ PendingRead(PendingSent) = unread <=> unread % 256 = unread \div 256

\* Bytes once published reach a PC that keeps pulling, unless the session
\* ends first.
Drains ==
    \A k \in 1 .. MaxBytes : npub >= k ~> ngot >= k \/ lossy \/ npub < k

\* The inductive invariant behind these, for a PC that resets the channel
\* between sessions: after DEV_RESET both pointers are 0 until something is
\* published,
Reset == fresh => HEAD = 0 /\ tail = 0 /\ fpc = "idle"

\* and unless bytes were lost, those put and not pulled lie between the drain
\* pointer and the write pointer, those published end at HEAD, and what was
\* copied and received is the beginning of the session.
InOrder ==
    /\ ngot <= npub /\ npub <= nput /\ nput < ngot + RingSize
    /\ HEAD = Wrap(tail + (npub - ngot))
    /\ spc \in {"run", "put", "publish"} => head = Wrap(tail + (nput - ngot))
    /\ \A k \in 0 .. nput - ngot - 1 : ring[Wrap(tail + k)] = Byte(ngot + k + 1)
    /\ need <= npub - ngot
    /\ \A i \in 1 .. Len(chunk) : chunk[i] = Byte(ngot + i)
    /\ Len(recv) = ngot
    /\ \A i \in 1 .. ngot : recv[i] = Byte(i)

RingInv == Reset /\ (lossy \/ InOrder)

\* The ring implements the pipe.
Pipe == INSTANCE StdoutPipe WITH sent <- npub, broken <- lossy

ImplementsPipe == Pipe!Spec
=============================================================================
