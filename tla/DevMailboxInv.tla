---------------------------- MODULE DevMailboxInv ----------------------------
(***************************************************************************)
(* The inductive invariants behind the safety properties of DevMailbox,    *)
(* checked by the runs and proved in DevMailbox_proofs.                     *)
(***************************************************************************)
EXTENDS DevMailbox

\* The stub acts on a doorbell it has not cleared yet
Claiming == {"ringreset", "read", "load", "ack", "clear", "reject"}

Committing == {"commit_size", "commit_ack", "commit_doorbell"}

\* A header is no older than the last doorbell cleared, acknowledges only what
\* was loaded, and knows of no commit that was not made
Current(h) ==
    /\ h.doorbell # 0 => h.doorbell > done
    /\ h.ack # 0 => h.ack \in loaded
    /\ h.doorbell <= Len(log)
    /\ fw \in Committing => h.doorbell < Len(log)

(* With any PC.  What the stub's stale copy of the header may hold is what   *)
(* the header itself may hold: this is why writing it back does no harm to  *)
(* these properties.                                                       *)
AnyHostInv ==
    /\ Current(hdr)
    /\ Current(buf.hdr)
    /\ done <= Len(log) /\ claim <= Len(log)
    /\ fw \in Committing => done < Len(log) /\ claim < Len(log)
    /\ spc \in Claiming => claim > done
    /\ spc = "ack" => claim \in loaded
    /\ faults + powerOffs = 0 =>
         \A c \in loaded : c <= done \/ (spc \in {"ack", "clear"} /\ c = claim)

\* The first n units of memory m come from the image of the last commit
Holds(m, n) == \A u \in 0 .. n - 1 : m[u] = log[Len(log)]

LastSize == SizeOf[log[Len(log)]]

(* With a PC that waits for the stub to be quiet, and files no longer than   *)
(* the len field can say.                                                  *)
ShortFiles == \A img \in Image : SizeOf[img] < LenModulus

\* The PC and the firmware write only while the stub does not,
Exclusive ==
    /\ host.pc = "push" => spc \in {"poll", "off"} /\ hdr.doorbell = 0
    /\ fw # "idle" => /\ spc \in {"poll", "off"}
                      /\ hdr.doorbell = 0 \/ (fw = "reset_doorbell" /\ spc = "off")

\* so the stub's copy of the header sector is never stale;
NotStale == held => buf = HeadSector

\* what is being pushed, and what an armed doorbell offers,
Offered ==
    /\ host.pc = "push" => \A u \in 0 .. host.off - 1 : staging[u] = host.img
    /\ hdr.doorbell \in {0, Len(log)}
    /\ hdr.doorbell # 0 \/ fw \in Committing => log # << >> /\ Holds(staging, LastSize)
    /\ hdr.doorbell # 0 \/ fw \in {"commit_ack", "commit_doorbell"} => hdr.size = LastSize

\* the stub works on,
Working ==
    /\ spc \in Claiming => claim = hdr.doorbell /\ claim # 0
    /\ spc \in {"ringreset", "read", "load"} => esize = hdr.size /\ Holds(stage, rd)
    /\ spc = "load" => rd = esize
    /\ RunsWhatWasCommitted

\* and the PC sees the acknowledgement of that commit or none.
Answered ==
    /\ host.pc \in {"push", "wait"} => host.said = "none"
    /\ host.pc = "wait" /\ fw \notin {"commit_size", "commit_ack"}
         => hdr.ack \in {0, Len(log)}
    /\ AckIsForLatest

QuietInv == Exclusive /\ NotStale /\ Offered /\ Working /\ Answered
=============================================================================
