------------------------------- MODULE UsbLink -------------------------------
(***************************************************************************)
(* The serial link between the PC and the firmware: how                     *)
(* firmware/usb_bridge.c cuts packets out of the byte stream               *)
(* (accumulate_and_dispatch, process_packet) and how sd2psx_bridge.py reads *)
(* the answers (_transact, _transact_variable).  The link loses nothing,    *)
(* but the program on the PC can be interrupted in the middle of a packet   *)
(* or of an answer, the port closed and opened again, and the PC can give   *)
(* up waiting before the firmware answers.  Nothing in a packet or an       *)
(* answer says which request it belongs to.                                *)
(*                                                                         *)
(* A byte is a set of labels and xor is the symmetric difference, so that a *)
(* checksum is exact for bytes that are "in general position": only bytes   *)
(* with a reason to be equal are.  A label is in the xor of some bytes if   *)
(* it is in an odd number of them.  The answer OK without data, for one, is  *)
(* the response code twice, as in the code.  A header is two bytes here,    *)
(* the magic byte and one for command and length; the request number in it  *)
(* is a ghost that the firmware's answer data repeats.                      *)
(***************************************************************************)
EXTENDS Naturals, Sequences, FiniteSets

CONSTANTS
    Cmd,            \* commands the program on the PC uses
    MaxPayload,     \* USB_BRIDGE_MAX_PAYLOAD
    Patient,        \* TRUE: the firmware's main loop comes round to the link
                    \* before a timeout of the PC, or the port is closed
    Numbers,        \* bounds: requests are numbered modulo this,
    MaxBreaks       \*   interruptions of the program

ASSUME LinkAssumption ==
    /\ Cmd \subseteq {"WRITE", "STATUS", "DEV_STATUS", "STDOUT_PULL"}
    /\ MaxPayload \in Nat \ {0}
    /\ Patient \in BOOLEAN
    /\ Numbers \in Nat \ {0} /\ MaxBreaks \in Nat

VARIABLES
    wire,       \* bytes on their way to the firmware
    rx,         \* rx_buf[0 .. rx_len - 1]
    back,       \* bytes on their way to the PC, or in its input buffer
    host,       \* the program on the PC: the request it is in, what it got
    answer,     \* ghost: what the firmware answered to each request
    breaks

vars == <<wire, rx, back, host, answer, breaks>>

None == [rsp |-> "none", data |-> << >>]

Init ==
    /\ wire = << >> /\ rx = << >> /\ back = << >>
    /\ host = [pc |-> "closed", cmd |-> "STATUS", id |-> 0, said |-> "none", data |-> << >>]
    /\ answer = [n \in 0 .. Numbers - 1 |-> None]
    /\ breaks = 0
-----------------------------------------------------------------------------
(* Packets and answers *)

Lesser(a, b) == IF a < b THEN a ELSE b

Xor(a, b) == (a \ b) \union (b \ a)

\* xor_checksum
XorChecksum(s) ==
    {l \in UNION {s[i] : i \in 1 .. Len(s)} :
        Cardinality({i \in 1 .. Len(s) : l \in s[i]}) % 2 = 1}

Sealed(s) == Append(s, XorChecksum(s))

Magic == {<<"magic", 0, 0>>}

\* Bytes of data that follow the header: only WRITE and ELF_PUSH have any
DataLen(cmd) == IF cmd = "WRITE" THEN MaxPayload ELSE 0

\* _build_packet
Packet(cmd, n) ==
    Sealed(<<Magic, {<<cmd, n, 0>>}>> \o [i \in 1 .. DataLen(cmd) |-> {<<"data", n, i>>}])

HeaderLen == 2

MaxPacket == HeaderLen + MaxPayload + 1

\* send_response
Frame(a) == Sealed(<<{<<a.rsp, 0, 0>>}>> \o a.data)

\* The data bytes of an answer, at most: expected_data_len or max_response
MaxAnswer(cmd) ==
    CASE cmd = "STATUS" -> 2
      [] cmd = "WRITE" -> 0
      [] cmd = "DEV_STATUS" -> 3
      [] cmd = "STDOUT_PULL" -> MaxPayload

AnswerData(n, len) == [i \in 1 .. len |-> {<<"answer", n, i>>}]

\* What process_packet may answer to the n-th request, if it arrives whole
Answers(cmd, n) ==
    CASE cmd = "WRITE" -> [rsp : {"ok", "busy"}, data : {<< >>}]
      [] cmd = "STDOUT_PULL" ->
            {[rsp |-> "nodata", data |-> << >>]}
            \union [rsp : {"ok"}, data : {AnswerData(n, len) : len \in 1 .. MaxPayload}]
      [] OTHER -> [rsp : {"ok"}, data : {AnswerData(n, MaxAnswer(cmd))}]

Garbled == [rsp |-> "err", data |-> << >>]
-----------------------------------------------------------------------------
(* The firmware: one call of accumulate_and_dispatch, that finds n bytes     *)

Connected == host.pc # "closed"

Label(byte) == CHOOSE l \in byte : TRUE

\* Mutant: the checksum byte is not waited for
ExpectedNoChecksum(buf) == HeaderLen + DataLen(Label(buf[2])[1])

\* Length of the packet that begins in buf
Expected(buf) == HeaderLen + DataLen(Label(buf[2])[1]) + 1

HasHeader(buf) == Len(buf) >= HeaderLen /\ buf[1] = Magic

Complete(buf) == HasHeader(buf) /\ Len(buf) >= Expected(buf)

\* The checksum over header, data and checksum byte comes out as zero
Intact(buf) == XorChecksum(SubSeq(buf, 1, Expected(buf))) = {}

Fill(n) == rx \o SubSeq(wire, 1, n)

Room == MaxPacket - Len(rx)

\* A USB packet is 64 bytes: a header is never found without what is sent with
\* it, the checksum of a request that has no data (TinyUSB reads whole packets)
WholePackets(n) ==
    n < Len(wire) => wire[n] # Magic /\ wire[n + 1] # Xor(Magic, wire[n])

\* It takes no more bytes than rx_buf has room for, which may cut a USB packet
Take(n) ==
    /\ Connected
    /\ n = Room \/ (n < Room /\ WholePackets(n))
    /\ wire' = SubSeq(wire, n + 1, Len(wire))
    /\ UNCHANGED <<host, breaks>>

FwCollect(n) ==
    /\ Take(n)
    /\ Len(Fill(n)) < HeaderLen \/ (HasHeader(Fill(n)) /\ ~Complete(Fill(n)))
    /\ rx' = Fill(n)
    /\ UNCHANGED <<back, answer>>

\* Bad magic: everything collected is dropped
FwResync(n) ==
    /\ Take(n)
    /\ Len(Fill(n)) >= HeaderLen /\ ~HasHeader(Fill(n))
    /\ rx' = << >>
    /\ UNCHANGED <<back, answer>>

\* A packet is processed, and bytes after it are dropped
FwDispatch(n) ==
    /\ Take(n)
    /\ Complete(Fill(n)) /\ Intact(Fill(n))
    /\ LET hdr == Label(Fill(n)[2]) IN
        \E a \in Answers(hdr[1], hdr[2]) :
            /\ back' = back \o Frame(a)
            /\ answer' = [answer EXCEPT ![hdr[2]] = a]
    /\ rx' = << >>

\* Mutant: rx_len is not reset after a bad checksum
FwRejectKeeps(n) ==
    /\ Take(n)
    /\ Complete(Fill(n)) /\ ~Intact(Fill(n))
    /\ back' = back \o Frame(Garbled)
    /\ rx' = Fill(n)
    /\ UNCHANGED answer

\* A packet with a wrong checksum is answered with ERR
FwReject(n) ==
    /\ Take(n)
    /\ Complete(Fill(n)) /\ ~Intact(Fill(n))
    /\ back' = back \o Frame(Garbled)
    /\ rx' = << >>
    /\ UNCHANGED answer
-----------------------------------------------------------------------------
(* The PC *)

\* Mutant: the input buffer keeps what an earlier program did not read
ConnectKeeps ==
    /\ host.pc = "closed"
    /\ host' = [host EXCEPT !.pc = "open", !.said = "none", !.data = << >>]
    /\ UNCHANGED <<wire, rx, back, answer, breaks>>

\* connect opens the port, which empties the input buffer (pyserial), ...
Connect ==
    /\ host.pc = "closed"
    /\ host' = [host EXCEPT !.pc = "open", !.said = "none", !.data = << >>]
    /\ back' = << >>
    /\ UNCHANGED <<wire, rx, answer, breaks>>

NextId == (host.id + 1) % Numbers

\* ... and verifies the link with a STATUS
Send(cmd) ==
    /\ IF cmd = "STATUS" THEN host.pc \in {"open", "idle"} ELSE host.pc = "idle"
    /\ wire' = wire \o Packet(cmd, NextId)
    /\ host' = [pc |-> IF host.pc = "open" THEN "verify" ELSE "wait", cmd |-> cmd,
                id |-> NextId, said |-> "none", data |-> << >>]
    /\ answer' = [answer EXCEPT ![NextId] = None]
    /\ UNCHANGED <<rx, back, breaks>>

\* Outcome of a call, and the bytes of the input buffer it has consumed
Result(said, data, used) == [said |-> said, data |-> data, used |-> used]

Code(byte) == Label(byte)[1]

\* Response code of the first byte, if it is the byte of one
RspOf(byte) ==
    IF \E r \in {"ok", "err", "busy", "nodata"} : byte = {<<r, 0, 0>>} THEN Code(byte)
    ELSE "unknown"

\* _transact and _parse_response, on what the read of all the answer returned
FixedResult(raw, want) ==
    LET rsp == RspOf(raw[1]) IN
    CASE Len(raw) < 2 -> Result("timeout", << >>, Len(raw))
      [] Len(raw) \in 2 .. want - 1 -> Result("error", << >>, Len(raw))
      [] Len(raw) >= want /\ rsp = "ok" /\ XorChecksum(raw) = {} ->
            Result("ok", SubSeq(raw, 2, Len(raw) - 1), Len(raw))
      [] Len(raw) >= want /\ rsp = "nodata" -> Result("empty", << >>, Len(raw))
      [] OTHER -> Result("error", << >>, Len(raw))

\* _transact_variable reads the response code alone, and the rest after an OK
VariableResult(raw) ==
    CASE raw = << >> -> Result("timeout", << >>, 0)
      [] raw # << >> /\ RspOf(raw[1]) = "nodata" -> Result("empty", << >>, 1)
      [] raw # << >> /\ RspOf(raw[1]) = "ok" ->
            IF Len(raw) = 1 THEN Result("empty", << >>, 1)
            ELSE IF XorChecksum(raw) = {}
                 THEN Result("ok", SubSeq(raw, 2, Len(raw) - 1), Len(raw))
                 ELSE Result("error", << >>, Len(raw))
      [] OTHER -> Result("error", << >>, 1)

Variable == {"DEV_STATUS", "STDOUT_PULL"}

\* Mutant: one byte too many is expected
WholeAnswerPlusOne == 3 + MaxAnswer(host.cmd)

\* rsp_len: response code, data, checksum
WholeAnswer == 2 + MaxAnswer(host.cmd)

\* The read is over: the bytes are there,
Arrived ==
    \/ Len(back) >= WholeAnswer
    \/ host.cmd \in Variable /\ back # << >> /\ RspOf(back[1]) # "ok"

\* or the timeout has passed
Late == Patient => wire = << >>

\* connect() does not survive an error; cmd_watch and users of the library go
\* on after one, and the other commands Close
Receive ==
    /\ host.pc \in {"verify", "wait"}
    /\ Arrived \/ Late
    /\ LET raw == SubSeq(back, 1, Lesser(Len(back), WholeAnswer))
           res == IF host.cmd \in Variable THEN VariableResult(raw)
                  ELSE FixedResult(raw, WholeAnswer)
           good == res.said \in {"ok", "empty"} IN
        /\ back' = SubSeq(back, res.used + 1, Len(back))
        /\ host' = [host EXCEPT !.said = res.said, !.data = res.data,
                    !.pc = IF good \/ host.pc = "wait" THEN "idle" ELSE "closed"]
    /\ UNCHANGED <<wire, rx, answer, breaks>>

\* The program ends,
Close ==
    /\ host.pc = "idle"
    /\ host' = [host EXCEPT !.pc = "closed"]
    /\ UNCHANGED <<wire, rx, back, answer, breaks>>

\* is interrupted while it waits,
Break ==
    /\ host.pc \in {"verify", "wait"}
    /\ breaks < MaxBreaks /\ breaks' = breaks + 1
    /\ host' = [host EXCEPT !.pc = "ending"]
    /\ UNCHANGED <<wire, rx, back, answer>>

\* or in the middle of a packet with data, after a whole number of USB packets.
BreakSending(cmd) ==
    /\ host.pc = "idle"
    /\ DataLen(cmd) > 0
    /\ breaks < MaxBreaks /\ breaks' = breaks + 1
    /\ \E cut \in HeaderLen .. HeaderLen + DataLen(cmd) :
        wire' = wire \o SubSeq(Packet(cmd, NextId), 1, cut)
    /\ host' = [host EXCEPT !.pc = "ending", !.id = NextId, !.said = "none"]
    /\ answer' = [answer EXCEPT ![NextId] = None]
    /\ UNCHANGED <<rx, back>>

Ended ==
    /\ host.pc = "ending" /\ Late
    /\ host' = [host EXCEPT !.pc = "closed"]
    /\ UNCHANGED <<wire, rx, back, answer, breaks>>
-----------------------------------------------------------------------------
FwStep ==
    \E n \in 1 .. Len(wire) : FwCollect(n) \/ FwResync(n) \/ FwDispatch(n) \/ FwReject(n)

Call == Connect \/ Send("STATUS") \/ Receive \/ Ended

Next ==
    \/ FwStep
    \/ Connect \/ Receive \/ Close \/ Break \/ Ended
    \/ \E cmd \in Cmd \union {"STATUS"} : Send(cmd) \/ BreakSending(cmd)

Spec == Init /\ [][Next]_vars

\* The firmware runs usb_bridge_task again and again, and somebody keeps
\* starting the program
FairSpec == Spec /\ WF_vars(FwStep) /\ WF_vars(Call)
-----------------------------------------------------------------------------
\* What a label may say of its byte, and a byte
Word == {"magic", "WRITE", "STATUS", "DEV_STATUS", "STDOUT_PULL", "data",
         "ok", "busy", "nodata", "err", "answer"}

Byte == SUBSET (Word \X Nat \X Nat)

Answer == [rsp : Word \union {"none"}, data : Seq(Byte)]

\* Every variable has its type; rx_buf is never full between two calls, so
\* there is always room for the byte that completes a packet.
TypeOK ==
    /\ wire \in Seq(Byte \ {{}}) /\ rx \in Seq(Byte \ {{}}) /\ back \in Seq(Byte)
    /\ Len(rx) < MaxPacket
    /\ host \in [pc : {"closed", "open", "verify", "wait", "idle", "ending"},
                 cmd : Cmd \union {"STATUS"}, id : 0 .. Numbers - 1,
                 said : {"none", "ok", "empty", "error", "timeout"}, data : Seq(Byte)]
    /\ answer \in [0 .. Numbers - 1 -> Answer]
    /\ breaks \in 0 .. MaxBreaks

\* What a call returns is the firmware's answer to that call, also when the
\* program before it was interrupted: in particular a WRITE that is taken for
\* done has arrived whole and was not refused.
GetsItsAnswer ==
    host.said = "ok" => answer[host.id] = [rsp |-> "ok", data |-> host.data]

\* However the bytes of a packet or an answer trickle in, a call only fails if
\* the card was busy or an earlier program was interrupted.
NoErrorUnprovoked ==
    breaks = 0 /\ host.said \in {"error", "timeout"} => answer[host.id].rsp = "busy"

\* pull_stdout returns the bytes of the ring, and b"" if nothing is available
\* (sd2psx_bridge.py:401).
PullReturnsOutput ==
    host.cmd = "STDOUT_PULL" =>
        /\ host.said = "ok" => answer[host.id].data = host.data
        /\ host.said = "empty" => answer[host.id].rsp = "nodata"

\* A program that is started again and again gets through to the firmware,
\* whatever earlier ones have left half sent.
GetsThrough == host.pc = "closed" ~> host.pc = "idle"
-----------------------------------------------------------------------------
(* Why a program gets its own answers: the inductive invariant, without      *)
(* STDOUT_PULL, whose read of a single byte leaves a checksum behind        *)
(* (sd2psx_bridge.py:273), and with a PC that does not give up early.       *)

NoPull == "STDOUT_PULL" \notin Cmd

\* What the firmware has not yet processed
Stream == rx \o wire

\* A magic byte is always followed by a command: no packet is cut between the
\* two, and data are bytes in general position
Framed ==
    \A k \in 1 .. Len(Stream) :
        Stream[k] = Magic =>
            /\ k < Len(Stream)
            /\ \E c \in Cmd \union {"STATUS"}, n \in 0 .. Numbers - 1 :
                    Stream[k + 1] = {<<c, n, 0>>}

Status == Packet("STATUS", host.id)

\* It is the packet of the request the PC is in,
Whole == Stream = Packet(host.cmd, host.id) /\ wire # << >>

\* or a WRITE that will never be complete, with STATUS packets where its data
\* should be; the last of them reaches beyond the length it announced,
Stuck ==
    /\ Len(Stream) >= HeaderLen
    /\ Stream[1] = Magic
    /\ \E l \in Stream[2] : Stream[2] = {l} /\ l[1] = "WRITE"
    /\ \A k \in 3 .. Len(Stream) : \A l \in Stream[k] : l[1] # "WRITE"
    /\ Len(Stream) < MaxPacket \/ \E j \in 1 .. 4 : wire = SubSeq(Status, j, 3)

\* or what is left of that STATUS packet when the WRITE has been refused.
Junk ==
    /\ Len(rx) <= 1
    /\ \E j \in 1 .. 4 : wire = SubSeq(Status, j, 3) /\ (rx = << >> => j > 1)
    /\ rx # << >> => rx[1] # Magic

Empty == rx = << >> /\ wire = << >>

\* The answer to the request the PC is in, and nothing else, waits for the PC
Answered ==
    /\ answer[host.id] \in Answers(host.cmd, host.id)
    /\ back = Frame(answer[host.id])

Undisturbed == (Whole /\ back = << >>) \/ (Empty /\ Answered)

LineOK ==
    CASE host.pc \in {"closed", "open"} -> wire = << >> /\ (Empty \/ Stuck \/ Junk)
      [] host.pc = "idle"   -> Empty
      [] host.pc = "wait"   -> Undisturbed
      [] host.pc = "verify" -> \/ Undisturbed
                               \/ Stuck /\ back = << >>
                               \/ Junk /\ back \in {<< >>, Frame(Garbled)}
      [] host.pc = "ending" -> Empty \/ Whole \/ Stuck \/ Junk

LinkInv ==
    /\ TypeOK /\ Framed
    /\ LineOK
    /\ breaks = 0 => Empty \/ Whole
    /\ breaks = 0 /\ host.pc = "verify" => Undisturbed
    /\ host.pc \in {"open", "idle"} => back = << >>
    /\ host.pc = "verify" => host.cmd = "STATUS"
    /\ host.pc \in {"verify", "wait", "ending"} => host.said = "none"
    /\ GetsItsAnswer /\ NoErrorUnprovoked
=============================================================================
