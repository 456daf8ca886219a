-------------------------- MODULE DevMailboxLoader --------------------------
(***************************************************************************)
(* DevMailbox as an implementation of Loader, for a PC that writes only     *)
(* while the stub is quiet.                                                *)
(***************************************************************************)
EXTENDS DevMailboxInv

\* The stub has loaded an image and is not through with it
Occupied == {"ack", "clear", "jumping", "run", "output", "returned"}

Running ==
    IF spc \in Occupied
    THEN [commit |-> claim,
          content |-> [u \in 0 .. SizeOf[log[claim]] - 1 |-> stage[u]]]
    ELSE [commit |-> 0, content |-> << >>]

L == INSTANCE Loader WITH
        pending   <- fw \in Committing,
        offered   <- hdr.doorbell,
        running   <- Running,
        ran       <- loaded,
        told      <- host.said = "ack",
        disturbed <- faults + powerOffs > 0

\* Why a doorbell is being rejected
RejectReason ==
    spc = "reject" => log[claim] \notin Loadable \/ faults + powerOffs > 0

\* Every step of the PC, the firmware and the stub is a step of a loader that
\* runs whole images, each once, in answer to the doorbell that offers it
\* (stub_main.c:202-320, usb_bridge.c:223-239), or a stutter.
ImplementsLoader == L!Spec
=============================================================================
