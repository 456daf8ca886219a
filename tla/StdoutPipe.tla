----------------------------- MODULE StdoutPipe -----------------------------
(***************************************************************************)
(* What the stdout ring promises: a pipe.  In a session the PC receives the *)
(* bytes the PS2 has sent, each once and in order.  A new session starts   *)
(* empty.  Once bytes have been lost ("broken") nothing is promised until   *)
(* the next session.                                                        *)
(***************************************************************************)
EXTENDS Naturals, Sequences

VARIABLES
    session,    \* number of the session
    sent,       \* how many bytes of it were made available to the PC
    recv,       \* the bytes of it the PC has received
    broken      \* bytes of it were lost

vars == <<session, sent, recv, broken>>

\* The k-th byte of the session
Byte(k) == <<session, k>>

Init ==
    /\ session = 0 /\ sent = 0 /\ recv = << >> /\ broken = FALSE

Send ==
    /\ sent' \in Nat /\ sent' >= sent
    /\ UNCHANGED <<session, recv, broken>>

Receive ==
    /\ Len(recv') \in Len(recv) .. sent
    /\ recv' = [k \in 1 .. Len(recv') |-> Byte(k)]
    /\ UNCHANGED <<session, sent, broken>>

Restart ==
    /\ session' = session + 1 /\ sent' = 0 /\ recv' = << >> /\ broken' = FALSE

Break ==
    /\ broken' = TRUE
    /\ UNCHANGED <<session, sent, recv>>

Broken ==
    /\ broken /\ broken'
    /\ session' = session

Next == Send \/ Receive \/ Restart \/ Break \/ Broken

Spec == Init /\ [][Next]_vars
=============================================================================
