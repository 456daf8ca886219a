------------------------------- MODULE Loader -------------------------------
(***************************************************************************)
(* What the mailbox promises to a PC, without header, sectors or polling:   *)
(* images are committed and offered one after the other, the PS2 takes the  *)
(* one on offer, runs all of it, and runs it once; an offer ends when it is *)
(* taken, when the PC withdraws it or when the image is no program.  Only a *)
(* disturbance (the card fails, the console is switched off) can make it    *)
(* run an image again or drop one.                                         *)
(***************************************************************************)
EXTENDS Integers, Sequences

CONSTANTS
    Image,      \* the files the PC may commit
    SizeOf,     \* their sizes
    Loadable    \* those that are programs

VARIABLES
    log,        \* the images committed, in order
    pending,    \* the last one is committed and not yet on offer
    offered,    \* the commit on offer, or 0
    running,    \* what the PS2 runs
    ran,        \* the commits it has run
    told,       \* the PC has been told that its last commit runs
    disturbed   \* something failed

vars == <<log, pending, offered, running, ran, told, disturbed>>

\* All of an image
Whole(img) == [u \in 0 .. SizeOf[img] - 1 |-> img]

Nothing == [commit |-> 0, content |-> << >>]

Init ==
    /\ log = << >> /\ pending = FALSE /\ offered = 0
    /\ running = Nothing /\ ran = {}
    /\ told = FALSE /\ disturbed = FALSE

Commit(img) ==
    /\ offered = 0 /\ ~told
    /\ log' = Append(log, img) /\ pending' = TRUE
    /\ UNCHANGED <<offered, running, ran, told, disturbed>>

Offer ==
    /\ pending
    /\ offered' = Len(log) /\ pending' = FALSE
    /\ UNCHANGED <<log, running, ran, told, disturbed>>

\* The PC resets the channel
Withdraw ==
    /\ offered' = 0
    /\ UNCHANGED <<log, pending, running, ran, told, disturbed>>

Take ==
    /\ offered # 0 /\ running = Nothing
    /\ log[offered] \in Loadable
    /\ offered \notin ran \/ disturbed
    /\ running' = [commit |-> offered, content |-> Whole(log[offered])]
    /\ ran' = ran \union {offered}
    /\ UNCHANGED <<log, pending, offered, told, disturbed>>

\* The offer ends because it was taken ...
Clear ==
    /\ offered # 0 /\ running.commit = offered
    /\ offered' = 0
    /\ UNCHANGED <<log, pending, running, ran, told, disturbed>>

\* ... or cannot be
Reject ==
    /\ offered # 0 /\ running = Nothing
    /\ log[offered] \notin Loadable \/ disturbed
    /\ offered' = 0
    /\ UNCHANGED <<log, pending, running, ran, told, disturbed>>

Return ==
    /\ running # Nothing
    /\ running' = Nothing
    /\ UNCHANGED <<log, pending, offered, ran, told, disturbed>>

Disturb ==
    /\ disturbed' = TRUE
    /\ running' \in {running, Nothing}
    /\ UNCHANGED <<log, pending, offered, ran, told>>

Tell ==
    /\ Len(log) \in ran
    /\ told' = TRUE
    /\ UNCHANGED <<log, pending, offered, running, ran, disturbed>>

\* The PC begins something new
Forget ==
    /\ told' = FALSE
    /\ UNCHANGED <<log, pending, offered, running, ran, disturbed>>

Next ==
    \/ \E img \in Image : Commit(img)
    \/ Offer \/ Withdraw
    \/ Take \/ Clear \/ Reject \/ Return
    \/ Disturb
    \/ Tell \/ Forget

Spec == Init /\ [][Next]_vars
=============================================================================
