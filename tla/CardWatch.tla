----------------------------- MODULE CardWatch -----------------------------
(***************************************************************************)
(* "sd2psx_cli.py watch" (cmd_watch): it looks at the time of a file twice  *)
(* a second and, when that is new, has write_file write the file to the     *)
(* card, while somebody goes on editing it.                                *)
(*                                                                         *)
(* The versions of one file are numbered; the same call writes another      *)
(* range when its length changes, so that any of the ranges may come.      *)
(***************************************************************************)
EXTENDS CardTransfer

VARIABLES
    file,       \* the version on the PC; 0 while there is no file
    seen,       \* the version whose time is in "seen", 0 for none
    data,       \* the version that write_file has read
    wpc         \* "list", "open" or "push"

watch   == <<file, seen, data, wpc>>
allVars == <<vars, watch>>

WatchInit == Init /\ file = 0 /\ seen = 0 /\ data = 0 /\ wpc = "list"

\* The file is saved again
Edit ==
    /\ file < MaxWrites /\ file' = file + 1
    /\ UNCHANGED <<vars, seen, data, wpc>>

\* getmtime differs from what is recorded, and is recorded at once
Notice ==
    /\ wpc = "list" /\ seen # file
    /\ seen' = file /\ wpc' = "open"
    /\ UNCHANGED <<vars, file, data>>

\* write_file reads the file, as it is by now, and write_card begins
Open ==
    /\ wpc = "open"
    /\ \E w \in Write : BeginWrite(w)
    /\ data' = file /\ wpc' = "push"
    /\ UNCHANGED <<file, seen>>

\* Mutant: the time is taken when the file has been written
RecordedAfter == file

\* The call leaves it as it is
Recorded == seen

\* The call has returned, or was refused: "Busy, skipping."
Pushed ==
    /\ wpc = "push" /\ host.pc = "idle" /\ host.said # "none"
    /\ wpc' = "list" /\ seen' = Recorded
    /\ UNCHANGED <<vars, file, data>>

WatchStep == Notice \/ Open \/ Pushed

WatchNext ==
    \/ Edit \/ WatchStep
    \/ /\ \/ WriteStep
          \/ Read /\ wpc = "list"
          \/ ConsoleBegin \/ ConsoleWrite \/ ConsoleEnd
          \/ \E s \in Sector : Save(s)
       /\ UNCHANGED watch

WatchSpec == WatchInit /\ [][WatchNext]_allVars

\* The loop goes on, as the firmware does
WatchFairSpec ==
    /\ WatchSpec
    /\ WF_allVars(WatchStep)
    /\ WF_allVars(WriteStep /\ UNCHANGED watch)
    /\ \A s \in 0 .. CardSize : WF_allVars(Save(s) /\ UNCHANGED watch)
-----------------------------------------------------------------------------
\* No version of the file is overlooked, whenever it is saved: it, or a later
\* one, is given to write_card, and the watcher does not come to rest before
\* (sd2psx_cli.py:85-91).  A version refused with BUSY counts as given: it is
\* not tried again.
WatchKeepsUp ==
    \A v \in 1 .. MaxWrites :
        file = v ~> file > v \/ (data = v /\ host.said # "none")
=============================================================================
