----------------------------- MODULE MCLauncher -----------------------------
(***************************************************************************)
(* The mailbox with its launcher, as an implementation of the loader.      *)
(***************************************************************************)
EXTENDS Launcher, DevMailboxLoader, MCDevMailbox
=============================================================================
