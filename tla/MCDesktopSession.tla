-------------------------- MODULE MCDesktopSession --------------------------
(***************************************************************************)
(* DesktopSession for TLC: two reads of the poll timer, so that ticks can  *)
(* pile up, and enough clicks to connect, poll, read, send and disconnect. *)
(***************************************************************************)
EXTENDS DesktopSession
=============================================================================
