---------------------------- MODULE MCErrorDrain ----------------------------
(* Two threads, a queue of two entries, a loop limit of three reads and    *)
(* four errors between two *CLS: the queue overflows, is read in part and  *)
(* overflows again, and a drain meets its limit.                           *)
EXTENDS ErrorDrain
=============================================================================
