----------------------------- MODULE ErrorQueue -----------------------------
(***************************************************************************)
(* The instrument's error queue and its standard event status register, as *)
(* NormaSimulator keeps them: push_error() queues what a rejected command  *)
(* raises, SYST:ERR? and SYST:ERR:ALL? take errors out, *CLS and *RST      *)
(* clear different parts, *ESR? reads and clears the register.             *)
(*                                                                         *)
(* An error is a code; its text is left out.  Each entry carries the       *)
(* number of the push that wrote it, a history value that the program does *)
(* not have and that no guard reads: it tells two equal codes apart and    *)
(* shows what was lost.                                                    *)
(***************************************************************************)
EXTENDS Naturals, Sequences

CONSTANTS Codes,          \* the error codes a command can be rejected with
          NoError,        \* the 0 of 0,"No error"
          QueueOverflow,  \* the -350 of -350,"Queue overflow"
          Capacity,       \* 32 in the code
          MaxErrors       \* bound on the errors raised between two *CLS

ASSUME ErrorQueueAssumption ==
    /\ Capacity \in Nat \ {0}
    /\ MaxErrors \in Nat
    /\ NoError \notin Codes
    /\ QueueOverflow \notin Codes
    /\ NoError # QueueOverflow

OperationComplete == 0    \* bit numbers of the event status register
CommandError == 5

VARIABLES errors,        \* state_.errors, oldest first
          event_status,  \* state_.event_status, as the set of its 1 bits
          delivered,     \* history: the last entry a client took since *CLS
          raised,        \* history: the errors raised since *CLS
          esr_mark       \* history: raised when the ESR was last cleared

errorQueueVars == <<errors, event_status, delivered, raised, esr_mark>>

Entry == [code : Codes \union {QueueOverflow}, stamp : Nat]
Nothing == [code |-> NoError, stamp |-> 0]

Init ==
    /\ errors = <<>>
    /\ event_status = {}
    /\ delivered = Nothing
    /\ raised = 0
    /\ esr_mark = 0

-----------------------------------------------------------------------------
(* A command is rejected.                                                  *)

\* Mutant: the bound is checked after the push.
push_error_late_bound(code) ==
    /\ raised < MaxErrors
    /\ raised' = raised + 1
    /\ IF Len(errors) > Capacity
       THEN /\ errors' = [errors EXCEPT ![Len(errors)] =
                             [code |-> QueueOverflow, stamp |-> raised + 1]]
            /\ UNCHANGED event_status
       ELSE /\ errors' = Append(errors, [code |-> code, stamp |-> raised + 1])
            /\ event_status' = event_status \union {CommandError}
    /\ UNCHANGED <<delivered, esr_mark>>

\* A full queue has its newest entry overwritten by the overflow error, and
\* the early return leaves the event status register alone.
push_error(code) ==
    /\ raised < MaxErrors
    /\ raised' = raised + 1
    /\ IF Len(errors) >= Capacity
       THEN /\ errors' = [errors EXCEPT ![Len(errors)] =
                             [code |-> QueueOverflow, stamp |-> raised + 1]]
            /\ UNCHANGED event_status
       ELSE /\ errors' = Append(errors, [code |-> code, stamp |-> raised + 1])
            /\ event_status' = event_status \union {CommandError}
    /\ UNCHANGED <<delivered, esr_mark>>

-----------------------------------------------------------------------------
(* Reading the queue.                                                      *)

\* Mutant: the newest entry is taken, not the oldest.
SystErr_newest ==
    /\ errors # <<>>
    /\ delivered' = errors[Len(errors)]
    /\ errors' = SubSeq(errors, 1, Len(errors) - 1)
    /\ UNCHANGED <<event_status, raised, esr_mark>>

\* SYST:ERR? takes the oldest entry; it answers 0,"No error" and changes
\* nothing when there is none.
SystErr ==
    /\ errors # <<>>
    /\ delivered' = Head(errors)
    /\ errors' = Tail(errors)
    /\ UNCHANGED <<event_status, raised, esr_mark>>

\* SYST:ERR:ALL? takes every entry, oldest first, in one response.
SystErrAll ==
    /\ errors # <<>>
    /\ delivered' = errors[Len(errors)]
    /\ errors' = <<>>
    /\ UNCHANGED <<event_status, raised, esr_mark>>

-----------------------------------------------------------------------------
(* The event status register.                                              *)

\* Mutant: *OPC stores its bit instead of adding it.
OperationCompleteCommand_stores ==
    /\ event_status' = {OperationComplete}
    /\ UNCHANGED <<errors, delivered, raised, esr_mark>>

\* *OPC: everything is synchronous, so the bit is set at once.
OperationCompleteCommand ==
    /\ event_status' = event_status \union {OperationComplete}
    /\ UNCHANGED <<errors, delivered, raised, esr_mark>>

\* *ESR? answers with the register and clears it.
EventStatusQuery ==
    /\ event_status' = {}
    /\ esr_mark' = raised
    /\ UNCHANGED <<errors, delivered, raised>>

\* *CLS.  With the queue empty a new history begins.
clear_status ==
    /\ errors' = <<>>
    /\ event_status' = {}
    /\ delivered' = Nothing
    /\ raised' = 0
    /\ esr_mark' = 0

\* Mutant: *RST builds a fresh state and forgets to carry the queue over.
reset_forgets ==
    /\ errors' = <<>>
    /\ event_status' = {}
    /\ esr_mark' = raised
    /\ UNCHANGED <<delivered, raised>>

\* *RST replaces the whole state except the error queue.
reset ==
    /\ event_status' = {}
    /\ esr_mark' = raised
    /\ UNCHANGED <<errors, delivered, raised>>

Next ==
    \/ \E code \in Codes : push_error(code)
    \/ SystErr
    \/ SystErrAll
    \/ OperationCompleteCommand
    \/ EventStatusQuery
    \/ clear_status
    \/ reset

Spec == Init /\ [][Next]_errorQueueVars

-----------------------------------------------------------------------------
(* Properties.                                                             *)

\* Every variable keeps its type, and the queue never holds more entries
\* than push_error() allows.
TypeOK ==
    /\ errors \in Seq(Entry)
    /\ Len(errors) <= Capacity
    /\ event_status \subseteq {OperationComplete, CommandError}
    /\ delivered \in Entry \union {Nothing}
    /\ raised \in Nat
    /\ esr_mark \in 0 .. raised

\* The number of the push before the one entry i stands for.
Before(i) == IF i = 1 THEN delivered.stamp ELSE errors[i - 1].stamp

\* The entry written last, whether it is still queued or was taken.
Newest == IF errors = <<>> THEN delivered ELSE errors[Len(errors)]

\* A client that reads the queue to its end learns of every error raised
\* since *CLS: entries come out in the order they were raised, each one
\* follows the one before it without a gap, and where push_error() lost
\* entries the overflow error stands in their place.
NoSilentLoss ==
    /\ \A i \in 1 .. Len(errors) :
          /\ Before(i) < errors[i].stamp
          /\ errors[i].code # QueueOverflow => errors[i].stamp = Before(i) + 1
    /\ Newest.stamp = raised

\* When an error was raised since the ESR was last read or cleared and its
\* command error bit is down all the same, the queue was full: the newest
\* entry is the overflow error, so the error is not lost on a client that
\* watches only one of the two.
EsrOrOverflow ==
    raised > esr_mark /\ CommandError \notin event_status
        => Newest.code = QueueOverflow
=============================================================================
