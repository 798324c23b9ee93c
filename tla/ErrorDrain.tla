----------------------------- MODULE ErrorDrain -----------------------------
(***************************************************************************)
(* ScpiClient::read_all_errors() on top of the error queue.  Each SYST:ERR?*)
(* is one query under the client's mutex, but the loop holds no lock from  *)
(* one to the next: other threads reject commands, drain the queue with    *)
(* SYST:ERR? or SYST:ERR:ALL?, or clear it with *CLS, between two reads of *)
(* one drain.                                                              *)
(***************************************************************************)
EXTENDS ErrorQueue

CONSTANTS Threads,
          MaxDrain    \* kMaxErrorQueueDrain, 64 in the code

\* "The queue is finite": the loop reads more often than the queue is long.
ASSUME ErrorDrainAssumption == MaxDrain \in Nat /\ MaxDrain > Capacity

VARIABLES pc,     \* where each thread is in read_all_errors()
          reads,  \* entries the running or last drain of a thread has read
          mark,   \* history: raised when the drain began
          fresh   \* history: errors raised while the drain ran

drainVars == <<pc, reads, mark, fresh>>
allVars == <<errorQueueVars, drainVars>>

DrainInit ==
    /\ Init
    /\ pc = [t \in Threads |-> "idle"]
    /\ reads = [t \in Threads |-> 0]
    /\ mark = [t \in Threads |-> 0]
    /\ fresh = [t \in Threads |-> 0]

\* Some command of some thread is rejected.
RejectedCommand(code) ==
    /\ push_error(code)
    /\ fresh' = [t \in Threads |-> IF pc[t] = "reading" /\ fresh[t] < MaxDrain
                                   THEN fresh[t] + 1 ELSE fresh[t]]
    /\ UNCHANGED <<pc, reads, mark>>

BeginDrain(t) ==
    /\ pc[t] = "idle"
    /\ pc' = [pc EXCEPT ![t] = "reading"]
    /\ reads' = [reads EXCEPT ![t] = 0]
    /\ mark' = [mark EXCEPT ![t] = raised]
    /\ fresh' = [fresh EXCEPT ![t] = 0]
    /\ UNCHANGED errorQueueVars

\* Mutant: the loop ends one read early.
ReadNextError_early(t) ==
    /\ pc[t] = "reading"
    /\ \/ /\ errors = <<>>
          /\ pc' = [pc EXCEPT ![t] = "done"]
          /\ UNCHANGED <<errorQueueVars, reads>>
       \/ /\ SystErr
          /\ reads' = [reads EXCEPT ![t] = @ + 1]
          /\ pc' = [pc EXCEPT ![t] = IF reads[t] + 1 = MaxDrain - 1
                                     THEN "protocol_error" ELSE "reading"]
    /\ UNCHANGED <<mark, fresh>>

\* Mutant: the loop has no limit.
ReadNextError_unlimited(t) ==
    /\ pc[t] = "reading"
    /\ \/ /\ errors = <<>>
          /\ pc' = [pc EXCEPT ![t] = "done"]
          /\ UNCHANGED errorQueueVars
       \/ /\ SystErr
          /\ UNCHANGED pc
    /\ UNCHANGED <<reads, mark, fresh>>

\* One round of the loop: code 0 ends it well, kMaxErrorQueueDrain entries
\* end it with a ProtocolError.
ReadNextError(t) ==
    /\ pc[t] = "reading"
    /\ \/ /\ errors = <<>>
          /\ pc' = [pc EXCEPT ![t] = "done"]
          /\ UNCHANGED <<errorQueueVars, reads>>
       \/ /\ SystErr
          /\ reads' = [reads EXCEPT ![t] = @ + 1]
          /\ pc' = [pc EXCEPT ![t] = IF reads[t] + 1 = MaxDrain
                                     THEN "protocol_error" ELSE "reading"]
    /\ UNCHANGED <<mark, fresh>>

\* read_all_errors() has returned or thrown; the thread goes on.
EndDrain(t) ==
    /\ pc[t] \in {"done", "protocol_error"}
    /\ pc' = [pc EXCEPT ![t] = "idle"]
    /\ UNCHANGED <<errorQueueVars, reads, mark, fresh>>

\* read_errors_at_once(): one query takes everything.
ReadErrorsAtOnce(t) ==
    /\ pc[t] = "idle"
    /\ SystErrAll
    /\ UNCHANGED drainVars

\* clear_status(), as prepare() begins with.  What was queued is gone, so no
\* drain owes it to anyone.
ClearQueue(t) ==
    /\ pc[t] = "idle"
    /\ clear_status
    /\ mark' = [u \in Threads |-> 0]
    /\ UNCHANGED <<pc, reads, fresh>>

\* *OPC, *ESR? and *RST leave the queue to the drains.
RegisterCommand ==
    /\ OperationCompleteCommand \/ EventStatusQuery \/ reset
    /\ UNCHANGED drainVars

DrainNext ==
    \/ \E code \in Codes : RejectedCommand(code)
    \/ RegisterCommand
    \/ \E t \in Threads :
          \/ BeginDrain(t)
          \/ ReadNextError(t)
          \/ EndDrain(t)
          \/ ReadErrorsAtOnce(t)
          \/ ClearQueue(t)

\* A thread inside the loop keeps running it: nothing in it waits for another
\* thread except the mutex of a single query.
DrainSpec ==
    /\ DrainInit
    /\ [][DrainNext]_allVars
    /\ \A t \in Threads : WF_allVars(ReadNextError(t))

-----------------------------------------------------------------------------
(* Properties.                                                             *)

\* Every variable keeps its type; the loop never reads more than its limit and
\* the queue below it never grows past its capacity.
DrainTypeOK ==
    /\ TypeOK
    /\ pc \in [Threads -> {"idle", "reading", "done", "protocol_error"}]
    /\ reads \in [Threads -> 0 .. MaxDrain]
    /\ mark \in [Threads -> Nat]
    /\ fresh \in [Threads -> 0 .. MaxDrain]

\* When read_all_errors() returns normally, every error raised before it was
\* called has left the queue, whoever it went to.
DrainComplete ==
    \A t \in Threads : pc[t] = "done" => delivered.stamp >= mark[t]

\* read_all_errors() gives up only when errors kept arriving while it ran,
\* never because of what the queue held when it was called.
GivesUpOnlyUnderNewErrors ==
    \A t \in Threads :
        pc[t] = "protocol_error" => fresh[t] >= MaxDrain - Capacity

\* read_all_errors() always returns or throws, however many errors the other
\* threads cause.
DrainEnds ==
    \A t \in Threads : pc[t] = "reading" ~> pc[t] # "reading"
=============================================================================
