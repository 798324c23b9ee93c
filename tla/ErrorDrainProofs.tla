-------------------------- MODULE ErrorDrainProofs --------------------------
(***************************************************************************)
(* What read_all_errors() promises, for every capacity of the queue, every *)
(* loop limit above it and any number of threads.  Nothing about a single  *)
(* drain is inductive, as other threads fill and empty the queue between   *)
(* two of its reads.  LoopInv ties a running drain to the queue: what it   *)
(* has read and what is still queued is what the queue could hold when the *)
(* drain began and what was raised since.                                  *)
(***************************************************************************)
EXTENDS ErrorDrain, ErrorQueueProofs

LoopInv ==
    \A t \in Threads :
        /\ mark[t] <= raised
        /\ pc[t] = "reading" =>
              /\ reads[t] < MaxDrain
              /\ fresh[t] = MaxDrain \/ reads[t] + Len(errors) <= Capacity + fresh[t]

DrainInv ==
    /\ Inv
    /\ DrainTypeOK
    /\ LoopInv
    /\ DrainComplete
    /\ GivesUpOnlyUnderNewErrors

\* An empty queue and idle threads satisfy the invariant.
LEMMA DrainInitInv == DrainInit => DrainInv
<1> SUFFICES ASSUME DrainInit PROVE DrainInv
  OBVIOUS
<1> USE ErrorQueueAssumption, ErrorDrainAssumption
<1>1. Inv /\ TypeOK /\ raised = 0
  BY InitInv DEF DrainInit, Init, Inv
<1>2. DrainTypeOK
  BY <1>1 DEF DrainInit, DrainTypeOK
<1>3. LoopInv
  BY <1>1 DEF DrainInit, LoopInv
<1>4. DrainComplete /\ GivesUpOnlyUnderNewErrors
  BY DEF DrainInit, DrainComplete, GivesUpOnlyUnderNewErrors
<1> QED
  BY <1>1, <1>2, <1>3, <1>4 DEF DrainInv

\* What the proofs below use of the types.
LEMMA DrainTypes ==
  ASSUME DrainInv
  PROVE  /\ Len(errors) \in Nat /\ Len(errors) <= Capacity
         /\ raised \in Nat /\ delivered.stamp \in Nat
         /\ \A t \in Threads : /\ reads[t] \in 0 .. MaxDrain
                               /\ mark[t] \in Nat
                               /\ fresh[t] \in 0 .. MaxDrain
  BY LenProperties DEF DrainInv, DrainTypeOK, TypeOK, Entry, Nothing

\* A rejected command adds at most one entry, and one to what each running
\* drain counts.
LEMMA RejectedDrainInv ==
  ASSUME DrainInv, NEW code \in Codes, RejectedCommand(code)
  PROVE  DrainInv'
<1> USE ErrorQueueAssumption, ErrorDrainAssumption, DrainTypes
<1>1. Inv' /\ TypeOK'
  BY PushInv DEF DrainInv, RejectedCommand, Inv
<1>2. /\ raised' = raised + 1 /\ delivered' = delivered
      /\ UNCHANGED <<pc, reads, mark>>
      /\ Len(errors') \in Nat /\ Len(errors') <= Len(errors) + 1
  <2>1. errors \in Seq(Entry)
    BY DEF DrainInv, DrainTypeOK, TypeOK
  <2>2. [code |-> code, stamp |-> raised + 1] \in Entry
    BY DEF Entry
  <2>3. \A e : Len([errors EXCEPT ![Len(errors)] = e]) = Len(errors)
    BY <2>1
  <2> QED
    BY <2>1, <2>2, <2>3, AppendProperties DEF RejectedCommand, push_error
<1>3. \A t \in Threads :
         fresh'[t] = IF pc[t] = "reading" /\ fresh[t] < MaxDrain
                     THEN fresh[t] + 1 ELSE fresh[t]
  BY DEF RejectedCommand
<1>4. fresh' \in [Threads -> 0 .. MaxDrain]
  BY DEF RejectedCommand
<1>5. DrainTypeOK'
  BY <1>1, <1>2, <1>4 DEF DrainInv, DrainTypeOK
<1>6. LoopInv'
  <2> SUFFICES ASSUME NEW t \in Threads
               PROVE  /\ mark[t] <= raised + 1
                      /\ pc[t] = "reading" =>
                            /\ reads[t] < MaxDrain
                            /\ \/ fresh'[t] = MaxDrain
                               \/ reads[t] + Len(errors') <= Capacity + fresh'[t]
    BY <1>2 DEF LoopInv
  <2>1. /\ mark[t] <= raised
        /\ pc[t] = "reading" =>
              /\ reads[t] < MaxDrain
              /\ fresh[t] = MaxDrain \/ reads[t] + Len(errors) <= Capacity + fresh[t]
    BY DEF DrainInv, LoopInv
  <2>2. /\ Len(errors) \in Nat /\ Len(errors') \in Nat /\ raised \in Nat
        /\ mark[t] \in Nat /\ reads[t] \in Nat /\ fresh[t] \in 0 .. MaxDrain
    BY <1>2, DrainTypes
  <2>3. CASE pc[t] = "reading" /\ fresh[t] < MaxDrain
    <3>1. fresh'[t] = fresh[t] + 1
      BY <1>3, <2>3
    <3>2. reads[t] + Len(errors) <= Capacity + fresh[t]
      BY <2>1, <2>2, <2>3
    <3>3. reads[t] + Len(errors') <= Capacity + fresh'[t]
      BY <1>2, <2>2, <3>1, <3>2
    <3> QED
      BY <2>1, <2>2, <2>3, <3>3
  <2>4. CASE ~(pc[t] = "reading" /\ fresh[t] < MaxDrain)
    <3>1. fresh'[t] = fresh[t]
      BY <1>3, <2>4
    <3> QED
      BY <2>1, <2>2, <2>4, <3>1
  <2> QED
    BY <2>3, <2>4
<1>7. DrainComplete'
  BY <1>2 DEF DrainInv, DrainComplete
<1>8. GivesUpOnlyUnderNewErrors'
  BY <1>2, <1>3 DEF DrainInv, GivesUpOnlyUnderNewErrors
<1> QED
  BY <1>1, <1>5, <1>6, <1>7, <1>8 DEF DrainInv

\* A drain begins with a count of its own.
LEMMA BeginDrainInv ==
  ASSUME DrainInv, NEW t \in Threads, BeginDrain(t)
  PROVE  DrainInv'
<1> USE ErrorQueueAssumption, ErrorDrainAssumption, DrainTypes DEF BeginDrain, errorQueueVars
<1>1. Inv'
  BY DEF DrainInv, Inv, TypeOK, NoSilentLoss, EsrOrOverflow, Before, Newest
<1>2. DrainTypeOK'
  BY DEF DrainInv, DrainTypeOK, TypeOK
<1>3. LoopInv'
  BY DEF DrainInv, LoopInv, DrainTypeOK
<1>4. DrainComplete'
  BY DEF DrainInv, DrainComplete, DrainTypeOK
<1>5. GivesUpOnlyUnderNewErrors'
  BY DEF DrainInv, GivesUpOnlyUnderNewErrors, DrainTypeOK
<1> QED
  BY <1>1, <1>2, <1>3, <1>4, <1>5 DEF DrainInv

\* Taking the oldest entry moves the last one delivered on.
LEMMA SystErrMoves ==
  ASSUME Inv, SystErr
  PROVE  /\ Len(errors') = Len(errors) - 1
         /\ raised' = raised
         /\ delivered.stamp < delivered'.stamp
         /\ delivered'.stamp \in Nat
<1>1. errors \in Seq(Entry) /\ errors # <<>>
  BY DEF Inv, TypeOK, SystErr
<1>2. Len(errors) \in Nat /\ Len(errors) >= 1 /\ errors[1] \in Entry
  BY <1>1, EmptySeq, LenProperties, ElementOfSeq
<1>3. Before(1) < errors[1].stamp
  BY <1>2 DEF Inv, NoSilentLoss
<1>4. delivered' = errors[1] /\ raised' = raised /\ Len(errors') = Len(errors) - 1
  BY <1>1, HeadTailProperties DEF SystErr
<1> QED
  BY <1>2, <1>3, <1>4 DEF Before, Entry

\* One round of the loop: it finds the queue empty, or takes an entry.
LEMMA ReadDrainInv ==
  ASSUME DrainInv, NEW t \in Threads, ReadNextError(t)
  PROVE  DrainInv'
<1> USE ErrorQueueAssumption, ErrorDrainAssumption, DrainTypes
<1>0. /\ pc[t] = "reading" /\ UNCHANGED <<mark, fresh>>
      /\ reads[t] < MaxDrain
      /\ pc \in [Threads -> {"idle", "reading", "done", "protocol_error"}]
      /\ reads \in [Threads -> 0 .. MaxDrain]
  BY DEF ReadNextError, DrainInv, LoopInv, DrainTypeOK
<1>1. CASE /\ errors = <<>> /\ pc' = [pc EXCEPT ![t] = "done"]
           /\ UNCHANGED <<errorQueueVars, reads>>
  <2> USE <1>1 DEF errorQueueVars
  <2>1. Inv'
    BY DEF DrainInv, Inv, TypeOK, NoSilentLoss, EsrOrOverflow, Before, Newest
  <2>2. DrainTypeOK'
    BY <1>0 DEF DrainInv, DrainTypeOK, TypeOK
  <2>3. LoopInv'
    BY <1>0 DEF DrainInv, LoopInv
  <2>4. delivered.stamp = raised
    BY DEF DrainInv, Inv, NoSilentLoss, Newest
  <2>5. DrainComplete'
    BY <1>0, <2>4 DEF DrainInv, DrainComplete, LoopInv
  <2>6. GivesUpOnlyUnderNewErrors'
    BY <1>0 DEF DrainInv, GivesUpOnlyUnderNewErrors
  <2> QED
    BY <2>1, <2>2, <2>3, <2>5, <2>6 DEF DrainInv
<1>2. CASE /\ SystErr
           /\ reads' = [reads EXCEPT ![t] = @ + 1]
           /\ pc' = [pc EXCEPT ![t] = IF reads[t] + 1 = MaxDrain
                                      THEN "protocol_error" ELSE "reading"]
  <2>1. Inv' /\ TypeOK'
    BY <1>2, SystErrInv DEF DrainInv, Inv
  <2>2. /\ Len(errors') = Len(errors) - 1 /\ raised' = raised
        /\ delivered.stamp < delivered'.stamp /\ delivered'.stamp \in Nat
    BY <1>2, SystErrMoves DEF DrainInv
  <2>3. DrainTypeOK'
    BY <1>0, <1>2, <2>1 DEF DrainInv, DrainTypeOK
  <2>4. LoopInv'
    BY <1>0, <1>2, <2>2 DEF DrainInv, LoopInv
  <2>5. DrainComplete'
    BY <1>0, <1>2, <2>2 DEF DrainInv, DrainComplete
  <2>6. GivesUpOnlyUnderNewErrors'
    BY <1>0, <1>2, <2>2 DEF DrainInv, GivesUpOnlyUnderNewErrors, LoopInv
  <2> QED
    BY <2>1, <2>3, <2>4, <2>5, <2>6 DEF DrainInv
<1> QED
  BY <1>1, <1>2 DEF ReadNextError

\* A drain ends and its thread goes on.
LEMMA EndDrainInv ==
  ASSUME DrainInv, NEW t \in Threads, EndDrain(t)
  PROVE  DrainInv'
<1> USE DEF EndDrain, errorQueueVars
<1>1. Inv'
  BY DEF DrainInv, Inv, TypeOK, NoSilentLoss, EsrOrOverflow, Before, Newest
<1>2. DrainTypeOK'
  BY DEF DrainInv, DrainTypeOK, TypeOK
<1>3. LoopInv' /\ DrainComplete' /\ GivesUpOnlyUnderNewErrors'
  BY DEF DrainInv, DrainTypeOK, LoopInv, DrainComplete, GivesUpOnlyUnderNewErrors
<1> QED
  BY <1>1, <1>2, <1>3 DEF DrainInv

\* SYST:ERR:ALL? leaves nothing that a drain could still owe.
LEMMA AtOnceInv ==
  ASSUME DrainInv, NEW t \in Threads, ReadErrorsAtOnce(t)
  PROVE  DrainInv'
<1> USE ErrorQueueAssumption, ErrorDrainAssumption, DrainTypes DEF ReadErrorsAtOnce, drainVars
<1>1. Inv' /\ TypeOK'
  BY SystErrAllInv DEF DrainInv, Inv
<1>2. Len(errors') = 0 /\ raised' = raised /\ delivered'.stamp = raised
  BY DEF SystErrAll, DrainInv, Inv, NoSilentLoss, Newest
<1>3. DrainTypeOK'
  BY <1>1 DEF DrainInv, DrainTypeOK
<1>4. LoopInv'
  BY <1>2 DEF DrainInv, LoopInv
<1>5. DrainComplete'
  BY <1>2 DEF DrainInv, LoopInv, DrainComplete
<1>6. GivesUpOnlyUnderNewErrors'
  BY DEF DrainInv, GivesUpOnlyUnderNewErrors
<1> QED
  BY <1>1, <1>3, <1>4, <1>5, <1>6 DEF DrainInv

\* *CLS starts the history over; no drain owes anything from before it.
LEMMA ClearDrainInv ==
  ASSUME DrainInv, NEW t \in Threads, ClearQueue(t)
  PROVE  DrainInv'
<1> USE ErrorQueueAssumption, ErrorDrainAssumption, DrainTypes DEF ClearQueue
<1>1. Inv' /\ TypeOK'
  BY ClearInv DEF Inv
<1>2. /\ Len(errors') = 0 /\ raised' = 0 /\ delivered'.stamp = 0
      /\ \A u \in Threads : mark'[u] = 0
  BY DEF clear_status, Nothing
<1>3. DrainTypeOK'
  BY <1>1 DEF DrainInv, DrainTypeOK
<1>4. LoopInv'
  BY <1>2 DEF DrainInv, LoopInv
<1>5. DrainComplete' /\ GivesUpOnlyUnderNewErrors'
  BY <1>2 DEF DrainInv, DrainComplete, GivesUpOnlyUnderNewErrors
<1> QED
  BY <1>1, <1>3, <1>4, <1>5 DEF DrainInv

\* *OPC, *ESR? and *RST leave the queue alone.
LEMMA RegisterDrainInv ==
  ASSUME DrainInv, RegisterCommand
  PROVE  DrainInv'
<1>1. Inv' /\ TypeOK'
  BY RegisterInv DEF DrainInv, RegisterCommand, Inv
<1>2. UNCHANGED <<errors, delivered, raised, drainVars>>
  BY DEF RegisterCommand, OperationCompleteCommand, EventStatusQuery, reset
<1>3. DrainTypeOK'
  BY <1>1, <1>2 DEF DrainInv, DrainTypeOK, drainVars
<1>4. LoopInv' /\ DrainComplete' /\ GivesUpOnlyUnderNewErrors'
  BY <1>2 DEF DrainInv, LoopInv, DrainComplete, GivesUpOnlyUnderNewErrors, drainVars
<1> QED
  BY <1>1, <1>3, <1>4 DEF DrainInv

\* Every step of every thread keeps the inductive invariant.
LEMMA DrainNextInv == DrainInv /\ [DrainNext]_allVars => DrainInv'
<1> SUFFICES ASSUME DrainInv, [DrainNext]_allVars PROVE DrainInv'
  OBVIOUS
<1>1. CASE \E code \in Codes : RejectedCommand(code)
  BY <1>1, RejectedDrainInv
<1>2. CASE RegisterCommand
  BY <1>2, RegisterDrainInv
<1>3. ASSUME NEW t \in Threads, BeginDrain(t) \/ ReadNextError(t) \/ EndDrain(t)
      PROVE  DrainInv'
  BY <1>3, BeginDrainInv, ReadDrainInv, EndDrainInv
<1>4. ASSUME NEW t \in Threads, ReadErrorsAtOnce(t) \/ ClearQueue(t)
      PROVE  DrainInv'
  BY <1>4, AtOnceInv, ClearDrainInv
<1>5. CASE UNCHANGED allVars
  BY <1>5 DEF allVars, errorQueueVars, drainVars, DrainInv, Inv, TypeOK, NoSilentLoss,
              EsrOrOverflow, Before, Newest, DrainTypeOK, LoopInv, DrainComplete,
              GivesUpOnlyUnderNewErrors
<1> QED
  BY <1>1, <1>2, <1>3, <1>4, <1>5 DEF DrainNext

\* The queue keeps its bound and the loop its limit, with any number of threads
\* in read_all_errors() at once.
THEOREM DrainTypeCorrect == DrainSpec => []DrainTypeOK
<1>1. DrainInv => DrainTypeOK
  BY DEF DrainInv
<1> QED
  BY <1>1, DrainInitInv, DrainNextInv, PTL DEF DrainSpec

\* When read_all_errors() returns, every error raised before it was called has
\* left the queue, for any number of threads that drain, clear and refill it.
THEOREM DrainLeavesNothing == DrainSpec => []DrainComplete
<1>1. DrainInv => DrainComplete
  BY DEF DrainInv
<1> QED
  BY <1>1, DrainInitInv, DrainNextInv, PTL DEF DrainSpec

\* read_all_errors() throws its ProtocolError only when at least
\* kMaxErrorQueueDrain less the capacity new errors came in while it ran: a
\* full queue alone never makes it give up.
THEOREM FullQueueIsDrained == DrainSpec => []GivesUpOnlyUnderNewErrors
<1>1. DrainInv => GivesUpOnlyUnderNewErrors
  BY DEF DrainInv
<1> QED
  BY <1>1, DrainInitInv, DrainNextInv, PTL DEF DrainSpec

\* With any number of threads in read_all_errors() at once the queue behaves as
\* ErrorQueue says, so what is proved of it, TakenInOrder included, holds under
\* every interleaving of their reads.
THEOREM DrainKeepsQueue == DrainSpec => Spec
<1>1. DrainInit => Init
  BY DEF DrainInit
<1>2. [DrainNext]_allVars => [Next]_errorQueueVars
  <2> SUFFICES ASSUME [DrainNext]_allVars PROVE [Next]_errorQueueVars
    OBVIOUS
  <2>1. CASE \E code \in Codes : RejectedCommand(code)
    BY <2>1 DEF RejectedCommand, Next
  <2>2. CASE RegisterCommand
    BY <2>2 DEF RegisterCommand, Next
  <2>3. ASSUME NEW t \in Threads,
               \/ BeginDrain(t) \/ ReadNextError(t) \/ EndDrain(t)
               \/ ReadErrorsAtOnce(t) \/ ClearQueue(t)
        PROVE  [Next]_errorQueueVars
    BY <2>3 DEF BeginDrain, ReadNextError, EndDrain, ReadErrorsAtOnce, ClearQueue, Next
  <2>4. CASE UNCHANGED allVars
    BY <2>4 DEF allVars
  <2> QED
    BY <2>1, <2>2, <2>3, <2>4 DEF DrainNext
<1> QED
  BY <1>1, <1>2, PTL DEF DrainSpec, Spec
=============================================================================
