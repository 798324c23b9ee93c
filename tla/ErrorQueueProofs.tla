-------------------------- MODULE ErrorQueueProofs --------------------------
(***************************************************************************)
(* What the error queue promises, for every set of codes and every         *)
(* capacity.  The three invariants together are inductive: the loss        *)
(* argument needs the bound on the queue (an overwritten last entry        *)
(* exists), and the argument about the event status register needs to know *)
(* that the newest entry stands for the last error raised.  That entries   *)
(* leave in order needs Ordered besides, kept up in the second half.       *)
(***************************************************************************)
EXTENDS ErrorQueue, SequenceTheorems, TLAPS

Inv == TypeOK /\ NoSilentLoss /\ EsrOrOverflow

\* The first state satisfies the inductive invariant.
LEMMA InitInv == Init => Inv
<1> SUFFICES ASSUME Init PROVE Inv
  OBVIOUS
<1>1. errors \in Seq(Entry) /\ Len(errors) = 0
  BY EmptySeq DEF Init
<1>2. TypeOK
  BY <1>1, ErrorQueueAssumption DEF Init, TypeOK, Nothing
<1>3. NoSilentLoss
  BY <1>1 DEF Init, NoSilentLoss, Newest, Nothing
<1>4. EsrOrOverflow
  BY DEF Init, EsrOrOverflow
<1> QED
  BY <1>2, <1>3, <1>4 DEF Inv

\* A rejected command, queued or overwriting the newest entry.
LEMMA PushInv ==
  ASSUME Inv, NEW code \in Codes, push_error(code)
  PROVE  Inv'
<1> USE ErrorQueueAssumption
<1> DEFINE new == [code |-> code, stamp |-> raised + 1]
           over == [code |-> QueueOverflow, stamp |-> raised + 1]
<1>a. /\ errors \in Seq(Entry) /\ Len(errors) <= Capacity
      /\ raised \in Nat /\ esr_mark \in 0 .. raised
      /\ event_status \subseteq {OperationComplete, CommandError}
      /\ delivered \in Entry \union {Nothing}
  BY DEF Inv, TypeOK
<1>b. raised' = raised + 1 /\ delivered' = delivered /\ esr_mark' = esr_mark
  BY DEF push_error
<1>c. new \in Entry /\ over \in Entry /\ new.stamp = raised + 1
      /\ over.stamp = raised + 1 /\ over.code = QueueOverflow
  BY <1>a DEF Entry
<1>d. Len(errors) \in Nat /\ \A i \in 1 .. Len(errors) : errors[i] \in Entry
  BY <1>a, LenProperties, ElementOfSeq
<1>e. \A e \in Entry \union {Nothing} : e.stamp \in Nat
  BY DEF Entry, Nothing
<1>0. /\ \A i \in 1 .. Len(errors) : errors[i].stamp \in Nat
      /\ delivered.stamp \in Nat
  BY <1>a, <1>d, <1>e
<1> HIDE DEF new, over
<1>1. CASE Len(errors) >= Capacity
  <2>1. /\ errors' = [errors EXCEPT ![Len(errors)] = over]
        /\ event_status' = event_status
    BY <1>1 DEF push_error, over
  <2>2. /\ errors' \in Seq(Entry)
        /\ Len(errors') = Len(errors)
        /\ Len(errors) >= 1
        /\ errors'[Len(errors)] = over
        /\ \A i \in 1 .. Len(errors) - 1 : errors'[i] = errors[i]
    BY <2>1, <1>a, <1>b, <1>c, <1>d, <1>0, <1>1
  <2>3. TypeOK'
    <3>1. raised' \in Nat /\ esr_mark' \in 0 .. raised'
      BY <1>a, <1>b
    <3> QED
      BY <2>1, <2>2, <3>1, <1>a, <1>b DEF TypeOK
  <2>4. Newest' = over
    BY <2>2 DEF Newest
  <2>5. raised = errors[Len(errors)].stamp
    BY <2>2, <1>a, <1>b, <1>c, <1>d, <1>0 DEF Inv, NoSilentLoss, Newest
  <2>6. ASSUME NEW i \in 1 .. Len(errors')
        PROVE  /\ Before(i)' < errors'[i].stamp
               /\ errors'[i].code # QueueOverflow
                    => errors'[i].stamp = Before(i)' + 1
    <3>1. Before(i)' = Before(i)
      BY <2>2, <1>a, <1>b, <1>c, <1>d, <1>0 DEF Before
    <3>2. CASE i = Len(errors)
      <4>1. Before(i) < errors[i].stamp
        BY <2>2, <1>a, <1>b, <1>c, <1>d, <1>0 DEF Inv, NoSilentLoss
      <4>2. Before(i) \in Nat
        BY <1>a, <1>b, <1>c, <1>d, <1>0, <2>2 DEF Before
      <4> QED
        BY <3>1, <3>2, <4>1, <4>2, <2>2, <2>5, <1>a, <1>b, <1>c, <1>d, <1>0
    <3>3. CASE i # Len(errors)
      <4>1. i \in 1 .. Len(errors) - 1
        BY <3>3, <2>2, <1>a, <1>b, <1>c, <1>d, <1>0
      <4> QED
        BY <4>1, <3>1, <2>2, <1>a, <1>b, <1>c, <1>d, <1>0 DEF Inv, NoSilentLoss
    <3> QED
      BY <3>2, <3>3
  <2>7. NoSilentLoss'
    BY <2>4, <2>6, <1>a, <1>b, <1>c, <1>d, <1>0 DEF NoSilentLoss
  <2>8. EsrOrOverflow'
    BY <2>4, <1>c DEF EsrOrOverflow
  <2> QED
    BY <2>3, <2>7, <2>8 DEF Inv
<1>2. CASE ~(Len(errors) >= Capacity)
  <2>1. /\ errors' = Append(errors, new)
        /\ event_status' = event_status \union {CommandError}
    BY <1>2 DEF push_error, new
  <2>2. /\ errors' \in Seq(Entry)
        /\ Len(errors') = Len(errors) + 1
        /\ errors'[Len(errors) + 1] = new
        /\ \A i \in 1 .. Len(errors) : errors'[i] = errors[i]
    BY <2>1, <1>a, <1>b, <1>c, <1>d, <1>0, AppendProperties
  <2>3. TypeOK'
    BY <2>1, <2>2, <1>a, <1>b, <1>c, <1>d, <1>0, <1>2 DEF TypeOK
  <2>4. Newest' = new
    BY <2>2, <1>a, <1>b, <1>c, <1>d, <1>0 DEF Newest
  <2>5. ASSUME NEW i \in Nat, i = Len(errors) + 1
        PROVE  Before(i)' = raised
    <3>1. CASE errors = <<>>
      BY <2>5, <3>1, <1>b DEF Before, Inv, NoSilentLoss, Newest
    <3>2. CASE errors # <<>>
      <4>1. Len(errors) >= 1
        BY <3>2, <1>a, <1>d, EmptySeq
      <4>2. i # 1 /\ i - 1 = Len(errors) /\ errors'[i - 1] = errors[Len(errors)]
        BY <2>5, <4>1, <2>2, <1>d
      <4> QED
        BY <3>2, <4>2 DEF Before, Inv, NoSilentLoss, Newest
    <3> QED
      BY <3>1, <3>2
  <2>6. ASSUME NEW i \in 1 .. Len(errors')
        PROVE  /\ Before(i)' < errors'[i].stamp
               /\ errors'[i].code # QueueOverflow
                    => errors'[i].stamp = Before(i)' + 1
    <3>1. CASE i = Len(errors) + 1
      <4>1. i \in Nat /\ Before(i)' = raised
        BY <3>1, <2>5, <1>d
      <4> QED
        BY <3>1, <4>1, <2>2, <1>a, <1>c
    <3>2. CASE i # Len(errors) + 1
      <4>1. i \in 1 .. Len(errors)
        BY <3>2, <2>2, <1>a, <1>b, <1>c, <1>d, <1>0
      <4>2. Before(i)' = Before(i)
        BY <4>1, <2>2, <1>a, <1>b, <1>c, <1>d, <1>0 DEF Before
      <4> QED
        BY <4>1, <4>2, <2>2 DEF Inv, NoSilentLoss
    <3> QED
      BY <3>1, <3>2
  <2>7. NoSilentLoss'
    BY <2>4, <2>6, <1>a, <1>b, <1>c, <1>d, <1>0 DEF NoSilentLoss
  <2>8. EsrOrOverflow'
    BY <2>1 DEF EsrOrOverflow
  <2> QED
    BY <2>3, <2>7, <2>8 DEF Inv
<1> QED
  BY <1>1, <1>2

\* SYST:ERR? takes the oldest entry.
LEMMA SystErrInv ==
  ASSUME Inv, SystErr
  PROVE  Inv'
<1> USE ErrorQueueAssumption
<1>0. /\ errors \in Seq(Entry) /\ errors # <<>> /\ Len(errors) \in Nat
      /\ raised' = raised /\ esr_mark' = esr_mark /\ event_status' = event_status
      /\ delivered' = errors[1]
      /\ errors' = Tail(errors)
  BY DEF Inv, TypeOK, SystErr
<1>1. /\ Len(errors) >= 1
      /\ errors' \in Seq(Entry)
      /\ Len(errors') = Len(errors) - 1
      /\ \A i \in 1 .. Len(errors') : errors'[i] = errors[i + 1]
  BY <1>0, HeadTailProperties, EmptySeq
<1>2. errors[1] \in Entry
  BY <1>0, <1>1
<1>3. TypeOK'
  BY <1>0, <1>1, <1>2 DEF Inv, TypeOK
<1>4. Newest' = Newest
  <2>1. CASE errors' = <<>>
    <3>1. Len(errors) = 1
      BY <2>1, <1>0, <1>1, EmptySeq
    <3> QED
      BY <2>1, <3>1, <1>0 DEF Newest
  <2>2. CASE errors' # <<>>
    <3>1. Len(errors') >= 1
      BY <2>2, <1>1, EmptySeq
    <3> QED
      BY <2>2, <3>1, <1>0, <1>1 DEF Newest
  <2> QED
    BY <2>1, <2>2
<1>5. ASSUME NEW i \in 1 .. Len(errors')
      PROVE  /\ Before(i)' < errors'[i].stamp
             /\ errors'[i].code # QueueOverflow => errors'[i].stamp = Before(i)' + 1
  <2>1. i + 1 \in 1 .. Len(errors) /\ errors'[i] = errors[i + 1]
    BY <1>0, <1>1
  <2>2. Before(i)' = Before(i + 1)
    <3>1. CASE i = 1
      BY <3>1, <1>0 DEF Before
    <3>2. CASE i # 1
      <4>1. i - 1 \in 1 .. Len(errors')
        BY <3>2, <1>1, <1>0
      <4>2. errors'[i - 1] = errors[i]
        BY <4>1, <1>1
      <4> QED
        BY <3>2, <4>2 DEF Before
    <3> QED
      BY <3>1, <3>2
  <2> QED
    BY <2>1, <2>2 DEF Inv, NoSilentLoss
<1>6. NoSilentLoss'
  BY <1>0, <1>4, <1>5 DEF Inv, NoSilentLoss
<1>7. EsrOrOverflow'
  BY <1>0, <1>4 DEF Inv, EsrOrOverflow
<1> QED
  BY <1>3, <1>6, <1>7 DEF Inv

\* SYST:ERR:ALL? takes every entry.
LEMMA SystErrAllInv ==
  ASSUME Inv, SystErrAll
  PROVE  Inv'
<1> USE ErrorQueueAssumption
<1>0. /\ errors \in Seq(Entry) /\ errors # <<>>
      /\ raised' = raised /\ esr_mark' = esr_mark /\ event_status' = event_status
      /\ delivered' = errors[Len(errors)]
      /\ errors' = <<>>
  BY DEF Inv, TypeOK, SystErrAll
<1>1. Len(errors) \in Nat /\ Len(errors) >= 1
  BY <1>0, EmptySeq, LenProperties
<1>2. errors' \in Seq(Entry) /\ Len(errors') = 0
  BY <1>0, EmptySeq
<1>3. TypeOK'
  BY <1>0, <1>1, <1>2 DEF Inv, TypeOK
<1>4. Newest' = Newest
  BY <1>0 DEF Newest
<1>5. NoSilentLoss'
  BY <1>0, <1>2, <1>4 DEF Inv, NoSilentLoss
<1>6. EsrOrOverflow'
  BY <1>0, <1>4 DEF Inv, EsrOrOverflow
<1> QED
  BY <1>3, <1>5, <1>6 DEF Inv

\* The commands that touch only the event status register leave the queue's
\* half of the invariant alone.
LEMMA RegisterInv ==
  ASSUME Inv, OperationCompleteCommand \/ EventStatusQuery \/ reset
  PROVE  Inv'
<1>1. UNCHANGED <<errors, delivered, raised>>
  BY DEF OperationCompleteCommand, EventStatusQuery, reset
<1>2. /\ event_status' \subseteq {OperationComplete, CommandError}
      /\ esr_mark' \in 0 .. raised
      /\ \/ esr_mark' = esr_mark /\ event_status \subseteq event_status'
         \/ esr_mark' = raised
  BY DEF Inv, TypeOK, OperationCompleteCommand, EventStatusQuery, reset
<1>3. TypeOK'
  BY <1>1, <1>2 DEF Inv, TypeOK
<1>4. NoSilentLoss'
  BY <1>1 DEF Inv, NoSilentLoss, Before, Newest
<1>5. EsrOrOverflow'
  BY <1>1, <1>2 DEF Inv, TypeOK, EsrOrOverflow, Newest
<1> QED
  BY <1>3, <1>4, <1>5 DEF Inv

\* *CLS returns to the first state.
LEMMA ClearInv ==
  ASSUME clear_status
  PROVE  Inv'
<1> USE ErrorQueueAssumption
<1>1. errors' \in Seq(Entry) /\ Len(errors') = 0
  BY EmptySeq DEF clear_status
<1>2. TypeOK'
  BY <1>1 DEF clear_status, TypeOK, Nothing
<1>3. NoSilentLoss'
  BY <1>1 DEF clear_status, NoSilentLoss, Newest, Nothing
<1>4. EsrOrOverflow'
  BY DEF clear_status, EsrOrOverflow
<1> QED
  BY <1>2, <1>3, <1>4 DEF Inv

\* Every step keeps the inductive invariant.
LEMMA NextInv == Inv /\ [Next]_errorQueueVars => Inv'
<1> SUFFICES ASSUME Inv, [Next]_errorQueueVars PROVE Inv'
  OBVIOUS
<1>1. CASE \E code \in Codes : push_error(code)
  BY <1>1, PushInv
<1>2. CASE SystErr
  BY <1>2, SystErrInv
<1>3. CASE SystErrAll
  BY <1>3, SystErrAllInv
<1>4. CASE OperationCompleteCommand \/ EventStatusQuery \/ reset
  BY <1>4, RegisterInv
<1>5. CASE clear_status
  BY <1>5, ClearInv
<1>6. CASE UNCHANGED errorQueueVars
  BY <1>6 DEF errorQueueVars, Inv, TypeOK, NoSilentLoss, EsrOrOverflow, Before, Newest
<1> QED
  BY <1>1, <1>2, <1>3, <1>4, <1>5, <1>6 DEF Next

\* The queue and the register keep their types and the queue its bound,
\* whatever commands are rejected and read (push_error()).
THEOREM TypeCorrect == Spec => []TypeOK
<1>1. Inv => TypeOK
  BY DEF Inv
<1> QED
  BY <1>1, InitInv, NextInv, PTL DEF Spec

\* No error raised since *CLS disappears without the overflow error standing
\* in its place, for every capacity of the queue (push_error(), SYST:ERR?).
THEOREM LossIsReported == Spec => []NoSilentLoss
<1>1. Inv => NoSilentLoss
  BY DEF Inv
<1> QED
  BY <1>1, InitInv, NextInv, PTL DEF Spec

\* An error that leaves the ESR's command error bit down shows as an overflow
\* at the end of the queue (push_error(), *ESR?, *RST).
THEOREM ErrorShowsSomewhere == Spec => []EsrOrOverflow
<1>1. Inv => EsrOrOverflow
  BY DEF Inv
<1> QED
  BY <1>1, InitInv, NextInv, PTL DEF Spec

-----------------------------------------------------------------------------
(* The order in which entries leave the queue.                             *)

\* Entries leave the queue by *CLS, which starts a new history, or towards a
\* client and in order: whatever is taken is newer than all that was taken
\* before it, and a SYST:ERR? that does not report an overflow hands out the
\* very next error that was raised.
TakesInOrder ==
    Len(errors') < Len(errors) =>
        \/ errors' = <<>> /\ raised' = 0
        \/ /\ raised' = raised
           /\ delivered.stamp < delivered'.stamp
           /\ delivered'.stamp <= raised
           /\ Len(errors') = Len(errors) - 1 /\ delivered'.code # QueueOverflow
                => delivered'.stamp = delivered.stamp + 1

\* Every step takes entries that way.
TakenInOrder == [][TakesInOrder]_errorQueueVars

\* The whole queue lies, in order, between the entry taken last and the error
\* raised last.  NoSilentLoss says this of neighbours only; the step from one
\* end of the queue to the other would be an induction over its length, so it
\* is an invariant of its own.
Ordered ==
    \A i \in 1 .. Len(errors) :
        /\ delivered.stamp < errors[i].stamp
        /\ errors[i].stamp <= raised
        /\ \A j \in 1 .. Len(errors) : j < i => errors[j].stamp < errors[i].stamp

\* The numbers that the queue's entries carry.
LEMMA StampTypes ==
  ASSUME TypeOK
  PROVE  /\ errors \in Seq(Entry) /\ Len(errors) \in Nat /\ raised \in Nat
         /\ delivered.stamp \in Nat
         /\ \A i \in 1 .. Len(errors) : errors[i] \in Entry /\ errors[i].stamp \in Nat
<1>1. \A e \in Entry \union {Nothing} : e.stamp \in Nat
  BY DEF Entry, Nothing
<1>2. errors \in Seq(Entry) /\ Len(errors) \in Nat /\ raised \in Nat
  BY LenProperties DEF TypeOK
<1>3. \A i \in 1 .. Len(errors) : errors[i] \in Entry
  BY <1>2, ElementOfSeq
<1> QED
  BY <1>1, <1>2, <1>3 DEF TypeOK

\* A rejected command is numbered after everything that is queued and never
\* shortens the queue.
LEMMA PushOrdered ==
  ASSUME Inv, Ordered, NEW code \in Codes, push_error(code)
  PROVE  Ordered' /\ ~(Len(errors') < Len(errors))
<1> USE ErrorQueueAssumption
<1> DEFINE new == [code |-> code, stamp |-> raised + 1]
           over == [code |-> QueueOverflow, stamp |-> raised + 1]
<1>0. /\ errors \in Seq(Entry) /\ Len(errors) \in Nat /\ raised \in Nat
      /\ delivered.stamp \in Nat
      /\ \A i \in 1 .. Len(errors) : errors[i] \in Entry /\ errors[i].stamp \in Nat
  BY StampTypes DEF Inv
<1>1. raised' = raised + 1 /\ delivered' = delivered
  BY DEF push_error
<1>2. /\ new \in Entry /\ new.stamp = raised + 1
      /\ over \in Entry /\ over.stamp = raised + 1
  BY <1>0 DEF Entry
<1>3. delivered.stamp <= raised
  <2>1. CASE errors = <<>>
    BY <1>0, <2>1 DEF Inv, NoSilentLoss, Newest
  <2>2. CASE errors # <<>>
    <3>1. 1 \in 1 .. Len(errors)
      BY <2>2, <1>0, EmptySeq
    <3> QED
      BY <3>1, <1>0 DEF Ordered
  <2> QED
    BY <2>1, <2>2
<1> HIDE DEF new, over
<1>4. CASE Len(errors) >= Capacity
  <2>1. errors' = [errors EXCEPT ![Len(errors)] = over]
    BY <1>4 DEF push_error, over
  <2>2. /\ Len(errors') = Len(errors) /\ Len(errors) >= 1
        /\ errors'[Len(errors)] = over
        /\ \A i \in 1 .. Len(errors) : i # Len(errors) => errors'[i] = errors[i]
    BY <2>1, <1>0, <1>2, <1>4
  <2> QED
    BY <2>2, <1>0, <1>1, <1>2, <1>3 DEF Ordered
<1>5. CASE ~(Len(errors) >= Capacity)
  <2>1. errors' = Append(errors, new)
    BY <1>5 DEF push_error, new
  <2>2. /\ Len(errors') = Len(errors) + 1
        /\ errors'[Len(errors) + 1] = new
        /\ \A i \in 1 .. Len(errors) : errors'[i] = errors[i]
    BY <2>1, <1>0, <1>2, AppendProperties
  <2>3. \A i \in 1 .. Len(errors') : i \in 1 .. Len(errors) \/ i = Len(errors) + 1
    BY <2>2, <1>0
  <2>4. ASSUME NEW i \in 1 .. Len(errors')
        PROVE  /\ delivered'.stamp < errors'[i].stamp
               /\ errors'[i].stamp <= raised'
               /\ \A j \in 1 .. Len(errors') : j < i => errors'[j].stamp < errors'[i].stamp
    <3>1. CASE i = Len(errors) + 1
      <4>1. \A j \in 1 .. Len(errors') : j < i => j \in 1 .. Len(errors)
        BY <3>1, <2>2, <1>0
      <4>2. errors'[i].stamp = raised + 1
        BY <3>1, <2>2, <1>2
      <4>3. \A j \in 1 .. Len(errors) : errors'[j].stamp < raised + 1
        BY <2>2, <1>0 DEF Ordered
      <4> QED
        BY <4>1, <4>2, <4>3, <1>0, <1>1, <1>3
    <3>2. CASE i \in 1 .. Len(errors)
      <4>1. \A j \in 1 .. Len(errors') : j < i => j \in 1 .. Len(errors)
        BY <3>2, <2>2, <1>0
      <4>2. errors[i].stamp <= raised + 1
        BY <3>2, <1>0 DEF Ordered
      <4> QED
        BY <3>2, <4>1, <4>2, <2>2, <1>0, <1>1 DEF Ordered
    <3> QED
      BY <3>1, <3>2, <2>3
  <2> QED
    BY <2>2, <2>4, <1>0 DEF Ordered
<1> QED
  BY <1>4, <1>5

\* SYST:ERR? takes the oldest entry: what is left is newer.
LEMMA SystErrOrdered ==
  ASSUME Inv, Ordered, SystErr
  PROVE  /\ Ordered' /\ raised' = raised
         /\ delivered.stamp < delivered'.stamp /\ delivered'.stamp <= raised
         /\ delivered'.code # QueueOverflow => delivered'.stamp = delivered.stamp + 1
<1>0. /\ errors \in Seq(Entry) /\ Len(errors) \in Nat /\ raised \in Nat
      /\ delivered.stamp \in Nat
      /\ \A i \in 1 .. Len(errors) : errors[i] \in Entry /\ errors[i].stamp \in Nat
  BY StampTypes DEF Inv
<1>1. errors # <<>> /\ raised' = raised /\ delivered' = errors[1] /\ errors' = Tail(errors)
  BY <1>0 DEF SystErr
<1>2. /\ Len(errors) >= 1
      /\ Len(errors') = Len(errors) - 1
      /\ \A i \in 1 .. Len(errors') : errors'[i] = errors[i + 1]
  BY <1>0, <1>1, HeadTailProperties, EmptySeq
<1>3. 1 \in 1 .. Len(errors) /\ Before(1) = delivered.stamp
  BY <1>0, <1>2 DEF Before
<1>4. ASSUME NEW i \in 1 .. Len(errors')
      PROVE  i + 1 \in 1 .. Len(errors) /\ 1 < i + 1
  BY <1>0, <1>2
<1>5. Ordered'
  BY <1>0, <1>1, <1>2, <1>3, <1>4 DEF Ordered
<1>6. delivered'.code # QueueOverflow => delivered'.stamp = delivered.stamp + 1
  BY <1>1, <1>3 DEF Inv, NoSilentLoss
<1> QED
  BY <1>1, <1>3, <1>5, <1>6 DEF Ordered

\* SYST:ERR:ALL? leaves nothing, and the entry it ends with is the last error
\* raised.
LEMMA SystErrAllOrdered ==
  ASSUME Inv, Ordered, SystErrAll
  PROVE  /\ Ordered' /\ raised' = raised
         /\ delivered.stamp < delivered'.stamp /\ delivered'.stamp <= raised
         /\ Len(errors') = Len(errors) - 1 /\ delivered'.code # QueueOverflow
              => delivered'.stamp = delivered.stamp + 1
<1>0. errors \in Seq(Entry) /\ Len(errors) \in Nat /\ raised \in Nat
  BY StampTypes DEF Inv
<1>1. /\ errors # <<>> /\ raised' = raised
      /\ delivered' = errors[Len(errors)] /\ errors' = <<>>
  BY DEF SystErrAll
<1>2. Len(errors') = 0 /\ Len(errors) \in 1 .. Len(errors)
  BY <1>0, <1>1, EmptySeq
<1>3. CASE Len(errors) = 1
  BY <1>1, <1>2, <1>3 DEF Inv, NoSilentLoss, Before, Ordered
<1>4. CASE Len(errors) # 1
  BY <1>0, <1>1, <1>2, <1>4 DEF Ordered
<1> QED
  BY <1>3, <1>4

\* Every step keeps the queue in order and takes entries from its old end.
LEMMA NextOrdered ==
  ASSUME Inv, Ordered, [Next]_errorQueueVars
  PROVE  Ordered' /\ TakesInOrder
<1>0. Len(errors) \in Nat
  BY StampTypes DEF Inv
<1>1. CASE \E code \in Codes : push_error(code)
  BY <1>1, PushOrdered DEF TakesInOrder
<1>2. CASE SystErr
  BY <1>2, SystErrOrdered DEF TakesInOrder
<1>3. CASE SystErrAll
  BY <1>3, SystErrAllOrdered DEF TakesInOrder
<1>4. CASE OperationCompleteCommand \/ EventStatusQuery \/ reset \/ UNCHANGED errorQueueVars
  <2>1. UNCHANGED <<errors, delivered, raised>>
    BY <1>4 DEF OperationCompleteCommand, EventStatusQuery, reset, errorQueueVars
  <2> QED
    BY <1>0, <2>1 DEF Ordered, TakesInOrder
<1>5. CASE clear_status
  <2>1. errors' = <<>> /\ raised' = 0 /\ Len(errors') = 0
    BY <1>5, EmptySeq DEF clear_status
  <2> QED
    BY <2>1 DEF Ordered, TakesInOrder
<1> QED
  BY <1>1, <1>2, <1>3, <1>4, <1>5 DEF Next

\* The queue hands its entries out in the order they were raised, none of them
\* twice, for every capacity and however pushes, reads and *RST follow each
\* other (push_error(), SYST:ERR?, SYST:ERR:ALL?).
THEOREM EntriesLeaveInOrder == Spec => TakenInOrder
<1>1. Init => Ordered
  BY EmptySeq DEF Init, Ordered
<1>2. Inv /\ Ordered /\ [Next]_errorQueueVars => Ordered' /\ [TakesInOrder]_errorQueueVars
  BY NextOrdered
<1> QED
  BY <1>1, <1>2, InitInv, NextInv, PTL DEF Spec, TakenInOrder
=============================================================================
