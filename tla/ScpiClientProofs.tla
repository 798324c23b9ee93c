-------------------------- MODULE ScpiClientProofs --------------------------
(***************************************************************************)
(* The mutex works whatever the program does (TypeOK).  A query returns    *)
(* its own answer, for any number of calls and connections, provided the   *)
(* program closes a timed-out link before it reopens it; under the same    *)
(* condition the client implements RequestReply.  OwnAnswer is not         *)
(* inductive: what a read returns depends on what is in rx, on the way and *)
(* still to be handled.  LinkInv lists what these three can hold, between  *)
(* calls and during one.                                                   *)
(***************************************************************************)
EXTENDS ScpiClient, SequenceTheorems, WellFoundedInduction, TLAPS

NoLast(s) == \A i \in 1 .. Len(s) : ~s[i].last
NoQuery(u) == \A i \in 1 .. Len(u) : ~u[i].query
Part(c) == [call |-> c, last |-> FALSE]
End(c) == [call |-> c, last |-> TRUE]

\* No line can come out of the link any more.
Dead == peer = "gone" /\ NoLast(rx) /\ NoLast(down)

\* Nothing has arrived, is on its way or will be.
Silent == rx = <<>> /\ down = <<>> /\ NoQuery(up)

\* The answer to c is still to be given, or on its way, or received.
Asked(c) ==
    /\ rx = <<>> /\ down = <<>>
    /\ up # <<>> /\ up[Len(up)] = [call |-> c, query |-> TRUE]
    /\ \A i \in 1 .. Len(up) - 1 : ~up[i].query
Answered(c) ==
    /\ NoQuery(up)
    /\ \/ rx = <<>> /\ down = <<Part(c), End(c)>>
       \/ rx = <<Part(c)>> /\ down = <<End(c)>>
       \/ rx = <<Part(c), End(c)>> /\ down = <<>>

LinkInv ==
    /\ socket = "closed" => rx = <<>>
    /\ is_open /\ (\A c \in Calls : pc[c] # "reading") => Silent \/ Dead
    /\ \A c \in Calls :
          is_open /\ pc[c] = "reading" => Silent \/ Dead \/ Asked(c) \/ Answered(c)

Inv == TypeOK /\ LinkInv /\ OwnAnswer

USE DEF is_open

\* What the sequences of the model look like after the operations on them.
LEMMA Appended ==
  ASSUME NEW S, NEW s \in Seq(S), NEW x \in S
  PROVE  /\ s \o <<x>> \in Seq(S)
         /\ Len(s \o <<x>>) = Len(s) + 1
         /\ (s \o <<x>>)[Len(s) + 1] = x
         /\ \A i \in 1 .. Len(s) : (s \o <<x>>)[i] = s[i]
  OBVIOUS

\* The tail of a non-empty sequence: its length and its elements.
LEMMA TailOf ==
  ASSUME NEW S, NEW s \in Seq(S), s # <<>>
  PROVE  /\ Len(s) \in Nat /\ Len(s) >= 1
         /\ Tail(s) \in Seq(S)
         /\ Len(Tail(s)) = Len(s) - 1
         /\ \A i \in 1 .. Len(s) - 1 : Tail(s)[i] = s[i + 1]
         /\ Head(s) = s[1] /\ Head(s) \in S
BY HeadTailProperties, EmptySeq, LenProperties

\* A sequence that has a length is not empty.
LEMMA NonEmpty ==
  ASSUME NEW S, NEW s \in Seq(S), Len(s) >= 1
  PROVE  s # <<>>
<1> SUFFICES ASSUME s = <<>> PROVE FALSE
  OBVIOUS
<1>1. Len(s) = 0
  BY EmptySeq
<1> QED
  BY <1>1

\* The tail of a longer sequence ends as the sequence does.
LEMMA LastOfTail ==
  ASSUME NEW S, NEW s \in Seq(S), Len(s) >= 2
  PROVE  Tail(s) # <<>> /\ Tail(s)[Len(Tail(s))] = s[Len(s)]
<1>1. s # <<>>
  BY NonEmpty
<1>2. /\ Tail(s) \in Seq(S) /\ Len(Tail(s)) = Len(s) - 1
      /\ \A i \in 1 .. Len(s) - 1 : Tail(s)[i] = s[i + 1]
      /\ Len(s) \in Nat
  BY <1>1, TailOf
<1>3. Len(Tail(s)) \in 1 .. Len(s) - 1 /\ Len(Tail(s)) + 1 = Len(s)
  BY <1>2
<1>4. Tail(s)[Len(Tail(s))] = s[Len(Tail(s)) + 1]
  BY <1>2, <1>3
<1>5. Tail(s) # <<>>
  <2>1. Tail(s) \in Seq(S) /\ Len(Tail(s)) >= 1
    BY <1>2, <1>3
  <2> QED
    BY <2>1, NonEmpty, Zenon
<1> QED
  BY <1>3, <1>4, <1>5

\* A prefix of a sequence: its length and its elements.
LEMMA Prefix ==
  ASSUME NEW S, NEW s \in Seq(S), NEW n \in 0 .. Len(s)
  PROVE  /\ SubSeq(s, 1, n) \in Seq(S)
         /\ Len(SubSeq(s, 1, n)) = n
         /\ \A i \in 1 .. n : SubSeq(s, 1, n)[i] = s[i]
  OBVIOUS

\* A pair is a sequence of two elements.
LEMMA PairSeq ==
  ASSUME NEW S, NEW s \in Seq(S), Len(s) = 2
  PROVE  s = <<s[1], s[2]>>
  OBVIOUS

\* A line in rx has a first terminator: read_line() knows how much to take.
LEMMA LineFound ==
  ASSUME rx \in Seq(Fragment), has_line
  PROVE  line_length \in 1 .. Len(rx)
<1> DEFINE ends == {i \in 1 .. Len(rx) : rx[i].last}
           less == OpToRel(<, Nat)
<1>1. Len(rx) \in Nat /\ ends \subseteq Nat /\ ends # {}
  BY LenProperties DEF has_line
<1>2. PICK n \in ends : \A i \in ends : <<i, n>> \notin less
  <2>1. IsWellFoundedOn(less, Nat)
    BY NatLessThanWellFounded
  <2> HIDE DEF ends, less
  <2> QED
    BY <1>1, <2>1, WFMin
<1>3. n \in 1 .. Len(rx) /\ rx[n].last /\ \A i \in 1 .. n - 1 : ~rx[i].last
  <2>1. ASSUME NEW i \in 1 .. n - 1, rx[i].last PROVE FALSE
    <3>1. i \in ends /\ i \in Nat /\ n \in Nat /\ i < n
      BY <1>1, <2>1
    <3>2. <<i, n>> \in less
      BY <3>1 DEF OpToRel
    <3> QED
      BY <1>2, <3>1, <3>2
  <2> QED
    BY <2>1
<1> HIDE DEF ends, less
<1> QED
  BY <1>3 DEF line_length

-----------------------------------------------------------------------------
(* Types and mutual exclusion.                                             *)

\* While one call holds the mutex no other one reads.
LEMMA Alone ==
  ASSUME TypeOK, NEW c \in Calls, pc[c] \in {"writing", "reading"}
  PROVE  mutex = c /\ \A d \in Calls \ {c} : pc[d] \notin {"writing", "reading"}
  BY DEF TypeOK

\* Leaving a call keeps the types of the call's state.
LEMMA LeaveCalls ==
  ASSUME TypeOK, NEW c \in Calls, pc[c] \in {"writing", "reading"}, Leave(c)
  PROVE  /\ pc' \in [Calls -> {"new", "locking", "writing", "reading", "done"}]
         /\ mutex' \in Calls \union {Nobody}
         /\ \A d \in Calls : pc'[d] \in {"writing", "reading"} <=> mutex' = d
         /\ \A d \in Calls : pc'[d] # "reading"
  BY Alone, ScpiClientAssumption DEF TypeOK, Leave

\* A call writes lines.
LEMMA LinesOfType ==
  ASSUME TypeOK, NEW c \in Calls
  PROVE  LinesOf(c) \in Seq(Line)
<1> DEFINE set == [call |-> c, query |-> FALSE]
           ask == [call |-> c, query |-> TRUE]
<1>1. set \in Line /\ ask \in Line
  BY DEF Line
<1>2. LinesOf(c) \in {<<set>>, <<ask>>, <<ask, ask>>}
  BY DEF LinesOf, TypeOK, Kinds
<1> HIDE DEF set, ask
<1>3. <<set>> \in Seq(Line) /\ <<ask>> \in Seq(Line)
  BY <1>1
<1>4. <<ask, ask>> \in Seq(Line)
  BY <1>1
<1> QED
  BY <1>2, <1>3, <1>4

\* A new client is well typed.
LEMMA InitType == Init => TypeOK
  BY TcpTransportAssumption, ScpiClientAssumption DEF Init, LinkInit, TypeOK, Kinds

\* open() and close().
LEMMA LinkType ==
  ASSUME TypeOK, Open \/ Close
  PROVE  TypeOK'
<1>1. CASE Open
  <2>1. (connect_succeeds \/ connect_fails) /\ UNCHANGED callVars
    BY <1>1 DEF Open
  <2>2. CASE connect_succeeds
    BY <2>1, <2>2, TcpTransportAssumption DEF connect_succeeds, callVars, TypeOK
  <2>3. CASE connect_fails
    BY <2>1, <2>3 DEF connect_fails, callVars, TypeOK
  <2> QED
    BY <2>1, <2>2, <2>3
<1>2. CASE Close
  BY <1>2 DEF Close, close, callVars, TypeOK
<1> QED
  BY <1>1, <1>2

\* Entering a call and taking the mutex.
LEMMA EnterType ==
  ASSUME TypeOK, NEW c \in Calls, (\E k \in Kinds : Call(c, k)) \/ Lock(c)
  PROVE  TypeOK'
<1> USE ScpiClientAssumption DEF linkVars
<1>1. CASE \E k \in Kinds : Call(c, k)
  BY <1>1 DEF Call, TypeOK
<1>2. CASE Lock(c)
  BY <1>2 DEF Lock, TypeOK
<1> QED
  BY <1>1, <1>2

\* Writing, whether it succeeds or throws.
LEMMA WriteType ==
  ASSUME TypeOK, NEW c \in Calls, WriteThrows(c) \/ Write(c)
  PROVE  TypeOK'
<1>1. up \in Seq(Line) /\ up \o LinesOf(c) \in Seq(Line)
  BY LinesOfType, ConcatProperties DEF TypeOK
<1>2. CASE WriteThrows(c)
  <2>1. /\ up' \in Seq(Line) /\ socket' \in {"open", "closed", "timed_out"}
        /\ peer' \in {"up", "gone"} /\ UNCHANGED <<rx, down, opens>>
    BY <1>1, <1>2 DEF WriteThrows, write_fails, write_times_out, close_on_timeout,
                      linkVars, TypeOK
  <2> QED
    BY <1>2, <2>1, LeaveCalls DEF WriteThrows, TypeOK
<1>3. CASE Write(c)
  <2>1. up' \in Seq(Line) /\ UNCHANGED <<socket, rx, peer, down, opens>>
    BY <1>1, <1>3 DEF Write, write_succeeds
  <2>2. CASE kind[c] = "send"
    BY <1>3, <2>1, <2>2, LeaveCalls DEF Write, TypeOK
  <2>3. CASE kind[c] # "send"
    BY <1>3, <2>1, <2>3, Alone DEF Write, TypeOK
  <2> QED
    BY <2>2, <2>3
<1> QED
  BY <1>2, <1>3

\* Reading, whether it goes on, succeeds or throws.
LEMMA ReadType ==
  ASSUME TypeOK, NEW c \in Calls, Receive(c) \/ ReadReturns(c) \/ ReadThrows(c)
  PROVE  TypeOK'
<1>1. rx \in Seq(Fragment) /\ down \in Seq(Fragment)
  BY DEF TypeOK
<1>2. CASE Receive(c)
  <2>1. down' \in Seq(Fragment) /\ rx' \in Seq(Fragment)
    BY <1>1, <1>2, TailOf, AppendProperties DEF Receive, receive
  <2> QED
    BY <1>2, <2>1 DEF Receive, receive, callVars, TypeOK
<1>3. CASE ReadReturns(c)
  <2>1. line_length \in 1 .. Len(rx) /\ Len(rx) \in Nat
    BY <1>1, <1>3, LineFound, LenProperties DEF ReadReturns, read_succeeds
  <2>2. SubSeq(rx, 1, line_length) \in Seq(Fragment)
    BY <1>1, <2>1, Prefix
  <2>3. rx' \in Seq(Fragment)
    <3>1. rx' = SubSeq(rx, line_length + 1, Len(rx))
      BY <1>3 DEF ReadReturns, read_succeeds, line_taken
    <3> HIDE DEF line_length
    <3> QED
      BY <1>1, <2>1, <3>1, SubSeqProperties
  <2>4. answer' \in [Calls -> Seq(Fragment)]
    BY <1>3, <2>2 DEF ReadReturns, TypeOK
  <2> QED
    BY <1>3, <2>3, <2>4, LeaveCalls DEF ReadReturns, read_succeeds, TypeOK
<1>4. CASE ReadThrows(c)
  <2>1. /\ socket' \in {"open", "closed", "timed_out"} /\ peer' \in {"up", "gone"}
        /\ UNCHANGED <<rx, up, down, opens>>
    BY <1>4 DEF ReadThrows, read_fails, read_times_out, close_on_timeout, linkVars, TypeOK
  <2> QED
    BY <1>4, <2>1, LeaveCalls DEF ReadThrows, TypeOK
<1> QED
  BY <1>2, <1>3, <1>4

\* The instrument's end of the connection.
LEMMA InstrumentType ==
  ASSUME TypeOK, Instrument
  PROVE  TypeOK'
<1>1. up \in Seq(Line) /\ down \in Seq(Fragment)
  BY DEF TypeOK
<1>2. CASE InstrumentHandles
  <2>1. Head(up) \in Line /\ up' \in Seq(Line)
    BY <1>1, <1>2, TailOf DEF InstrumentHandles
  <2>2. AnswerTo(Head(up).call) \in Seq(Fragment)
    BY <2>1 DEF AnswerTo, Fragment, Line
  <2>3. down \o AnswerTo(Head(up).call) \in Seq(Fragment)
    BY <1>1, <2>2, ConcatProperties
  <2>4. down' \in Seq(Fragment)
    BY <1>1, <1>2, <2>3 DEF InstrumentHandles
  <2> QED
    BY <1>2, <2>1, <2>4 DEF Instrument, InstrumentHandles, callVars, TypeOK
<1>3. CASE InstrumentDrops
  <2>1. down' \in Seq(Fragment)
    BY <1>1, <1>3, Prefix DEF InstrumentDrops
  <2> QED
    BY <1>3, <2>1 DEF Instrument, InstrumentDrops, callVars, TypeOK
<1> QED
  BY <1>2, <1>3 DEF Instrument

\* Every step keeps the types and the mutual exclusion.
LEMMA NextType == TypeOK /\ [Next]_vars => TypeOK'
<1> SUFFICES ASSUME TypeOK, [Next]_vars PROVE TypeOK'
  OBVIOUS
<1>1. CASE Open \/ Close
  BY <1>1, LinkType
<1>2. ASSUME NEW c \in Calls, (\E k \in Kinds : Call(c, k)) \/ Lock(c)
      PROVE  TypeOK'
  BY <1>2, EnterType
<1>3. ASSUME NEW c \in Calls, WriteThrows(c) \/ Write(c)
      PROVE  TypeOK'
  BY <1>3, WriteType
<1>4. ASSUME NEW c \in Calls, Receive(c) \/ ReadReturns(c) \/ ReadThrows(c)
      PROVE  TypeOK'
  BY <1>4, ReadType
<1>5. CASE Instrument
  BY <1>5, InstrumentType
<1>6. CASE UNCHANGED vars
  BY <1>6 DEF vars, linkVars, callVars, TypeOK
<1> QED
  BY <1>1, <1>2, <1>3, <1>4, <1>5, <1>6 DEF Next

\* Every variable keeps its type, and a call is inside the locked part of
\* send() or query() exactly when it holds the mutex: two calls are never in
\* there together.  This needs nothing of the program that opens and closes
\* the link.
THEOREM ClientTypeCorrect == Spec => []TypeOK
  BY InitType, NextType, PTL DEF Spec

-----------------------------------------------------------------------------
(* A query returns its own answer.                                         *)

\* The closed link and the idle calls of a new client satisfy the invariant.
LEMMA InitInv == Init => Inv
<1> SUFFICES ASSUME Init PROVE Inv
  OBVIOUS
<1> USE TcpTransportAssumption, ScpiClientAssumption DEF Init, LinkInit
<1>1. TypeOK
  BY InitType
<1>2. LinkInv
  BY DEF LinkInv
<1>3. OwnAnswer
  BY DEF OwnAnswer
<1> QED
  BY <1>1, <1>2, <1>3 DEF Inv

\* open() and close(), between calls.
LEMMA OpenInv ==
  ASSUME Inv, TypeOK', ClosesBeforeReopen, Open
  PROVE  Inv'
<1> USE TcpTransportAssumption DEF Open, callVars
<1>1. \A c \in Calls : pc[c] # "reading"
  BY ScpiClientAssumption DEF Inv, TypeOK
<1>2. CASE connect_succeeds
  <2>1. socket = "closed" /\ rx = <<>>
    BY <1>2 DEF connect_succeeds, Inv, TypeOK, LinkInv
  <2>2. LinkInv'
    BY <2>1, <1>1, <1>2 DEF connect_succeeds, LinkInv, Silent, NoQuery
  <2>3. OwnAnswer'
    BY DEF Inv, OwnAnswer
  <2> QED
    BY <2>2, <2>3 DEF Inv
<1>3. CASE connect_fails
  <2>1. socket = "closed" /\ rx = <<>> /\ rx' = <<>>
    BY <1>3 DEF connect_fails, Inv, TypeOK, LinkInv
  <2>2. LinkInv'
    BY <2>1, <1>3 DEF connect_fails, LinkInv
  <2>3. OwnAnswer'
    BY DEF Inv, OwnAnswer
  <2> QED
    BY <2>2, <2>3 DEF Inv
<1> QED
  BY <1>2, <1>3

\* close() empties the link and rx.
LEMMA CloseInv ==
  ASSUME Inv, TypeOK', Close
  PROVE  Inv'
<1> USE DEF Close, close, callVars
<1>1. LinkInv'
  BY DEF LinkInv
<1>2. OwnAnswer'
  BY DEF Inv, OwnAnswer
<1> QED
  BY <1>1, <1>2 DEF Inv

\* Entering a call and taking the mutex leave the link alone.
LEMMA EnterInv ==
  ASSUME Inv, TypeOK', NEW c \in Calls, (\E k \in Kinds : Call(c, k)) \/ Lock(c)
  PROVE  Inv'
<1> USE ScpiClientAssumption DEF Call, Lock, linkVars
<1>1. UNCHANGED <<linkVars, answer>>
  OBVIOUS
<1>2. \A d \in Calls : pc'[d] = "reading" <=> pc[d] = "reading"
  BY DEF Inv, TypeOK
<1>3. LinkInv'
  BY <1>1, <1>2 DEF Inv, LinkInv, Silent, Dead, Asked, Answered, NoLast, NoQuery
<1>4. OwnAnswer'
  BY DEF Inv, OwnAnswer
<1> QED
  BY <1>3, <1>4 DEF Inv

\* A write that throws ends the call; if bytes may have gone out, the link is
\* closed or its peer is gone.
LEMMA WriteThrowsInv ==
  ASSUME Inv, TypeOK', NEW c \in Calls, WriteThrows(c)
  PROVE  Inv'
<1> USE DEF WriteThrows
<1>1. /\ \A d \in Calls : pc[d] # "reading"
      /\ \A d \in Calls : pc'[d] # "reading"
  BY Alone, LeaveCalls DEF Inv
<1>2. CASE UNCHANGED linkVars
  <2>1. LinkInv'
    BY <1>1, <1>2 DEF Inv, LinkInv, linkVars, Silent, Dead, NoLast, NoQuery
  <2>2. OwnAnswer'
    BY DEF Inv, OwnAnswer
  <2> QED
    BY <2>1, <2>2 DEF Inv
<1>3. CASE write_times_out(LinesOf(c))
  <2>1. LinkInv'
    BY <1>3 DEF LinkInv, write_times_out, close_on_timeout
  <2>2. OwnAnswer'
    BY DEF Inv, OwnAnswer
  <2> QED
    BY <2>1, <2>2 DEF Inv
<1> QED
  BY <1>2, <1>3 DEF write_fails

\* A write puts the call's line on the link, which was in step.
LEMMA WriteInv ==
  ASSUME Inv, TypeOK', NEW c \in Calls, Write(c)
  PROVE  Inv'
<1> USE DEF Write
<1>1. /\ socket = "open" /\ UNCHANGED <<socket, rx, peer, down, opens>>
      /\ up' = up \o LinesOf(c)
  BY DEF write_succeeds
<1>2. \A d \in Calls : pc[d] # "reading"
  BY Alone DEF Inv
<1>3. Silent \/ Dead
  BY <1>1, <1>2 DEF Inv, LinkInv
<1>4. kind[c] \in {"send", "query"}
  BY DEF has_line_terminator, Inv, TypeOK, Kinds
<1>5. PICK l \in Line : /\ LinesOf(c) = <<l>>
                        /\ l.query <=> kind[c] = "query"
                        /\ kind[c] = "query" => l = [call |-> c, query |-> TRUE]
  <2>1. CASE kind[c] = "send"
    <3>1. LinesOf(c) = <<[call |-> c, query |-> FALSE]>>
      BY <2>1 DEF LinesOf
    <3> QED
      BY <2>1, <3>1 DEF Line
  <2>2. CASE kind[c] = "query"
    <3>1. LinesOf(c) = <<[call |-> c, query |-> TRUE]>>
      BY <2>2 DEF LinesOf
    <3> QED
      BY <2>2, <3>1 DEF Line
  <2> QED
    BY <2>1, <2>2, <1>4
<1>6. /\ up \in Seq(Line) /\ Len(up) \in Nat
      /\ up' \in Seq(Line) /\ Len(up') = Len(up) + 1 /\ up'[Len(up) + 1] = l
      /\ \A i \in 1 .. Len(up) : up'[i] = up[i]
  BY <1>1, <1>5, Appended, LenProperties DEF Inv, TypeOK
<1>7. CASE kind[c] = "send"
  <2>1. Leave(c)
    BY <1>7
  <2>2. Silent => NoQuery(up')
    BY <1>5, <1>6, <1>7 DEF Silent, NoQuery
  <2>3. (Silent \/ Dead)'
    BY <1>1, <1>3, <2>2 DEF Silent, Dead, NoLast
  <2>4. LinkInv'
    BY <2>1, <2>3, <1>1, LeaveCalls DEF Inv, LinkInv
  <2>5. OwnAnswer'
    BY DEF Inv, OwnAnswer
  <2> QED
    BY <2>4, <2>5 DEF Inv
<1>8. CASE kind[c] = "query"
  <2>1. pc' = [pc EXCEPT ![c] = "reading"] /\ mutex' = mutex
    BY <1>8
  <2>2. Silent => Asked(c)'
    <3> SUFFICES ASSUME Silent PROVE Asked(c)'
      OBVIOUS
    <3>1. Len(up') = Len(up) + 1 /\ up' # <<>>
      BY <1>6, EmptySeq
    <3>2. \A i \in 1 .. Len(up') - 1 : ~up'[i].query
      BY <1>6 DEF Silent, NoQuery
    <3> QED
      BY <3>1, <3>2, <1>1, <1>5, <1>6, <1>8 DEF Silent, Asked
  <2>3. (Silent \/ Dead \/ Asked(c))'
    BY <1>1, <1>3, <2>2 DEF Dead, NoLast
  <2>4. pc'[c] = "reading" /\ \A d \in Calls : pc'[d] = "reading" => d = c
    BY <2>1, <1>2 DEF Inv, TypeOK
  <2>5. LinkInv'
    BY <2>3, <2>4, <1>1 DEF LinkInv
  <2>6. OwnAnswer'
    BY DEF Inv, OwnAnswer
  <2> QED
    BY <2>5, <2>6 DEF Inv
<1> QED
  BY <1>4, <1>7, <1>8

\* Bytes arrive: a fragment moves from the way into rx.
LEMMA ReceiveInv ==
  ASSUME Inv, TypeOK', NEW c \in Calls, Receive(c)
  PROVE  Inv'
<1> USE DEF Receive, receive, callVars
<1>1. /\ rx \in Seq(Fragment) /\ down \in Seq(Fragment) /\ down # <<>>
      /\ NoLast(rx)
  BY DEF Inv, TypeOK, has_line, NoLast
<1>2. /\ Tail(down) \in Seq(Fragment) /\ Head(down) \in Fragment
      /\ Len(Tail(down)) = Len(down) - 1 /\ Len(down) \in Nat /\ Len(down) >= 1
      /\ \A i \in 1 .. Len(down) - 1 : Tail(down)[i] = down[i + 1]
      /\ Head(down) = down[1]
  BY <1>1, TailOf
<1>3. /\ rx' \in Seq(Fragment) /\ Len(rx') = Len(rx) + 1 /\ Len(rx) \in Nat
      /\ rx'[Len(rx) + 1] = Head(down)
      /\ \A i \in 1 .. Len(rx) : rx'[i] = rx[i]
  BY <1>1, <1>2, AppendProperties, LenProperties
<1>4. Dead => Dead'
  BY <1>2, <1>3 DEF Dead, NoLast
<1>5. ~Silent /\ \A d \in Calls : ~Asked(d)
  BY <1>1 DEF Silent, Asked
<1>6. ASSUME NEW d \in Calls, Answered(d) PROVE Answered(d)'
  <2>1. ~(rx = <<Part(d), End(d)>>)
    BY <1>1 DEF NoLast, End
  <2>2. NoQuery(up)' /\ Part(d) \in Fragment /\ End(d) \in Fragment
    BY <1>6 DEF Answered, NoQuery, Part, End, Fragment
  <2>3. CASE rx = <<>> /\ down = <<Part(d), End(d)>>
    <3>1. Head(down) = Part(d) /\ Tail(down) = <<End(d)>>
      BY <2>3, <2>2
    <3>2. rx' = <<Part(d)>> /\ down' = <<End(d)>>
      BY <2>3, <3>1, <2>2
    <3> QED
      BY <3>2, <2>2 DEF Answered, Part, End
  <2>4. CASE rx = <<Part(d)>> /\ down = <<End(d)>>
    <3>1. Head(down) = End(d) /\ Tail(down) = <<>>
      BY <2>4, <2>2
    <3>2. rx' = Append(<<Part(d)>>, End(d)) /\ down' = <<>>
      BY <2>4, <3>1
    <3>3. Len(rx') = 2 /\ rx'[1] = Part(d) /\ rx'[2] = End(d) /\ rx' \in Seq(Fragment)
      BY <1>3, <2>4, <3>1
    <3>4. rx' = <<rx'[1], rx'[2]>>
      BY <3>3, PairSeq
    <3> QED
      BY <3>2, <3>3, <3>4, <2>2 DEF Answered
  <2> QED
    BY <1>6, <2>1, <2>3, <2>4 DEF Answered
<1>7. LinkInv'
  BY <1>4, <1>5, <1>6 DEF Inv, LinkInv
<1>8. OwnAnswer'
  BY DEF Inv, OwnAnswer
<1> QED
  BY <1>7, <1>8 DEF Inv

\* The heart of the matter: the only line rx can hold is the reader's own.
LEMMA ReadReturnsInv ==
  ASSUME Inv, TypeOK', NEW c \in Calls, ReadReturns(c)
  PROVE  Inv'
<1> USE DEF ReadReturns, read_succeeds
<1>1. ~NoLast(rx)
  BY DEF has_line, NoLast
<1>2. Silent \/ Dead \/ Asked(c) \/ Answered(c)
  BY DEF Inv, LinkInv
<1>3. Answered(c)
  BY <1>1, <1>2 DEF Silent, Dead, Asked, NoLast
<1>4. rx = <<Part(c), End(c)>> /\ down = <<>> /\ NoQuery(up)
  BY <1>1, <1>3 DEF Answered, NoLast, Part
<1>5. line_length = 2
  <2>1. /\ 2 \in 1 .. Len(rx) /\ rx[2].last /\ \A i \in 1 .. 2 - 1 : ~rx[i].last
        /\ \A n \in 1 .. Len(rx) : rx[n].last => n = 2
    BY <1>4 DEF Part, End
  <2> QED
    BY <2>1 DEF line_length
<1>6. SubSeq(rx, 1, line_length) = AnswerTo(c) /\ rx' = <<>>
  <2>1. rx = AnswerTo(c) /\ Len(rx) = 2 /\ rx \in Seq(Fragment)
    BY <1>4 DEF AnswerTo, Part, End, Inv, TypeOK
  <2>2. SubSeq(rx, 1, 2) = rx
    BY <2>1, SubSeqFull
  <2>3. SubSeq(rx, 3, 2) = <<>>
    BY <2>1, SubSeqEmpty
  <2>4. rx' = SubSeq(rx, 2 + 1, 2)
    BY <2>1, <1>5 DEF line_taken
  <2> QED
    BY <2>1, <2>2, <2>3, <2>4, <1>5
<1>7. Silent'
  BY <1>4, <1>6 DEF Silent, NoQuery
<1>8. LinkInv'
  BY <1>6, <1>7, LeaveCalls DEF Inv, LinkInv
<1>9. OwnAnswer'
  BY <1>6 DEF Inv, TypeOK, OwnAnswer
<1> QED
  BY <1>8, <1>9 DEF Inv

\* A read that throws ends the call and leaves no open link behind that owes
\* an answer.
LEMMA ReadThrowsInv ==
  ASSUME Inv, TypeOK', NEW c \in Calls, ReadThrows(c)
  PROVE  Inv'
<1> USE DEF ReadThrows
<1>1. \A d \in Calls : pc'[d] # "reading"
  BY LeaveCalls DEF Inv
<1>2. OwnAnswer'
  BY DEF Inv, OwnAnswer
<1>3. CASE ~is_open /\ UNCHANGED linkVars
  <2>1. LinkInv'
    BY <1>1, <1>3 DEF Inv, LinkInv, linkVars
  <2> QED
    BY <1>2, <2>1 DEF Inv
<1>4. CASE read_fails
  <2>1. UNCHANGED linkVars /\ Dead
    BY <1>4 DEF read_fails, has_line, Dead, NoLast
  <2>2. LinkInv'
    BY <1>1, <2>1 DEF Inv, LinkInv, linkVars, Dead, NoLast
  <2> QED
    BY <1>2, <2>2 DEF Inv
<1>5. CASE read_times_out
  <2>1. LinkInv'
    BY <1>5 DEF LinkInv, read_times_out, close_on_timeout
  <2> QED
    BY <1>2, <2>1 DEF Inv
<1> QED
  BY <1>3, <1>4, <1>5

\* The instrument answers the oldest line, or does not.
LEMMA HandlesInv ==
  ASSUME Inv, TypeOK', InstrumentHandles, UNCHANGED callVars
  PROVE  Inv'
<1> USE DEF InstrumentHandles, callVars
<1>1. /\ up \in Seq(Line) /\ Len(up) \in Nat /\ Len(up) >= 1
      /\ up' \in Seq(Line) /\ Len(up') = Len(up) - 1
      /\ \A i \in 1 .. Len(up) - 1 : up'[i] = up[i + 1]
      /\ Head(up) = up[1] /\ Head(up) \in Line
  BY TailOf DEF Inv, TypeOK
<1>2. AnswerTo(Head(up).call) \in Seq(Fragment)
  BY <1>1 DEF AnswerTo, Fragment, Line
<1>3. NoQuery(up) => NoQuery(up') /\ down' = down
  BY <1>1 DEF NoQuery
<1>4. Silent => Silent'
  BY <1>3 DEF Silent
<1>5. ~Dead
  BY DEF Dead
<1>6. ASSUME NEW d \in Calls, Answered(d) PROVE Answered(d)'
  BY <1>3, <1>6 DEF Answered
<1>7. ASSUME NEW d \in Calls, Asked(d) PROVE (Silent \/ Asked(d) \/ Answered(d))'
  <2>1. CASE Len(up) = 1
    <3>1. up[1] = [call |-> d, query |-> TRUE] /\ NoQuery(up')
      BY <1>1, <1>7, <2>1 DEF Asked, NoQuery
    <3>2. CASE down' = down
      BY <1>7, <3>1, <3>2 DEF Asked, Silent
    <3>3. CASE down' = down \o AnswerTo(Head(up).call)
      <4>a. Head(up).call = d /\ down = <<>>
        BY <1>1, <1>7, <3>1 DEF Asked
      <4>b. AnswerTo(d) \in Seq(Fragment)
        BY <1>2, <4>a
      <4>1. down' = AnswerTo(d)
        BY <3>3, <4>a, <4>b, ConcatEmptySeq
      <4> QED
        BY <1>7, <3>1, <4>1 DEF Asked, Answered, AnswerTo, Part, End
    <3> QED
      BY <3>2, <3>3
  <2>2. CASE Len(up) # 1
    <3>1. ~up[1].query /\ Len(up) >= 2
      BY <1>1, <1>7, <2>2 DEF Asked
    <3>2. down' = down /\ rx' = rx
      BY <1>1, <3>1
    <3>3. up'[Len(up')] = up[Len(up)] /\ up' # <<>>
      BY <1>1, <3>1, LastOfTail
    <3>4. \A i \in 1 .. Len(up') - 1 : ~up'[i].query
      BY <1>1, <1>7, <3>1 DEF Asked
    <3> QED
      BY <1>7, <3>2, <3>3, <3>4 DEF Asked
  <2> QED
    BY <2>1, <2>2
<1>8. LinkInv'
  BY <1>4, <1>5, <1>6, <1>7 DEF Inv, LinkInv
<1>9. OwnAnswer'
  BY DEF Inv, OwnAnswer
<1> QED
  BY <1>8, <1>9 DEF Inv

\* The instrument closes the connection.
LEMMA DropsInv ==
  ASSUME Inv, TypeOK', InstrumentDrops, UNCHANGED callVars
  PROVE  Inv'
<1> USE DEF InstrumentDrops, callVars
<1>1. PICK n \in 0 .. Len(down) : down' = SubSeq(down, 1, n)
  OBVIOUS
<1>2. /\ down \in Seq(Fragment) /\ down' \in Seq(Fragment) /\ Len(down') = n
      /\ \A i \in 1 .. n : down'[i] = down[i]
  BY <1>1, Prefix DEF Inv, TypeOK
<1>3. ~Dead
  BY DEF Dead
<1>4. Silent \/ (\E d \in Calls : Asked(d)) => Dead'
  <2> SUFFICES ASSUME rx = <<>>, down = <<>> PROVE Dead'
    BY DEF Silent, Asked
  <2>1. n = 0 /\ Len(rx') = 0 /\ Len(down') = 0 /\ peer' = "gone"
    BY <1>2
  <2> QED
    BY <2>1 DEF Dead, NoLast
<1>5. ASSUME NEW d \in Calls, Answered(d) PROVE (Dead \/ Answered(d))'
  <2>1. rx' = rx /\ up' = up /\ peer' = "gone"
    OBVIOUS
  <2>2. CASE n = Len(down)
    <3>1. down' = down
      BY <1>1, <1>2, <2>2
    <3> QED
      BY <1>5, <2>1, <3>1 DEF Answered
  <2>3. CASE n # Len(down)
    <3>1. NoLast(down')
      BY <1>2, <1>5, <2>3 DEF Answered, NoLast, Part, End
    <3>2. NoLast(rx)
      BY <1>2, <1>5, <2>3 DEF Answered, NoLast, Part, End
    <3> QED
      BY <2>1, <3>1, <3>2 DEF Dead, NoLast
  <2> QED
    BY <2>2, <2>3
<1>6. LinkInv'
  BY <1>3, <1>4, <1>5 DEF Inv, LinkInv
<1>7. OwnAnswer'
  BY DEF Inv, OwnAnswer
<1> QED
  BY <1>6, <1>7 DEF Inv

\* Every step keeps the inductive invariant.
LEMMA NextInv ==
  ASSUME ClosesBeforeReopen
  PROVE  Inv /\ [Next]_vars => Inv'
<1> SUFFICES ASSUME Inv, [Next]_vars PROVE Inv'
  OBVIOUS
<1>1. TypeOK'
  BY NextType DEF Inv
<1>2. CASE Open
  BY <1>1, <1>2, OpenInv
<1>3. CASE Close
  BY <1>1, <1>3, CloseInv
<1>4. ASSUME NEW c \in Calls, (\E k \in Kinds : Call(c, k)) \/ Lock(c)
      PROVE  Inv'
  BY <1>1, <1>4, EnterInv
<1>5. ASSUME NEW c \in Calls, WriteThrows(c) \/ Write(c)
      PROVE  Inv'
  BY <1>1, <1>5, WriteThrowsInv, WriteInv
<1>6. ASSUME NEW c \in Calls, Receive(c) \/ ReadReturns(c) \/ ReadThrows(c)
      PROVE  Inv'
  BY <1>1, <1>6, ReceiveInv, ReadReturnsInv, ReadThrowsInv
<1>7. CASE Instrument
  BY <1>1, <1>7, HandlesInv, DropsInv DEF Instrument
<1>8. CASE UNCHANGED vars
  BY <1>8 DEF vars, linkVars, callVars, Inv, TypeOK, LinkInv, OwnAnswer, Silent,
              Dead, Asked, Answered, NoLast, NoQuery
<1> QED
  BY <1>2, <1>3, <1>4, <1>5, <1>6, <1>7, <1>8 DEF Next

\* A query returns the answer to its own command, whatever the number of
\* calls, threads and connections, wherever timeouts, dropped connections and
\* unanswered queries fall, if the program calls close() before it reopens a
\* timed-out link (query(), run_operation(), close()).
THEOREM QueryReturnsOwnAnswer ==
  ASSUME ClosesBeforeReopen
  PROVE  Spec => []OwnAnswer
<1>1. Inv /\ [Next]_vars => Inv'
  BY NextInv
<1>2. Inv => OwnAnswer
  BY DEF Inv
<1> QED
  BY <1>1, <1>2, InitInv, PTL DEF Spec

\* Under the same condition the link is in step whenever no call is running:
\* a timeout, an error or a rejected multiline command leaves no answer behind
\* for a later query to pick up.
THEOREM LinkStaysInStep ==
  ASSUME ClosesBeforeReopen
  PROVE  Spec => []InStep
<1>1. Inv /\ [Next]_vars => Inv'
  BY NextInv
<1>2. Inv => InStep
  BY ScpiClientAssumption DEF Inv, TypeOK, LinkInv, InStep, Silent, Dead, NoQuery
<1> QED
  BY <1>1, <1>2, InitInv, PTL DEF Spec

-----------------------------------------------------------------------------
(* The client implements RequestReply.                                     *)

\* The refinement mapping of ScpiClient!Atomic.
PhaseOf(p) ==
    CASE p = "new" -> "new"
      [] p = "locking" -> "waiting"
      [] p \in {"writing", "reading"} -> "active"
      [] p = "done" -> "ended"
ReplyTo(c, a) ==
    IF a = <<>> THEN Nobody ELSE IF a = AnswerTo(c) THEN c ELSE "another call's answer"

phases == [c \in Calls |-> PhaseOf(pc[c])]
replies == [c \in Calls |-> ReplyTo(c, answer[c])]

\* The mapped phase of a call is never undefined: the four cases are apart.
LEMMA PhaseValues ==
  /\ PhaseOf("new") = "new" /\ PhaseOf("locking") = "waiting"
  /\ PhaseOf("writing") = "active" /\ PhaseOf("reading") = "active"
  /\ PhaseOf("done") = "ended"
  BY DEF PhaseOf

\* A call whose answer is its own, or that has none, has a reply RequestReply
\* allows.
LEMMA ReplyValues ==
  ASSUME OwnAnswer, NEW c \in Calls
  PROVE  replies[c] \in {c, Nobody}
  BY DEF OwnAnswer, replies, ReplyTo

\* The idle client is the idle RequestReply.
LEMMA InitRefines == Init => Atomic!Init
<1> SUFFICES ASSUME Init PROVE Atomic!Init
  OBVIOUS
<1>1. phases = [c \in Calls |-> "new"]
  BY PhaseValues DEF Init, phases
<1>2. replies = [c \in Calls |-> Nobody]
  BY DEF Init, replies, ReplyTo
<1> QED
  BY <1>1, <1>2 DEF Atomic!Init, phases, replies, PhaseOf, ReplyTo

\* One call moves from phase to phase and keeps its reply: the others are
\* where they were.
LEMMA OnePhase ==
  ASSUME TypeOK, NEW c \in Calls, NEW p, pc' = [pc EXCEPT ![c] = p]
  PROVE  phases' = [phases EXCEPT ![c] = PhaseOf(p)]
  BY DEF TypeOK, phases

\* Calling is Start, taking the mutex is Enter: no other call is active then.
LEMMA EnterRefines ==
  ASSUME TypeOK, NEW c \in Calls, (\E k \in Kinds : Call(c, k)) \/ Lock(c)
  PROVE  Atomic!Start(c) \/ Atomic!Enter(c)
<1>1. replies' = replies
  BY DEF Call, Lock, replies
<1>2. CASE \E k \in Kinds : Call(c, k)
  <2>1. pc[c] = "new" /\ pc' = [pc EXCEPT ![c] = "locking"]
    BY <1>2 DEF Call
  <2>2. phases[c] = "new" /\ phases' = [phases EXCEPT ![c] = "waiting"]
    BY <2>1, OnePhase, PhaseValues DEF phases
  <2> QED
    BY <1>1, <2>2 DEF Atomic!Start, phases, replies, PhaseOf, ReplyTo
<1>3. CASE Lock(c)
  <2>1. phases[c] = "waiting" /\ phases' = [phases EXCEPT ![c] = "active"]
    BY <1>3, OnePhase, PhaseValues DEF Lock, phases
  <2>2. ASSUME NEW d \in Calls PROVE phases[d] # "active"
    <3>1. pc[d] \in {"new", "locking", "done"}
      BY <1>3, ScpiClientAssumption DEF Lock, TypeOK
    <3> QED
      BY <3>1, PhaseValues DEF phases
  <2> QED
    BY <1>1, <2>1, <2>2 DEF Atomic!Enter, phases, replies, PhaseOf, ReplyTo
<1> QED
  BY <1>2, <1>3

\* Leaving with its own answer or none is Finish.
LEMMA LeaveRefines ==
  ASSUME TypeOK, OwnAnswer', NEW c \in Calls, pc[c] \in {"writing", "reading"}, Leave(c),
         \A d \in Calls \ {c} : answer'[d] = answer[d]
  PROVE  Atomic!Finish(c)
<1>1. phases[c] = "active" /\ phases' = [phases EXCEPT ![c] = "ended"]
  <2>1. phases[c] = "active"
    BY PhaseValues DEF phases
  <2>2. phases' = [phases EXCEPT ![c] = PhaseOf("done")]
    BY OnePhase DEF Leave
  <2> QED
    BY <2>1, <2>2, PhaseValues
<1>2. replies' = [replies EXCEPT ![c] = replies'[c]]
  BY DEF replies
<1>3. replies'[c] \in {c, Nobody}
  BY DEF OwnAnswer, replies, ReplyTo
<1>4. \E r \in {c, Nobody} : replies' = [replies EXCEPT ![c] = r]
  BY <1>2, <1>3
<1> QED
  BY <1>1, <1>4 DEF Atomic!Finish, phases, replies, PhaseOf, ReplyTo

\* A step that leaves the program counters and the answers alone, or moves a
\* call from writing to reading, is a step RequestReply does not see.
LEMMA StutterRefines ==
  ASSUME TypeOK, answer' = answer,
         \/ pc' = pc
         \/ \E c \in Calls : pc[c] = "writing" /\ pc' = [pc EXCEPT ![c] = "reading"]
  PROVE  UNCHANGED Atomic!vars
<1>1. replies' = replies
  BY DEF replies
<1>2. phases' = phases
  <2>1. CASE pc' = pc
    BY <2>1 DEF phases
  <2>2. ASSUME NEW c \in Calls, pc[c] = "writing", pc' = [pc EXCEPT ![c] = "reading"]
        PROVE  phases' = phases
    BY <2>2, PhaseValues DEF TypeOK, phases
  <2> QED
    BY <2>1, <2>2
<1> QED
  BY <1>1, <1>2 DEF Atomic!vars, phases, replies, PhaseOf, ReplyTo

\* Every step of the client is a step of RequestReply or a stutter.
LEMMA NextRefines ==
  ASSUME TypeOK, OwnAnswer', [Next]_vars
  PROVE  [Atomic!Next]_(Atomic!vars)
<1>1. CASE Open \/ Close \/ Instrument \/ UNCHANGED vars
  BY <1>1, StutterRefines DEF Open, Close, Instrument, vars, callVars
<1>2. ASSUME NEW c \in Calls, (\E k \in Kinds : Call(c, k)) \/ Lock(c)
      PROVE  Atomic!Next
  BY <1>2, EnterRefines DEF Atomic!Next
<1>3. ASSUME NEW c \in Calls, WriteThrows(c) \/ ReadReturns(c) \/ ReadThrows(c)
      PROVE  Atomic!Next
  <2>1. pc[c] \in {"writing", "reading"} /\ Leave(c)
    BY <1>3 DEF WriteThrows, ReadReturns, ReadThrows
  <2>2. \A d \in Calls \ {c} : answer'[d] = answer[d]
    BY <1>3 DEF WriteThrows, ReadReturns, ReadThrows, TypeOK
  <2> QED
    BY <2>1, <2>2, LeaveRefines DEF Atomic!Next
<1>4. ASSUME NEW c \in Calls, Write(c)
      PROVE  Atomic!Next \/ UNCHANGED Atomic!vars
  <2>1. pc[c] = "writing" /\ answer' = answer
    BY <1>4 DEF Write
  <2>2. CASE kind[c] = "send"
    BY <1>4, <2>1, <2>2, LeaveRefines DEF Write, Atomic!Next
  <2>3. CASE kind[c] # "send"
    BY <1>4, <2>1, <2>3, StutterRefines DEF Write
  <2> QED
    BY <2>2, <2>3
<1>5. ASSUME NEW c \in Calls, Receive(c)
      PROVE  UNCHANGED Atomic!vars
  BY <1>5, StutterRefines DEF Receive, callVars
<1> QED
  BY <1>1, <1>2, <1>3, <1>4, <1>5 DEF Next

\* The client implements RequestReply, for any number of calls, threads and
\* connections, if the program closes a timed-out link before it reopens it:
\* "A mutex makes each send/query atomic so a query's response cannot
\* interleave with another thread's command" (scpi_client.hpp).
THEOREM ClientImplementsRequestReply ==
  ASSUME ClosesBeforeReopen
  PROVE  Spec => ImplementsRequestReply
<1>1. Inv /\ [Next]_vars => Inv'
  BY NextInv
<1>2. Inv => TypeOK /\ OwnAnswer
  BY DEF Inv
<1>3. TypeOK /\ OwnAnswer' /\ [Next]_vars => [Atomic!Next]_(Atomic!vars)
  BY NextRefines
<1> QED
  BY <1>1, <1>2, <1>3, InitInv, InitRefines, PTL
     DEF Spec, ImplementsRequestReply, Atomic!Spec
=============================================================================
