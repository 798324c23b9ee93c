------------------------- MODULE NativeHandleProofs -------------------------
(***************************************************************************)
(* What a handle of the C API and its .NET wrapper tell their caller, for  *)
(* every capacity of the instrument's queue, every first buffer, any       *)
(* number of buffers and any number of calls.  The properties speak of the *)
(* call that ended last, so HandleInv numbers the calls: while a loop is   *)
(* running its call is newer than the one whose outcome is kept.  It also  *)
(* says what the loops have collected before they end, and RetryInv what a *)
(* query that was repeated still shows of what it took.                    *)
(***************************************************************************)
EXTENDS NativeHandle, ErrorQueueProofs

HandleTypes ==
    /\ calls \in Nat
    /\ tries \in Nat
    /\ outcome.call \in Nat
    /\ busy \in {"none", "check", "errors", "data", "read", "status"}

\* The outcome is that of an earlier call as long as a loop is running.
CallOrder ==
    /\ outcome.call <= calls
    /\ busy # "none" => outcome.call < calls

\* throw_if_error() holds every entry it took, and a query that has made no
\* exchange has taken none.
LoopCollects ==
    /\ busy = "check" => drained = taken
    /\ busy = "errors" /\ tries = 0 => taken = <<>>

HandleInv ==
    /\ Inv
    /\ HandleTypes
    /\ CallOrder
    /\ LoopCollects
    /\ OwnMessage
    /\ LatestCheckTells
    /\ OneExchangeLosesNothing

\* A fresh handle.
LEMMA HandleInitInv == HandleInit => HandleInv
<1> SUFFICES ASSUME HandleInit PROVE HandleInv
  OBVIOUS
<1>1. Inv
  BY InitInv DEF HandleInit
<1>2. HandleTypes /\ CallOrder /\ LoopCollects
  BY DEF HandleInit, HandleTypes, CallOrder, LoopCollects, NoOutcome
<1>3. OwnMessage /\ LatestCheckTells /\ OneExchangeLosesNothing
  BY DEF HandleInit, OwnMessage, LatestCheckTells, OneExchangeLosesNothing, NoOutcome
<1> QED
  BY <1>1, <1>2, <1>3 DEF HandleInv

\* Whatever a call does, the instrument's queue takes one of its own steps or
\* none.
LEMMA HandleQueueStep ==
  ASSUME [HandleNext]_vars
  PROVE  [Next]_errorQueueVars
<1>1. CASE norma_write
  BY <1>1 DEF norma_write, Next
<1>2. CASE norma_prepare
  BY <1>2 DEF norma_prepare, Next
<1>3. CASE CheckReads
  BY <1>3 DEF CheckReads, Next
<1>4. CASE QueryErrors
  BY <1>4 DEF QueryErrors, Next
<1>5. CASE NullArgument \/ LocalCall \/ norma_close \/ norma_identify
  BY <1>5 DEF NullArgument, LocalCall, norma_close, norma_identify
<1>6. CASE norma_check_errors \/ CheckEnds \/ norma_read_data
  BY <1>6 DEF norma_check_errors, CheckEnds, norma_read_data
<1>7. CASE (\E op \in {"errors", "data"} : Query(op)) \/ QueryData \/ QueryFails
  BY <1>7 DEF Query, QueryData, QueryFails
<1>8. CASE \E op \in {"read", "status"} : ReadData(op)
  BY <1>8 DEF ReadData
<1>9. CASE UNCHANGED vars
  BY <1>9 DEF vars
<1> QED
  BY <1>1, <1>2, <1>3, <1>4, <1>5, <1>6, <1>7, <1>8, <1>9 DEF HandleNext

\* How a call ends: with a text of its own, under its own number.
Ended ==
    /\ outcome'.call = calls'
    /\ busy' = "none"
    /\ outcome'.status # "OK" => outcome'.message = calls'

\* A lambda that returns.
LEMMA Returns ==
  ASSUME NEW op, returns(op)
  PROVE  Ended /\ outcome'.op = op /\ outcome'.status = "OK"
  BY DEF returns, Ended

\* A call that fails after its text was stored.
LEMMA Fails ==
  ASSUME NEW op, NEW status, last_error' = calls', fails(op, status)
  PROVE  Ended /\ outcome'.op = op /\ outcome'.status = status
  BY DEF fails, Ended

\* An exchange that fails.
LEMMA ExchangeEnds ==
  ASSUME NEW op, NEW answered, ExchangeFails(op, answered)
  PROVE  /\ Ended /\ outcome'.op = op
         /\ outcome'.status \in {"PROTOCOL", "TIMEOUT", "CONNECTION"}
<1>1. last_error' = calls'
  BY DEF ExchangeFails, stores_text
<1> QED
  BY <1>1, Fails DEF ExchangeFails

\* A call that is neither a check nor a query ends: it says nothing about the
\* entries it took.
LEMMA OtherCallEnds ==
  ASSUME HandleInv, Inv', Ended, calls' \in Nat, tries' \in Nat,
         outcome'.op \notin {"check", "errors"}
  PROVE  HandleInv'
<1>1. HandleTypes' /\ CallOrder' /\ LoopCollects'
  BY DEF Ended, HandleTypes, CallOrder, LoopCollects
<1>2. OwnMessage' /\ LatestCheckTells' /\ OneExchangeLosesNothing'
  BY DEF Ended, OwnMessage, LatestCheckTells, OneExchangeLosesNothing
<1> QED
  BY <1>1, <1>2 DEF HandleInv

\* A loop begins or goes on: its call is newer than the outcome, which stays.
LEMMA LoopRuns ==
  ASSUME HandleInv, Inv', UNCHANGED outcome,
         calls' \in Nat, tries' \in Nat, outcome.call < calls',
         busy' \in {"check", "errors", "data", "read", "status"}, LoopCollects'
  PROVE  HandleInv'
<1>1. HandleTypes' /\ CallOrder'
  BY DEF HandleInv, HandleTypes, CallOrder
<1>2. OwnMessage'
  BY DEF HandleInv, OwnMessage
<1>3. LatestCheckTells' /\ OneExchangeLosesNothing'
  BY DEF LatestCheckTells, OneExchangeLosesNothing
<1> QED
  BY <1>1, <1>2, <1>3 DEF HandleInv

\* Calls of one exchange, or none.
LEMMA SingleCallInv ==
  ASSUME HandleInv, Inv',
         \/ NullArgument \/ LocalCall \/ norma_close
         \/ norma_write \/ norma_prepare \/ norma_identify
  PROVE  HandleInv'
<1>1. /\ calls \in Nat /\ calls' = calls + 1 /\ tries' = tries /\ tries \in Nat
      /\ busy = "none"
  BY DEF HandleInv, HandleTypes, NullArgument, LocalCall, norma_close, norma_write,
         norma_prepare, norma_identify, Begins
<1>2. CASE NullArgument
  <2>1. /\ outcome'.op = "null" /\ outcome'.call = calls' /\ busy' = "none"
    BY <1>1, <1>2 DEF NullArgument
  <2>2. HandleTypes' /\ CallOrder' /\ LoopCollects'
    BY <1>1, <2>1 DEF HandleTypes, CallOrder, LoopCollects
  <2>3. OwnMessage' /\ LatestCheckTells' /\ OneExchangeLosesNothing'
    BY <2>1 DEF OwnMessage, LatestCheckTells, OneExchangeLosesNothing
  <2> QED
    BY <2>2, <2>3 DEF HandleInv
<1>3. CASE LocalCall \/ norma_close \/ norma_write \/ norma_prepare \/ norma_identify
  <2>1. Ended /\ outcome'.op \in {"local", "write", "prepare", "identify"}
    <3>1. CASE LocalCall \/ norma_close
      BY <3>1, Returns DEF LocalCall, norma_close
    <3>2. CASE norma_write
      <4>1. CASE returns("write")
        BY <4>1, Returns
      <4>2. CASE ExchangeFails("write", FALSE)
        BY <4>2, ExchangeEnds
      <4>3. CASE stores_text /\ fails("write", "INVALID_ARGUMENT")
        BY <4>3, Fails DEF stores_text
      <4> QED
        BY <3>2, <4>1, <4>2, <4>3 DEF norma_write
    <3>3. CASE norma_prepare
      BY <3>3, Returns, ExchangeEnds DEF norma_prepare
    <3>4. CASE norma_identify
      BY <3>4, Returns, ExchangeEnds DEF norma_identify
    <3> QED
      BY <1>3, <3>1, <3>2, <3>3, <3>4
  <2> QED
    BY <1>1, <2>1, OtherCallEnds
<1> QED
  BY <1>2, <1>3

\* A loop begins with the next call.
LEMMA LoopBeginsInv ==
  ASSUME HandleInv, Inv',
         \/ norma_check_errors
         \/ \E op \in {"errors", "data"} : Query(op)
         \/ \E op \in {"read", "status"} : ReadData(op)
  PROVE  HandleInv'
<1>1. calls' \in Nat /\ outcome.call < calls'
  BY DEF HandleInv, HandleTypes, CallOrder, norma_check_errors, Query, ReadData, Begins
<1>2. UNCHANGED outcome /\ tries' \in Nat
  BY DEF HandleInv, HandleTypes, norma_check_errors, Query, ReadData
<1>3. busy' \in {"check", "errors", "data", "read", "status"}
  BY DEF norma_check_errors, Query, ReadData
<1>4. LoopCollects'
  BY DEF LoopCollects, norma_check_errors, Query, ReadData
<1> QED
  BY <1>1, <1>2, <1>3, <1>4, LoopRuns

\* throw_if_error() reads one more entry.
LEMMA CheckReadsInv ==
  ASSUME HandleInv, Inv', CheckReads
  PROVE  HandleInv'
<1>1. /\ busy = "check" /\ busy' = "check" /\ UNCHANGED <<calls, outcome, tries>>
      /\ drained' = Append(drained, Head(errors)) /\ taken' = Append(taken, Head(errors))
  BY DEF CheckReads, Continues
<1>2. LoopCollects'
  BY <1>1 DEF HandleInv, LoopCollects
<1>3. calls \in Nat /\ tries \in Nat /\ outcome.call < calls
  BY <1>1 DEF HandleInv, HandleTypes, CallOrder
<1> QED
  BY <1>1, <1>2, <1>3, LoopRuns

\* norma_check_errors() ends: what it tells is what it took.
LEMMA CheckEndsInv ==
  ASSUME HandleInv, Inv', CheckEnds
  PROVE  HandleInv'
<1>1. /\ calls' = calls /\ calls \in Nat /\ tries' = tries /\ tries \in Nat
      /\ drained = taken /\ taken' = taken /\ errors' = errors
  BY DEF HandleInv, HandleTypes, LoopCollects, CheckEnds, Continues, errorQueueVars
<1>2. /\ Ended /\ outcome'.op = "check"
      /\ outcome'.status = "OK" => taken = <<>> /\ errors = <<>>
      /\ outcome'.status = "SCPI" =>
            taken # <<>> /\ last_scpi_code' = taken[1].code /\ errors = <<>>
  <2>1. CASE ExchangeFails("check", TRUE)
    BY <2>1, ExchangeEnds
  <2>2. CASE errors = <<>> /\ drained = <<>> /\ returns("check")
    BY <1>1, <2>2, Returns
  <2>3. CASE errors = <<>> /\ drained # <<>> /\ stores_code(drained) /\ fails("check", "SCPI")
    BY <1>1, <2>3, Fails DEF stores_code
  <2> QED
    BY <2>1, <2>2, <2>3 DEF CheckEnds, throw_if_error
<1>3. HandleTypes' /\ CallOrder' /\ LoopCollects'
  BY <1>1, <1>2 DEF Ended, HandleTypes, CallOrder, LoopCollects
<1>4. OwnMessage' /\ LatestCheckTells' /\ OneExchangeLosesNothing'
  BY <1>1, <1>2 DEF Ended, OwnMessage, LatestCheckTells, OneExchangeLosesNothing
<1> QED
  BY <1>3, <1>4 DEF HandleInv

\* What an answer leads to: it is returned, it is too long for the last
\* buffer, or the loop goes on.
LEMMA AnswerLeads ==
  ASSUME NEW length, NEW entries, norma_query(length, entries)
  PROVE  \/ Ended /\ outcome'.op = busy /\ outcome'.status = "OK" /\ shown' = entries
         \/ Ended /\ outcome'.op = busy /\ outcome'.status = "BUFFER_TOO_SMALL"
         \/ UNCHANGED <<busy, outcome>>
<1>1. CASE length <= Room(tries')
  BY <1>1, Returns DEF norma_query
<1>2. CASE ~(length <= Room(tries'))
  <2>1. last_error' = calls'
    BY <1>2 DEF norma_query, stores_text
  <2> QED
    BY <1>2, <2>1, Fails DEF norma_query
<1> QED
  BY <1>1, <1>2

\* The query of the error queue: after its first exchange, taken is the
\* answer.
LEMMA QueryErrorsInv ==
  ASSUME HandleInv, Inv', QueryErrors
  PROVE  HandleInv'
<1>1. /\ busy = "errors" /\ calls' = calls /\ calls \in Nat /\ tries \in Nat
      /\ tries' = tries + 1 /\ taken' = taken \o errors /\ outcome.call < calls
  BY DEF HandleInv, HandleTypes, CallOrder, QueryErrors, Continues
<1>2. tries' = 1 => taken' = errors
  <2>1. errors \in Seq(Entry)
    BY DEF HandleInv, Inv, TypeOK
  <2>2. ASSUME tries' = 1 PROVE taken' = errors
    <3>1. taken = <<>>
      BY <1>1, <2>2 DEF HandleInv, LoopCollects
    <3> QED
      BY <1>1, <2>1, <3>1
  <2> QED
    BY <2>2
<1>3. norma_query(Len(errors), errors)
  BY DEF QueryErrors
<1>4. CASE UNCHANGED <<busy, outcome>>
  <2>1. LoopCollects'
    BY <1>1, <1>4 DEF LoopCollects
  <2> QED
    BY <1>1, <1>4, <2>1, LoopRuns
<1>5. CASE /\ Ended /\ outcome'.op = busy
           /\ \/ outcome'.status = "OK" /\ shown' = errors
              \/ outcome'.status = "BUFFER_TOO_SMALL"
  <2>1. HandleTypes' /\ CallOrder' /\ LoopCollects'
    BY <1>1, <1>5 DEF Ended, HandleTypes, CallOrder, LoopCollects
  <2>2. OwnMessage' /\ LatestCheckTells' /\ OneExchangeLosesNothing'
    BY <1>1, <1>2, <1>5 DEF Ended, OwnMessage, LatestCheckTells, OneExchangeLosesNothing
  <2> QED
    BY <2>1, <2>2 DEF HandleInv
<1> QED
  BY <1>3, <1>4, <1>5, AnswerLeads

\* Any other query.
LEMMA QueryDataInv ==
  ASSUME HandleInv, Inv', QueryData
  PROVE  HandleInv'
<1>1. /\ busy = "data" /\ calls' = calls /\ calls \in Nat /\ tries \in Nat
      /\ tries' = tries + 1 /\ outcome.call < calls
  BY DEF HandleInv, HandleTypes, CallOrder, QueryData, Continues
<1>2. PICK length \in 1..(Room(MaxTries) + 1) : norma_query(length, <<>>)
  BY DEF QueryData
<1>3. CASE UNCHANGED <<busy, outcome>>
  <2>1. LoopCollects'
    BY <1>1, <1>3 DEF LoopCollects
  <2> QED
    BY <1>1, <1>3, <2>1, LoopRuns
<1>4. CASE Ended /\ outcome'.op = busy
  BY <1>1, <1>4, OtherCallEnds
<1> QED
  BY <1>2, <1>3, <1>4, AnswerLeads

\* A query that fails says nothing about the entries.
LEMMA QueryFailsInv ==
  ASSUME HandleInv, Inv', QueryFails
  PROVE  HandleInv'
<1>1. /\ calls' = calls /\ calls \in Nat /\ tries' = tries /\ tries \in Nat
      /\ busy \in {"errors", "data"}
  BY DEF HandleInv, HandleTypes, QueryFails, Continues
<1>2. Ended /\ outcome'.op = busy /\ outcome'.status # "OK"
  <2>1. CASE ExchangeFails(busy, FALSE)
    BY <2>1, ExchangeEnds
  <2>2. CASE stores_text /\ fails(busy, "INVALID_ARGUMENT")
    BY <2>2, Fails DEF stores_text
  <2> QED
    BY <2>1, <2>2 DEF QueryFails
<1>3. HandleTypes' /\ CallOrder' /\ LoopCollects'
  BY <1>1, <1>2 DEF Ended, HandleTypes, CallOrder, LoopCollects
<1>4. OwnMessage' /\ LatestCheckTells' /\ OneExchangeLosesNothing'
  BY <1>1, <1>2 DEF Ended, OwnMessage, LatestCheckTells, OneExchangeLosesNothing
<1> QED
  BY <1>3, <1>4 DEF HandleInv

\* Reading values: the call ends, or is made again with room for the count.
LEMMA ReadDataInv ==
  ASSUME HandleInv, Inv', norma_read_data
  PROVE  HandleInv'
<1>0. calls' = calls /\ busy \in {"read", "status"} /\ (tries' = tries \/ tries' = tries + 1)
  BY DEF norma_read_data, Continues
<1>1. /\ calls' = calls /\ calls \in Nat /\ tries' \in Nat
      /\ busy \in {"read", "status"} /\ outcome.call < calls
  BY <1>0 DEF HandleInv, HandleTypes, CallOrder
<1>2. \/ Ended /\ outcome'.op = busy
      \/ UNCHANGED <<busy, outcome>>
  <2>1. CASE returns(busy)
    BY <2>1, Returns
  <2>2. CASE stores_text /\ fails(busy, "BUFFER_TOO_SMALL")
    BY <2>2, Fails DEF stores_text
  <2>3. CASE ExchangeFails(busy, TRUE)
    BY <2>3, ExchangeEnds
  <2> QED
    BY <2>1, <2>2, <2>3 DEF norma_read_data
<1>3. CASE UNCHANGED <<busy, outcome>>
  <2>1. LoopCollects'
    BY <1>1, <1>3 DEF LoopCollects
  <2> QED
    BY <1>1, <1>3, <2>1, LoopRuns
<1>4. CASE Ended /\ outcome'.op = busy
  BY <1>1, <1>4, OtherCallEnds
<1> QED
  BY <1>2, <1>3, <1>4

\* The invariant is inductive.
LEMMA HandleNextInv == HandleInv /\ [HandleNext]_vars => HandleInv'
<1> SUFFICES ASSUME HandleInv, [HandleNext]_vars PROVE HandleInv'
  OBVIOUS
<1>0. Inv'
  BY HandleQueueStep, NextInv DEF HandleInv
<1>1. CASE \/ NullArgument \/ LocalCall \/ norma_close
           \/ norma_write \/ norma_prepare \/ norma_identify
  BY <1>0, <1>1, SingleCallInv
<1>2. CASE \/ norma_check_errors
           \/ \E op \in {"errors", "data"} : Query(op)
           \/ \E op \in {"read", "status"} : ReadData(op)
  BY <1>0, <1>2, LoopBeginsInv
<1>3. CASE CheckReads
  BY <1>0, <1>3, CheckReadsInv
<1>4. CASE CheckEnds
  BY <1>0, <1>4, CheckEndsInv
<1>5. CASE QueryErrors
  BY <1>0, <1>5, QueryErrorsInv
<1>6. CASE QueryData
  BY <1>0, <1>6, QueryDataInv
<1>7. CASE QueryFails
  BY <1>0, <1>7, QueryFailsInv
<1>8. CASE norma_read_data
  BY <1>0, <1>8, ReadDataInv
<1>9. CASE UNCHANGED vars
  BY <1>9 DEF vars, errorQueueVars, handleVars, HandleInv, Inv, TypeOK, NoSilentLoss,
              EsrOrOverflow, Before, Newest, HandleTypes, CallOrder, LoopCollects,
              OwnMessage, LatestCheckTells, OneExchangeLosesNothing
<1> QED
  BY <1>1, <1>2, <1>3, <1>4, <1>5, <1>6, <1>7, <1>8, <1>9 DEF HandleNext

\* The code stays until a check ends in SCPI, and is then that of the oldest
\* entry this check took: every other way to end a call leaves it alone.
LEMMA CodeStays ==
  ASSUME HandleInv, last_scpi_code = scpi, [HandleNext]_vars
  PROVE  last_scpi_code' = scpi'
<1>1. CASE CheckEnds
  <2>1. drained = taken
    BY <1>1 DEF HandleInv, LoopCollects, CheckEnds, Continues
  <2>2. scpi' = IF outcome'.status = "SCPI" THEN taken[1].code ELSE scpi
    BY <1>1 DEF CheckEnds
  <2>3. CASE ExchangeFails("check", TRUE)
    BY <2>2, <2>3, ExchangeEnds DEF ExchangeFails, stores_text
  <2>4. CASE returns("check")
    BY <2>2, <2>4 DEF returns
  <2>5. CASE stores_code(drained) /\ fails("check", "SCPI")
    BY <2>1, <2>2, <2>5 DEF stores_code, fails
  <2> QED
    BY <1>1, <2>3, <2>4, <2>5 DEF CheckEnds, throw_if_error
<1>2. CASE NullArgument \/ LocalCall \/ norma_close
  BY <1>2 DEF NullArgument, LocalCall, norma_close, returns
<1>3. CASE norma_write \/ norma_prepare \/ norma_identify
  BY <1>3 DEF norma_write, norma_prepare, norma_identify, returns, ExchangeFails, stores_text
<1>4. CASE norma_check_errors \/ CheckReads
  BY <1>4 DEF norma_check_errors, CheckReads
<1>5. CASE \/ \E op \in {"errors", "data"} : Query(op)
           \/ \E op \in {"read", "status"} : ReadData(op)
  BY <1>5 DEF Query, ReadData
<1>6. CASE QueryErrors \/ QueryData
  <2>1. /\ scpi' = scpi
        /\ \E length, entries : norma_query(length, entries)
    BY <1>6 DEF QueryErrors, QueryData
  <2>2. last_scpi_code' = last_scpi_code
    BY <2>1 DEF norma_query, returns, stores_text
  <2> QED
    BY <2>1, <2>2
<1>7. CASE QueryFails \/ norma_read_data
  BY <1>7 DEF QueryFails, norma_read_data, returns, ExchangeFails, stores_text
<1>8. CASE UNCHANGED vars
  BY <1>8 DEF vars, handleVars
<1> QED
  BY <1>1, <1>2, <1>3, <1>4, <1>5, <1>6, <1>7, <1>8 DEF HandleNext

\* A failed call is described by its own text, however the calls follow each
\* other (guarded(), norma_last_error(), ThrowIfError()).
THEOREM FailureHasOwnMessage == HandleSpec => []OwnMessage
<1>1. HandleInv => OwnMessage
  BY DEF HandleInv
<1> QED
  BY <1>1, HandleInitInv, HandleNextInv, PTL DEF HandleSpec

\* norma_check_errors() answers OK only for a queue that was empty, and SCPI
\* with the code of the oldest entry; no entry is left behind it, whatever the
\* capacity of the queue, and norma_last_scpi_code() keeps answering that code
\* until the next SCPI (norma_check_errors(), throw_if_error(), guarded()).
THEOREM CheckTellsWhatItTook == HandleSpec => []CheckErrorsTells
<1> DEFINE CodeIsLatest == last_scpi_code = scpi
<1>1. HandleInit => CodeIsLatest
  BY DEF HandleInit
<1>2. HandleInv /\ CodeIsLatest /\ [HandleNext]_vars => CodeIsLatest'
  BY CodeStays
<1>3. HandleInv /\ CodeIsLatest => CheckErrorsTells
  BY DEF HandleInv, CheckErrorsTells
<1> HIDE DEF CodeIsLatest
<1> QED
  BY <1>1, <1>2, <1>3, HandleInitInv, HandleNextInv, PTL DEF HandleSpec

\* A query of the error queue loses entries only by calling again: after one
\* exchange it returns all of them, for every size of the first buffer
\* (NormaInstrument.Query(), norma_query()).
THEOREM FirstBufferLosesNothing == HandleSpec => []OneExchangeLosesNothing
<1>1. HandleInv => OneExchangeLosesNothing
  BY DEF HandleInv
<1> QED
  BY <1>1, HandleInitInv, HandleNextInv, PTL DEF HandleSpec

\* Under the calls of a handle the instrument's queue behaves as ErrorQueue
\* says, so what is proved of every client holds for a client of the C API.
THEOREM HandleKeepsQueue == HandleSpec => Spec
<1>1. HandleInit => Init
  BY DEF HandleInit
<1>2. [HandleNext]_vars => [Next]_errorQueueVars
  BY HandleQueueStep
<1> QED
  BY <1>1, <1>2, PTL DEF HandleSpec, Spec

-----------------------------------------------------------------------------
(* The retries of Query() and ReadData().                                  *)

\* What a query of the error queue that returns OK does not return was in the
\* answers before its last one: it shows the whole of the last answer, and the
\* entries it lost are older than all it shows.
LosesEarlierAnswersOnly ==
    outcome.op = "errors" /\ outcome.status = "OK" /\ outcome.call = calls /\ busy = "none" =>
        \E lost \in Seq(Entry) : taken = lost \o shown

\* A loop that is running may make another exchange: Query() never asks for a
\* buffer above MaxQueryBufferBytes, ReadData() never calls a third time.
RetriesBounded ==
    /\ busy \in {"errors", "data"} => tries < MaxTries
    /\ busy \in {"read", "status"} => tries <= 1

RetryInv == taken \in Seq(Entry) /\ LosesEarlierAnswersOnly /\ RetriesBounded

\* A call begins, or a loop that is not a query's goes on or ends: what the
\* latest query returned is no longer of the latest call.
LEMMA RetryOther ==
  ASSUME HandleInv, HandleInv', RetryInv, taken' \in Seq(Entry), RetriesBounded',
         \/ busy' # "none"
         \/ outcome'.op # "errors"
         \/ outcome'.status # "OK"
  PROVE  RetryInv'
  BY DEF RetryInv, LosesEarlierAnswersOnly

\* The instrument answers with its errors.
LEMMA RetryErrors ==
  ASSUME HandleInv, HandleInv', RetryInv, QueryErrors
  PROVE  RetryInv'
<1> USE NativeHandleAssumption
<1>0. /\ errors \in Seq(Entry) /\ taken \in Seq(Entry) /\ tries \in Nat /\ tries < MaxTries
      /\ busy = "errors" /\ taken' = taken \o errors /\ tries' = tries + 1
  BY DEF HandleInv, Inv, TypeOK, HandleTypes, RetryInv, RetriesBounded, QueryErrors, Continues
<1>1. taken' \in Seq(Entry)
  BY <1>0
<1> DEFINE fit == Len(errors) <= Room(tries')
<1>2. norma_query(Len(errors), errors)
  BY DEF QueryErrors
<1>3. CASE fit
  <2>1. shown' = errors /\ busy' = "none"
    BY <1>2, <1>3 DEF norma_query, returns
  <2> QED
    BY <1>0, <1>1, <2>1 DEF RetryInv, LosesEarlierAnswersOnly, RetriesBounded
<1>4. CASE ~fit /\ tries' = MaxTries
  <2>1. fails(busy, "BUFFER_TOO_SMALL")
    BY <1>2, <1>4 DEF norma_query
  <2>2. busy' = "none" /\ outcome'.status # "OK"
    BY <2>1 DEF fails
  <2> QED
    BY <1>1, <2>2 DEF RetryInv, LosesEarlierAnswersOnly, RetriesBounded
<1>5. CASE ~fit /\ tries' # MaxTries
  <2>1. busy' = "errors"
    BY <1>0, <1>2, <1>5 DEF norma_query
  <2> QED
    BY <1>0, <1>1, <1>5, <2>1 DEF RetryInv, LosesEarlierAnswersOnly, RetriesBounded
<1> QED
  BY <1>3, <1>4, <1>5

\* The instrument answers another query.
LEMMA RetryData ==
  ASSUME HandleInv, HandleInv', RetryInv, QueryData
  PROVE  RetryInv'
<1> USE NativeHandleAssumption
<1>0. /\ taken' \in Seq(Entry) /\ tries \in Nat /\ tries < MaxTries
      /\ busy = "data" /\ tries' = tries + 1
  BY DEF HandleInv, HandleTypes, RetryInv, RetriesBounded, QueryData, Continues
<1>1. PICK length \in 1..(Room(MaxTries) + 1) : norma_query(length, <<>>)
  BY DEF QueryData
<1> DEFINE fit == length <= Room(tries')
<1>2. CASE fit
  <2>1. busy' = "none" /\ outcome'.op = "data"
    BY <1>0, <1>1, <1>2 DEF norma_query, returns
  <2> QED
    BY <1>0, <2>1 DEF RetryInv, LosesEarlierAnswersOnly, RetriesBounded
<1>3. CASE ~fit /\ tries' = MaxTries
  <2>1. busy' = "none" /\ outcome'.op = "data"
    BY <1>0, <1>1, <1>3 DEF norma_query, fails
  <2> QED
    BY <1>0, <2>1 DEF RetryInv, LosesEarlierAnswersOnly, RetriesBounded
<1>4. CASE ~fit /\ tries' # MaxTries
  <2>1. busy' = "data"
    BY <1>0, <1>1, <1>4 DEF norma_query
  <2> QED
    BY <1>0, <1>4, <2>1 DEF RetryInv, LosesEarlierAnswersOnly, RetriesBounded
<1> QED
  BY <1>2, <1>3, <1>4

\* Every call and every step of a loop keeps the bound on the retries.
LEMMA RetryNextInv ==
  ASSUME HandleInv, HandleInv', RetryInv, [HandleNext]_vars
  PROVE  RetryInv'
<1> USE NativeHandleAssumption
<1>0. /\ taken \in Seq(Entry) /\ errors \in Seq(Entry) /\ tries \in Nat
      /\ <<>> \in Seq(Entry) /\ outcome.call <= calls /\ outcome.call \in Nat /\ calls \in Nat
  BY DEF RetryInv, HandleInv, Inv, TypeOK, HandleTypes, CallOrder
<1>1. CASE NullArgument \/ LocalCall \/ norma_close
  <2>1. busy' = "none" /\ taken' = taken /\ outcome'.op # "errors"
    BY <1>1 DEF NullArgument, LocalCall, norma_close, Begins, returns
  <2> QED
    BY <1>0, <2>1, RetryOther DEF RetriesBounded
<1>2. CASE norma_write \/ norma_prepare \/ norma_identify
  <2>1. busy' = "none" /\ taken' = taken /\ outcome'.op # "errors"
    <3>1. /\ taken' = taken
          /\ \E op \in {"write", "prepare", "identify"} :
                \/ returns(op)
                \/ \E answered \in BOOLEAN : ExchangeFails(op, answered)
                \/ stores_text /\ fails(op, "INVALID_ARGUMENT")
      BY <1>2 DEF norma_write, norma_prepare, norma_identify
    <3>2. PICK op \in {"write", "prepare", "identify"} :
             \/ returns(op)
             \/ \E answered \in BOOLEAN : ExchangeFails(op, answered)
             \/ stores_text /\ fails(op, "INVALID_ARGUMENT")
      BY <3>1
    <3>3. Ended /\ outcome'.op = op
      <4>1. CASE returns(op)
        BY <4>1, Returns
      <4>2. CASE \E answered \in BOOLEAN : ExchangeFails(op, answered)
        BY <4>2, ExchangeEnds
      <4>3. CASE stores_text /\ fails(op, "INVALID_ARGUMENT")
        BY <4>3, Fails DEF stores_text
      <4> QED
        BY <3>2, <4>1, <4>2, <4>3
    <3> QED
      BY <3>1, <3>3 DEF Ended
  <2> QED
    BY <1>0, <2>1, RetryOther DEF RetriesBounded
<1>3. CASE norma_check_errors
  <2>1. busy' = "check" /\ taken' = <<>>
    BY <1>3 DEF norma_check_errors
  <2> QED
    BY <1>0, <2>1, RetryOther DEF RetriesBounded
<1>4. CASE CheckReads
  <2>1. busy' = "check" /\ taken' = Append(taken, Head(errors)) /\ errors # <<>>
    BY <1>4 DEF CheckReads, Continues, SystErr
  <2>2. taken' \in Seq(Entry)
    BY <1>0, <2>1
  <2> QED
    BY <2>1, <2>2, RetryOther DEF RetriesBounded
<1>5. CASE CheckEnds
  <2>1. busy' = "none" /\ taken' = taken /\ outcome'.op # "errors"
    <3>1. CASE returns("check")
      BY <1>5, <3>1, Returns DEF CheckEnds, Ended
    <3>2. CASE stores_code(drained) /\ fails("check", "SCPI")
      <4>1. last_error' = calls'
        BY <3>2 DEF stores_code
      <4>2. Ended /\ outcome'.op = "check"
        BY <3>2, <4>1, Fails
      <4>3. taken' = taken
        BY <1>5 DEF CheckEnds
      <4> QED
        BY <4>2, <4>3 DEF Ended
    <3>3. CASE ExchangeFails("check", TRUE)
      <4>1. Ended /\ outcome'.op = "check"
        BY <3>3, ExchangeEnds
      <4>2. taken' = taken
        BY <1>5 DEF CheckEnds
      <4> QED
        BY <4>1, <4>2 DEF Ended
    <3> QED
      <4>1. throw_if_error \/ ExchangeFails("check", TRUE)
        BY <1>5 DEF CheckEnds
      <4>2. CASE throw_if_error
        BY <4>2, <3>1, <3>2 DEF throw_if_error
      <4> QED
        BY <4>1, <4>2, <3>3
  <2> QED
    BY <1>0, <2>1, RetryOther DEF RetriesBounded
<1>6. ASSUME NEW op \in {"errors", "data"}, Query(op) PROVE RetryInv'
  <2>1. busy' \in {"errors", "data"} /\ taken' = <<>> /\ tries' = 0
    BY <1>6 DEF Query
  <2> QED
    BY <1>0, <2>1, RetryOther DEF RetriesBounded
<1>7. CASE QueryFails
  <2>1. busy' = "none" /\ taken' = taken /\ outcome'.status # "OK"
    <3>1. CASE ExchangeFails(busy, FALSE)
      BY <1>7, <3>1, ExchangeEnds DEF QueryFails, Ended
    <3>2. CASE stores_text /\ fails(busy, "INVALID_ARGUMENT")
      BY <1>7, <3>2, Fails DEF QueryFails, stores_text, Ended
    <3> QED
      BY <1>7, <3>1, <3>2 DEF QueryFails
  <2> QED
    BY <1>0, <2>1, RetryOther DEF RetriesBounded
<1>8. ASSUME NEW op \in {"read", "status"}, ReadData(op) PROVE RetryInv'
  <2>1. busy' \in {"read", "status"} /\ taken' = taken /\ tries' \in {0, 1}
    BY <1>8 DEF ReadData
  <2> QED
    BY <1>0, <2>1, RetryOther DEF RetriesBounded
<1>9. CASE norma_read_data
  <2>0. busy \in {"read", "status"} /\ taken' = taken
    BY <1>9 DEF norma_read_data, Continues
  <2>1. \/ busy' = "none" /\ outcome'.op = busy
        \/ busy' = busy /\ tries' = 1
    <3>1. CASE returns(busy)
      BY <3>1, Returns DEF Ended
    <3>2. CASE stores_text /\ fails(busy, "BUFFER_TOO_SMALL")
      BY <3>2, Fails DEF stores_text, Ended
    <3>3. CASE ExchangeFails(busy, TRUE)
      BY <3>3, ExchangeEnds DEF Ended
    <3>4. CASE tries = 0 /\ tries' = tries + 1 /\ UNCHANGED <<busy, outcome>>
      BY <1>0, <3>4
    <3> QED
      BY <1>9, <3>1, <3>2, <3>3, <3>4 DEF norma_read_data
  <2> QED
    BY <1>0, <2>0, <2>1, RetryOther DEF RetriesBounded
<1>10. CASE UNCHANGED vars
  BY <1>10 DEF vars, handleVars, RetryInv, LosesEarlierAnswersOnly, RetriesBounded
<1> QED
  BY <1>1, <1>2, <1>3, <1>4, <1>5, <1>6, <1>7, <1>8, <1>9, <1>10, RetryErrors, RetryData
     DEF HandleNext

\* A query that had to be repeated loses whole earlier answers and nothing of
\* the last one, for every size and number of buffers; and a loop never goes
\* past its last buffer (NormaInstrument.Query(), ReadData()).
THEOREM RetriesLoseEarlierOnly == HandleSpec => [](LosesEarlierAnswersOnly /\ RetriesBounded)
<1>1. HandleInit => RetryInv
  BY NativeHandleAssumption DEF HandleInit, RetryInv, LosesEarlierAnswersOnly, RetriesBounded,
     NoOutcome
<1>2. HandleInv /\ HandleInv' /\ RetryInv /\ [HandleNext]_vars => RetryInv'
  BY RetryNextInv
<1>3. RetryInv => LosesEarlierAnswersOnly /\ RetriesBounded
  BY DEF RetryInv
<1> QED
  BY <1>1, <1>2, <1>3, HandleInitInv, HandleNextInv, PTL DEF HandleSpec
=============================================================================
