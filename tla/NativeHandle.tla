---------------------------- MODULE NativeHandle ----------------------------
(***************************************************************************)
(* One norma_instrument handle of the C API and NormaInstrument, its .NET  *)
(* wrapper, on an instrument with an error queue.  guarded() turns an      *)
(* exception into a status and leaves its text and its SCPI code in the    *)
(* handle; the wrapper fetches the text in a second call.  The wrapper's   *)
(* Query() and ReadData() call again with a larger buffer when the answer  *)
(* did not fit.                                                            *)
(*                                                                         *)
(* Calls on a handle come one after the other, as both layers require.     *)
(* A text is the number of the call that stored it, the length of an       *)
(* answer its number of entries.                                           *)
(***************************************************************************)
EXTENDS ErrorQueue

CONSTANTS FirstBuffer,  \* length that fits into InitialQueryBufferBytes
          MaxTries,     \* buffers up to MaxQueryBufferBytes, 11 in the code
          MaxCalls      \* bound on the calls on one handle

ASSUME NativeHandleAssumption ==
    /\ FirstBuffer \in Nat \ {0}
    /\ MaxTries \in Nat \ {0}
    /\ MaxCalls \in Nat

NoOutcome == [op |-> "none", status |-> "OK", call |-> 0, message |-> 0]

VARIABLES link,            \* the instrument's connection
          last_error,      \* the call whose text the handle holds, 0 when none
          last_scpi_code,  \* of the handle
          busy,            \* the operation whose loop is running, or "none"
          tries,           \* exchanges the loop has made
          drained,         \* what throw_if_error() has read
          calls,           \* calls so far; the number of the current one
          outcome,         \* how the last call ended
          taken,           \* history: the entries the latest drain or query
                           \* made the instrument give up
          shown,           \* history: the entries the latest query returned
          scpi             \* history: the code of the oldest entry that the latest
                           \* check which ended in SCPI had taken

handleVars == <<link, last_error, last_scpi_code, busy, tries, drained, calls, outcome,
                taken, shown, scpi>>
vars == <<errorQueueVars, handleVars>>

\* A handle that norma_connect() has just made.
HandleInit ==
    /\ Init
    /\ link = "open"
    /\ last_error = 0 /\ last_scpi_code = NoError
    /\ busy = "none" /\ tries = 0 /\ drained = <<>>
    /\ calls = 0 /\ outcome = NoOutcome
    /\ taken = <<>> /\ shown = <<>> /\ scpi = NoError

-----------------------------------------------------------------------------
(* guarded(), norma_last_error().                                          *)

\* The lambda returns NORMA_OK: the handle keeps its text and its code.
returns(op) ==
    /\ outcome' = [op |-> op, status |-> "OK", call |-> calls', message |-> 0]
    /\ busy' = "none"
    /\ UNCHANGED <<last_error, last_scpi_code>>

\* The call ends with a status, and the caller asks norma_last_error() next:
\* ThrowIfError() in the wrapper.
fails(op, status) ==
    /\ outcome' = [op |-> op, status |-> status, call |-> calls', message |-> last_error']
    /\ busy' = "none"

\* Mutant: a catch clause that returns its status only.
stores_text_never == UNCHANGED <<last_error, last_scpi_code>>

\* Every catch clause but ScpiError's, and the two truncations, store the
\* text only.
stores_text ==
    /\ last_error' = calls'
    /\ UNCHANGED last_scpi_code

\* Mutant: the code of the newest error is stored.
stores_code_newest(entries) ==
    /\ last_error' = calls'
    /\ last_scpi_code' = entries[Len(entries)].code

\* ScpiError's clause: code() is that of its first entry.
stores_code(entries) ==
    /\ last_error' = calls'
    /\ last_scpi_code' = entries[1].code

\* The ways an exchange with the instrument fails.  A timeout or a lost
\* connection leaves the link closed, an answer that cannot be parsed does
\* not.
ExchangeFails(op, answered) ==
    /\ stores_text
    /\ \/ /\ link = "open" /\ answered
          /\ fails(op, "PROTOCOL")
          /\ UNCHANGED link
       \/ /\ link = "open"
          /\ \E status \in {"TIMEOUT", "CONNECTION"} : fails(op, status)
          /\ link' = "closed"
       \/ /\ link = "closed"
          /\ fails(op, "CONNECTION")
          /\ UNCHANGED link

Begins ==
    /\ busy = "none"
    /\ calls < MaxCalls
    /\ calls' = calls + 1

Continues(loops) ==
    /\ busy \in loops
    /\ UNCHANGED calls

-----------------------------------------------------------------------------
(* Calls of one exchange, or none.                                         *)

\* A null pointer or a size of 0: the function returns before guarded().
NullArgument ==
    /\ Begins
    /\ outcome' = [op |-> "null", status |-> "INVALID_ARGUMENT", call |-> calls',
                   message |-> last_error]
    /\ UNCHANGED <<errorQueueVars, link, last_error, last_scpi_code, busy, tries, drained,
                   taken, shown, scpi>>

\* norma_is_open(), norma_set_timeout().
LocalCall ==
    /\ Begins
    /\ returns("local")
    /\ UNCHANGED <<errorQueueVars, link, tries, drained, taken, shown, scpi>>

norma_close ==
    /\ Begins
    /\ link' = "closed"
    /\ returns("local")
    /\ UNCHANGED <<errorQueueVars, tries, drained, taken, shown, scpi>>

\* The instrument accepts the command, rejects it after the call has returned,
\* or never gets it.
norma_write ==
    /\ Begins
    /\ \/ /\ link = "open"
          /\ UNCHANGED errorQueueVars \/ \E code \in Codes : push_error(code)
          /\ returns("write")
          /\ UNCHANGED link
       \/ ExchangeFails("write", FALSE) /\ UNCHANGED errorQueueVars
       \/ /\ stores_text /\ fails("write", "INVALID_ARGUMENT")
          /\ UNCHANGED <<errorQueueVars, link>>
    /\ UNCHANGED <<tries, drained, taken, shown, scpi>>

\* *CLS, two settings and a drain of what they raised; it may fail before or
\* after the *CLS.
norma_prepare ==
    /\ Begins
    /\ \/ link = "open" /\ clear_status /\ returns("prepare") /\ UNCHANGED link
       \/ ExchangeFails("prepare", TRUE) /\ link = "open" /\ clear_status
       \/ ExchangeFails("prepare", FALSE) /\ UNCHANGED errorQueueVars
    /\ UNCHANGED <<tries, drained, taken, shown, scpi>>

norma_identify ==
    /\ Begins
    /\ \/ link = "open" /\ returns("identify") /\ UNCHANGED link
       \/ ExchangeFails("identify", TRUE)
    /\ UNCHANGED <<errorQueueVars, tries, drained, taken, shown, scpi>>

-----------------------------------------------------------------------------
(* norma_check_errors(): throw_if_error() reads until there is nothing     *)
(* left.  The queue is shorter than the limit of read_all_errors().        *)

norma_check_errors ==
    /\ Begins
    /\ busy' = "check"
    /\ drained' = <<>> /\ taken' = <<>>
    /\ UNCHANGED <<errorQueueVars, link, last_error, last_scpi_code, tries, outcome,
                   shown, scpi>>

CheckReads ==
    /\ Continues({"check"})
    /\ link = "open"
    /\ SystErr
    /\ drained' = Append(drained, Head(errors))
    /\ taken' = Append(taken, Head(errors))
    /\ UNCHANGED <<link, last_error, last_scpi_code, busy, tries, outcome, shown, scpi>>

throw_if_error ==
    IF drained = <<>>
    THEN returns("check")
    ELSE stores_code(drained) /\ fails("check", "SCPI")

CheckEnds ==
    /\ Continues({"check"})
    /\ \/ /\ link = "open" /\ errors = <<>>
          /\ throw_if_error
          /\ UNCHANGED link
       \/ ExchangeFails("check", TRUE)
    /\ scpi' = IF outcome'.status = "SCPI" THEN taken[1].code ELSE scpi
    /\ UNCHANGED <<errorQueueVars, tries, drained, taken, shown>>

-----------------------------------------------------------------------------
(* NormaInstrument.Query() and ReadData().                                 *)

\* What a buffer holds: each is twice the size of the one before.
Room(n) == FirstBuffer * 2^(n - 1)

\* Query("SYST:ERR:ALL?"), and any other query ("data").
Query(op) ==
    /\ Begins
    /\ busy' = op
    /\ tries' = 0 /\ taken' = <<>> /\ shown' = <<>>
    /\ UNCHANGED <<errorQueueVars, link, last_error, last_scpi_code, drained, outcome, scpi>>

\* Mutant: the answer is returned as far as the buffer goes.
norma_query_cuts(length, entries) ==
    /\ returns(busy)
    /\ shown' = IF Len(entries) <= Room(tries') THEN entries
                ELSE SubSeq(entries, 1, Room(tries'))

\* What norma_query() and the loop around it make of an answer: the loop goes
\* on to the next buffer, and throws when there is none.
norma_query(length, entries) ==
    IF length <= Room(tries')
    THEN /\ shown' = entries
         /\ returns(busy)
    ELSE /\ shown' = <<>>
         /\ stores_text
         /\ IF tries' = MaxTries
            THEN fails(busy, "BUFFER_TOO_SMALL")
            ELSE UNCHANGED <<busy, outcome>>

\* The instrument answers; its queue is empty then, whether the answer fits
\* into the buffer or not.
QueryErrors ==
    /\ Continues({"errors"})
    /\ link = "open"
    /\ tries' = tries + 1
    /\ IF errors = <<>> THEN UNCHANGED errorQueueVars ELSE SystErrAll
    /\ taken' = taken \o errors
    /\ norma_query(Len(errors), errors)
    /\ UNCHANGED <<link, drained, scpi>>

QueryData ==
    /\ Continues({"data"})
    /\ link = "open"
    /\ tries' = tries + 1
    /\ \E length \in 1..(Room(MaxTries) + 1) : norma_query(length, <<>>)
    /\ UNCHANGED <<errorQueueVars, link, drained, taken, scpi>>

\* The exchange fails, or the query holds a second line.
QueryFails ==
    /\ Continues({"errors", "data"})
    /\ \/ ExchangeFails(busy, FALSE)
       \/ /\ tries = 0
          /\ stores_text /\ fails(busy, "INVALID_ARGUMENT")
          /\ UNCHANGED link
    /\ UNCHANGED <<errorQueueVars, tries, drained, taken, shown, scpi>>

\* ReadData(), and a C caller of norma_read_data_with_status(), which has the
\* one attempt.
ReadData(op) ==
    /\ Begins
    /\ busy' = op
    /\ tries' = IF op = "read" THEN 0 ELSE 1
    /\ UNCHANGED <<errorQueueVars, link, last_error, last_scpi_code, drained, outcome,
                   taken, shown, scpi>>

\* Values that do not fit are counted, and the second call has the capacity
\* for that count; more may have been configured by then.
norma_read_data ==
    /\ Continues({"read", "status"})
    /\ \/ link = "open" /\ returns(busy) /\ UNCHANGED <<link, tries>>
       \/ /\ link = "open"
          /\ tries' = tries + 1
          /\ stores_text
          /\ IF tries = 0
             THEN UNCHANGED <<busy, outcome>>
             ELSE fails(busy, "BUFFER_TOO_SMALL")
          /\ UNCHANGED link
       \/ ExchangeFails(busy, TRUE) /\ UNCHANGED tries
    /\ UNCHANGED <<errorQueueVars, drained, taken, shown, scpi>>

HandleNext ==
    \/ NullArgument
    \/ LocalCall
    \/ norma_close
    \/ norma_write
    \/ norma_prepare
    \/ norma_identify
    \/ norma_check_errors
    \/ CheckReads
    \/ CheckEnds
    \/ \E op \in {"errors", "data"} : Query(op)
    \/ QueryErrors
    \/ QueryData
    \/ QueryFails
    \/ \E op \in {"read", "status"} : ReadData(op)
    \/ norma_read_data

HandleSpec == HandleInit /\ [][HandleNext]_vars

-----------------------------------------------------------------------------
(* Properties.                                                             *)

\* A failed call that got as far as guarded() is described by its own text,
\* not by that of an earlier failure.
OwnMessage ==
    outcome.status # "OK" /\ outcome.op # "null" => outcome.message = outcome.call

\* What the latest norma_check_errors() tells of the instrument.
LatestCheckTells ==
    outcome.op = "check" /\ outcome.call = calls /\ busy = "none" =>
        /\ outcome.status = "OK" => taken = <<>> /\ errors = <<>>
        /\ outcome.status = "SCPI" =>
              /\ taken # <<>>
              /\ last_scpi_code = taken[1].code
              /\ errors = <<>>

\* norma_check_errors() tells what it took from the instrument: OK when there
\* was nothing, SCPI and the code of the oldest entry otherwise; either way the
\* queue is empty then.  The code stays that of the most recent SCPI on the
\* handle, whatever calls have succeeded or failed for another reason since.
CheckErrorsTells ==
    /\ LatestCheckTells
    /\ last_scpi_code = scpi

\* A query of the error queue that returns after one exchange returns every
\* entry the instrument gave up.
OneExchangeLosesNothing ==
    outcome.op = "errors" /\ outcome.status = "OK" /\ outcome.call = calls
        /\ busy = "none" /\ tries = 1 => shown = taken

\* NormaInstrument.cs: Query() "returns the response line".  What the
\* instrument gave up for it is in what it returns.
QueryLosesNothing ==
    outcome.op = "errors" /\ outcome.status = "OK" /\ outcome.call = calls
        /\ busy = "none" => shown = taken
=============================================================================
