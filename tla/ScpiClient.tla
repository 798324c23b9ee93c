----------------------------- MODULE ScpiClient -----------------------------
(***************************************************************************)
(* ScpiClient over TcpTransport: any number of threads call send() and     *)
(* query(); each call takes the client's mutex, writes its line and, for a *)
(* query, reads one line back.  A call is an invocation; which thread      *)
(* makes it does not matter to the client.                                 *)
(*                                                                         *)
(* open() and close() take no lock.  The model lets them happen between    *)
(* calls only: while an operation runs they would race with it on the      *)
(* socket and on rx, and every caller in the repository serialises them.   *)
(***************************************************************************)
EXTENDS TcpTransport

CONSTANTS Nobody,              \* not a call: a free mutex, no answer
          ClosesBeforeReopen   \* the program calls close() before it reopens

ASSUME ScpiClientAssumption ==
    /\ Nobody \notin Calls
    /\ ClosesBeforeReopen \in BOOLEAN

\* A setting command, a query, and a command that has a line terminator in it
\* with a query on either side.
Kinds == {"send", "query", "multiline"}

VARIABLES pc,       \* where each call is
          kind,     \* what it sends
          mutex,    \* the call that holds mutex_
          answer    \* the line a query returned, as its fragments

callVars == <<pc, kind, mutex, answer>>
vars == <<linkVars, callVars>>

Init ==
    /\ LinkInit
    /\ pc = [c \in Calls |-> "new"]
    /\ kind = [c \in Calls |-> "send"]
    /\ mutex = Nobody
    /\ answer = [c \in Calls |-> <<>>]

-----------------------------------------------------------------------------
(* The program opens and closes the link.                                  *)

Open ==
    /\ mutex = Nobody
    /\ ClosesBeforeReopen => socket # "timed_out"
    /\ connect_succeeds \/ connect_fails
    /\ UNCHANGED callVars

Close ==
    /\ mutex = Nobody
    /\ close
    /\ UNCHANGED callVars

-----------------------------------------------------------------------------
(* send() and query().                                                     *)

Call(c, k) ==
    /\ pc[c] = "new"
    /\ pc' = [pc EXCEPT ![c] = "locking"]
    /\ kind' = [kind EXCEPT ![c] = k]
    /\ UNCHANGED <<linkVars, mutex, answer>>

\* Mutant: the mutex is not there.
Lock_none(c) ==
    /\ pc[c] = "locking"
    /\ mutex' = c
    /\ pc' = [pc EXCEPT ![c] = "writing"]
    /\ UNCHANGED <<linkVars, kind, answer>>

Lock(c) ==
    /\ pc[c] = "locking"
    /\ mutex = Nobody
    /\ mutex' = c
    /\ pc' = [pc EXCEPT ![c] = "writing"]
    /\ UNCHANGED <<linkVars, kind, answer>>

\* The call leaves the function, by return or by exception, and with it the
\* scope of the lock.
Leave(c) ==
    /\ pc' = [pc EXCEPT ![c] = "done"]
    /\ mutex' = Nobody

LinesOf(c) ==
    CASE kind[c] = "send"      -> <<[call |-> c, query |-> FALSE]>>
      [] kind[c] = "query"     -> <<[call |-> c, query |-> TRUE]>>
      [] kind[c] = "multiline" -> <<[call |-> c, query |-> TRUE],
                                    [call |-> c, query |-> TRUE]>>

\* Mutant: any command is a single line.
has_line_terminator_never(c) == FALSE

has_line_terminator(c) == kind[c] = "multiline"

\* write_line() throws std::invalid_argument, write() ConnectionError or
\* TimeoutError.
WriteThrows(c) ==
    /\ pc[c] = "writing"
    /\ \/ has_line_terminator(c) /\ UNCHANGED linkVars
       \/ ~has_line_terminator(c) /\ ~is_open /\ UNCHANGED linkVars
       \/ ~has_line_terminator(c) /\ write_fails
       \/ ~has_line_terminator(c) /\ write_times_out(LinesOf(c))
    /\ Leave(c)
    /\ UNCHANGED <<kind, answer>>

\* send() is done; query() reads on.  A multiline command would be a query.
Write(c) ==
    /\ pc[c] = "writing"
    /\ ~has_line_terminator(c)
    /\ write_succeeds(LinesOf(c))
    /\ IF kind[c] = "send"
       THEN Leave(c)
       ELSE /\ pc' = [pc EXCEPT ![c] = "reading"]
            /\ UNCHANGED mutex
    /\ UNCHANGED <<kind, answer>>

Receive(c) ==
    /\ pc[c] = "reading"
    /\ receive
    /\ UNCHANGED callVars

ReadReturns(c) ==
    /\ pc[c] = "reading"
    /\ read_succeeds
    /\ answer' = [answer EXCEPT ![c] = SubSeq(rx, 1, line_length)]
    /\ Leave(c)
    /\ UNCHANGED kind

\* Mutant: a read has no timeout.
ReadThrows_no_timeout(c) ==
    /\ pc[c] = "reading"
    /\ \/ ~is_open /\ UNCHANGED linkVars
       \/ read_fails
    /\ Leave(c)
    /\ UNCHANGED <<kind, answer>>

ReadThrows(c) ==
    /\ pc[c] = "reading"
    /\ \/ ~is_open /\ UNCHANGED linkVars
       \/ read_fails
       \/ read_times_out
    /\ Leave(c)
    /\ UNCHANGED <<kind, answer>>

Instrument ==
    /\ InstrumentHandles \/ InstrumentDrops
    /\ UNCHANGED callVars

Next ==
    \/ Open
    \/ Close
    \/ \E c \in Calls :
          \/ \E k \in Kinds : Call(c, k)
          \/ Lock(c)
          \/ WriteThrows(c)
          \/ Write(c)
          \/ Receive(c)
          \/ ReadReturns(c)
          \/ ReadThrows(c)
    \/ Instrument

\* A running call keeps running: run_for() returns when the operation
\* completes and at the latest when the timeout expires.  A waiting call gets
\* the mutex once the finitely many others have let go of it.
Fairness ==
    \A c \in Calls :
        /\ WF_vars(Lock(c))
        /\ WF_vars(WriteThrows(c) \/ Write(c))
        /\ WF_vars(ReadReturns(c) \/ ReadThrows(c))

Spec == Init /\ [][Next]_vars
FairSpec == Spec /\ Fairness

-----------------------------------------------------------------------------
(* Properties.                                                             *)

\* Every variable keeps its type, and a call is inside the locked part of
\* send() or query() exactly when it holds the mutex.
TypeOK ==
    /\ socket \in {"open", "closed", "timed_out"}
    /\ rx \in Seq(Fragment)
    /\ peer \in {"up", "gone"}
    /\ up \in Seq(Line)
    /\ down \in Seq(Fragment)
    /\ opens \in 0 .. MaxOpens
    /\ pc \in [Calls -> {"new", "locking", "writing", "reading", "done"}]
    /\ kind \in [Calls -> Kinds]
    /\ mutex \in Calls \union {Nobody}
    /\ answer \in [Calls -> Seq(Fragment)]
    /\ \A c \in Calls : pc[c] \in {"writing", "reading"} <=> mutex = c

\* A query returns the answer to its own command, whole and with nothing
\* before it: "a late response must never be mistaken for the answer to the
\* next query" (query(), run_operation()).
OwnAnswer ==
    \A c \in Calls : answer[c] # <<>> => answer[c] = AnswerTo(c)

\* Between calls an open link whose peer is there is in step: no answer is on
\* its way and none will be, so no later query can be "one response behind"
\* (send()'s contract).
InStep ==
    mutex = Nobody /\ is_open /\ peer = "up"
        => /\ rx = <<>>
           /\ down = <<>>
           /\ \A i \in 1 .. Len(up) : ~up[i].query

\* Every send() and query() ends, answered or not: no call waits for ever for
\* an instrument that does not answer or for the mutex (run_operation()).
CallsEnd ==
    \A c \in Calls : pc[c] = "locking" ~> pc[c] = "done"

\* The client implements the atomic request and reply its header promises.
\* An answer that is not a call's own whole answer maps to no value at all.
Atomic ==
    INSTANCE RequestReply WITH
        phase <- [c \in Calls |-> CASE pc[c] = "new" -> "new"
                                    [] pc[c] = "locking" -> "waiting"
                                    [] pc[c] \in {"writing", "reading"} -> "active"
                                    [] pc[c] = "done" -> "ended"],
        reply <- [c \in Calls |-> IF answer[c] = <<>> THEN Nobody
                                  ELSE IF answer[c] = AnswerTo(c) THEN c
                                  ELSE "another call's answer"]

ImplementsRequestReply == Atomic!Spec
=============================================================================
