--------------------------- MODULE DesktopSession ---------------------------
(***************************************************************************)
(* The desktop application: InstrumentSession, whose gate serialises the   *)
(* native calls of all views, and the view models that use it.  Every      *)
(* command is an async method on the UI thread.  It runs in pieces, one    *)
(* from each await to the next, with other methods' pieces in between;     *)
(* native calls run on the thread pool meanwhile.                          *)
(*                                                                         *)
(* A command that is running cannot be started again (AsyncRelayCommand),  *)
(* but the poll timer starts a read of its own at each tick.  The gate, a  *)
(* SemaphoreSlim with asynchronous waiters, is the queue of the methods    *)
(* that wait for it, its holder first.                                     *)
(***************************************************************************)
EXTENDS Naturals, Sequences

CONSTANTS Polls,      \* reads the poll timer may have under way at once
          Functions,  \* function lists that can be configured
          None,
          MaxClicks   \* bound on what the user does

ASSUME DesktopAssumption ==
    /\ MaxClicks \in Nat
    /\ None \notin Functions
    /\ Polls \intersect {"connect", "disconnect", "once", "send"} = {}
    /\ None \notin Polls \union {"connect", "disconnect", "once", "send"}

Readers == {"once"} \union Polls
Methods == {"connect", "disconnect", "send"} \union Readers
Handles == 1..MaxClicks
NoRows == [names |-> None, values |-> None, disturbed |-> FALSE]

VARIABLES gate,         \* _gate: its holder and then those that wait
          instrument,   \* _instrument, 0 for null
          link,         \* of every handle: "none", "open", "dead", "disposed"
          IsConnected,
          ui,           \* the method the UI thread is in, or None
          pc,           \* where a method is
          held,         \* the handle a method works with, a local variable
          result,       \* of the call a method has made
          command,      \* what the console sends
          names,        \* of a read: the answer to FUNC?, None before it
          values,       \* of a read: the functions DATA? had values of
          functions,    \* the function list of the instrument
          Rows,         \* what the measurement table shows
          IsPolling,
          readInProgress,
          clicks,       \* what the user has done so far
          disturbed     \* history, of a read: the list changed after FUNC?

sessionVars == <<gate, instrument, link, IsConnected>>
locals == <<held, result, command, names, values, disturbed>>
viewVars == <<Rows, IsPolling, readInProgress>>
vars == <<sessionVars, ui, pc, locals, functions, viewVars, clicks>>

DesktopInit ==
    /\ gate = <<>> /\ instrument = 0 /\ IsConnected = FALSE
    /\ link = [h \in Handles |-> "none"]
    /\ ui = None
    /\ pc = [m \in Methods |-> "idle"]
    /\ held = [m \in Methods |-> 0]
    /\ result = [m \in Methods |-> "none"]
    /\ command = None
    /\ names = [r \in Readers |-> None] /\ values = [r \in Readers |-> None]
    /\ functions \in Functions
    /\ Rows = NoRows
    /\ IsPolling = FALSE /\ readInProgress = FALSE
    /\ clicks = 0
    /\ disturbed = [r \in Readers |-> FALSE]

-----------------------------------------------------------------------------
(* The pieces of a method: at the end of one the UI thread is free again,  *)
(* or it goes on with the next one where an await finds its task complete. *)

Goes(m, place) ==
    /\ pc' = [pc EXCEPT ![m] = place]
    /\ ui' = m

Yields(m, place) ==
    /\ pc' = [pc EXCEPT ![m] = place]
    /\ ui' = None

Ends(m) == Yields(m, "idle")

\* On the thread pool: the task of the method is complete.
Completes(m) ==
    /\ pc[m] = "native"
    /\ pc' = [pc EXCEPT ![m] = "back"]
    /\ UNCHANGED ui

-----------------------------------------------------------------------------
(* InstrumentSession.                                                      *)

\* await _gate.WaitAsync(): the method goes on at once when the gate is free.
Waits(m) ==
    /\ gate' = Append(gate, m)
    /\ IF gate = <<>> THEN Goes(m, "waiting") ELSE Yields(m, "waiting")

\* _gate.Release(): the next one that waits holds the gate, and its
\* continuation is posted.
Release == gate' = Tail(gate)

Granted(m) ==
    /\ pc[m] = "waiting"
    /\ Head(gate) = m
    /\ ui \in {None, m}

\* After the native call: the continuation of the method.
Back(m) ==
    /\ pc[m] = "back"
    /\ ui = None

Throws(m) ==
    /\ result' = [result EXCEPT ![m] = "failed"]
    /\ UNCHANGED <<held, command, names, values, disturbed>>

\* InvokeAsync() without an instrument throws.
NotConnected(m) ==
    /\ Granted(m)
    /\ instrument = 0
    /\ Throws(m)
    /\ Release
    /\ Goes(m, "resume")
    /\ UNCHANGED <<instrument, link, IsConnected, functions, viewVars, clicks>>

\* InvokeAsync() starts its action on the thread pool.
Invoke(m) ==
    /\ Granted(m)
    /\ instrument # 0
    /\ held' = [held EXCEPT ![m] = instrument]
    /\ Yields(m, "native")
    /\ UNCHANGED <<sessionVars, result, command, names, values, disturbed, functions, viewVars,
                   clicks>>

\* Mutant: the gate is released after the call, not in a finally clause.
EndInvoke_no_finally(m) ==
    /\ Back(m)
    /\ IF result[m] = "ok" THEN Release ELSE UNCHANGED gate
    /\ Goes(m, "resume")
    /\ UNCHANGED <<instrument, link, IsConnected, locals, functions, viewVars, clicks>>

\* InvokeAsync() leaves by its finally clause, and its caller goes on.
EndInvoke(m) ==
    /\ Back(m)
    /\ Release
    /\ Goes(m, "resume")
    /\ UNCHANGED <<instrument, link, IsConnected, locals, functions, viewVars, clicks>>

\* ConnectAsync() starts to connect, or throws on a connected session.
BeginConnect ==
    /\ Granted("connect")
    /\ IF instrument = 0
       THEN /\ Yields("connect", "native")
            /\ UNCHANGED <<gate, locals>>
       ELSE /\ Throws("connect")
            /\ Release
            /\ Goes("connect", "resume")
    /\ UNCHANGED <<instrument, link, IsConnected, functions, viewVars, clicks>>

NewHandle == CHOOSE h \in Handles : link[h] = "none" /\ \A g \in 1..(h - 1) : link[g] # "none"

\* Mutant: a connection whose *IDN? fails is left open.
FirstQueryFails_leaks == link' = [link EXCEPT ![NewHandle] = "open"]

\* The candidate does not answer *IDN? and is disposed of.
FirstQueryFails == link' = [link EXCEPT ![NewHandle] = "disposed"]

\* NormaInstrument.Connect() and the first query, on the thread pool.
ConnectCall ==
    /\ Completes("connect")
    /\ \/ /\ link' = [link EXCEPT ![NewHandle] = "open"]
          /\ held' = [held EXCEPT !["connect"] = NewHandle]
          /\ result' = [result EXCEPT !["connect"] = "ok"]
          /\ UNCHANGED <<command, names, values, disturbed>>
       \/ /\ FirstQueryFails \/ UNCHANGED link
          /\ Throws("connect")
    /\ UNCHANGED <<gate, instrument, IsConnected, functions, viewVars, clicks>>

\* The rest of ConnectAsync().
EndConnect ==
    /\ Back("connect")
    /\ IF result["connect"] = "ok"
       THEN /\ instrument' = held["connect"]
            /\ IsConnected' = TRUE
       ELSE UNCHANGED <<instrument, IsConnected>>
    /\ Release
    /\ Goes("connect", "resume")
    /\ UNCHANGED <<link, locals, functions, viewVars, clicks>>

\* DisconnectAsync() takes the instrument away and disposes of it on the
\* thread pool, or returns when there is none.
BeginDisconnect ==
    /\ Granted("disconnect")
    /\ IF instrument = 0
       THEN /\ Release
            /\ Goes("disconnect", "resume")
            /\ UNCHANGED <<instrument, held>>
       ELSE /\ held' = [held EXCEPT !["disconnect"] = instrument]
            /\ instrument' = 0
            /\ Yields("disconnect", "native")
            /\ UNCHANGED gate
    /\ UNCHANGED <<link, IsConnected, result, command, names, values, disturbed, functions,
                   viewVars, clicks>>

DisposeCall ==
    /\ Completes("disconnect")
    /\ link' = [link EXCEPT ![held["disconnect"]] = "disposed"]
    /\ UNCHANGED <<gate, instrument, IsConnected, locals, functions, viewVars, clicks>>

EndDisconnect ==
    /\ Back("disconnect")
    /\ IsConnected' = FALSE
    /\ Release
    /\ Goes("disconnect", "resume")
    /\ UNCHANGED <<instrument, link, locals, functions, viewVars, clicks>>

-----------------------------------------------------------------------------
(* The calls of NormaInstrument, on the thread pool.                       *)

CallReturns(m) ==
    /\ Completes(m)
    /\ link[held[m]] = "open"
    /\ result' = [result EXCEPT ![m] = "ok"]
    /\ UNCHANGED <<sessionVars, held, command, viewVars, clicks>>

\* A call fails on a dead link; a timeout or a lost connection makes the link
\* dead, and another failure (an answer that cannot be parsed) leaves it.
CallFails(m) ==
    /\ Completes(m)
    /\ Throws(m)
    /\ \/ link[held[m]] = "open" /\ link' = [link EXCEPT ![held[m]] = "dead"]
       \/ UNCHANGED link
    /\ UNCHANGED <<gate, instrument, IsConnected, functions, viewVars, clicks>>

QueryFunctions(r) ==
    /\ CallReturns(r)
    /\ names[r] = None
    /\ names' = [names EXCEPT ![r] = functions]
    /\ UNCHANGED <<values, functions, disturbed>>

ReadData(r) ==
    /\ CallReturns(r)
    /\ names[r] # None
    /\ values' = [values EXCEPT ![r] = functions]
    /\ UNCHANGED <<names, functions, disturbed>>

\* The console's command: a query changes nothing here, a setting may put
\* another function list in place.
ConsoleCall ==
    /\ CallReturns("send")
    /\ IF command = "query" THEN UNCHANGED functions ELSE functions' \in Functions
    /\ disturbed' = [r \in Readers |-> \/ disturbed[r]
                                       \/ names[r] # None /\ functions' # functions]
    /\ UNCHANGED <<names, values>>

-----------------------------------------------------------------------------
(* MeasurementsViewModel.                                                  *)

\* ReadAsync() up to its first await.
BeginRead(r) ==
    /\ pc[r] = "idle"
    /\ readInProgress' = TRUE
    /\ Waits(r)
    /\ UNCHANGED <<instrument, link, IsConnected, locals, functions, Rows, IsPolling>>

\* The names have come: on to ReadDataAsync().
ReadGoesOn(r) ==
    /\ pc[r] = "resume"
    /\ result[r] = "ok"
    /\ values[r] = None
    /\ Waits(r)
    /\ UNCHANGED <<instrument, link, IsConnected, locals, functions, viewVars, clicks>>

\* Mutant: the names are kept for the next read.
ForgetRead_keeps_names(r) ==
    /\ held' = [held EXCEPT ![r] = 0]
    /\ result' = [result EXCEPT ![r] = "none"]
    /\ values' = [values EXCEPT ![r] = None]
    /\ disturbed' = [disturbed EXCEPT ![r] = FALSE]
    /\ UNCHANGED <<names, command>>

\* The locals of ReadAsync() are gone.
ForgetRead(r) ==
    /\ held' = [held EXCEPT ![r] = 0]
    /\ result' = [result EXCEPT ![r] = "none"]
    /\ names' = [names EXCEPT ![r] = None]
    /\ values' = [values EXCEPT ![r] = None]
    /\ disturbed' = [disturbed EXCEPT ![r] = FALSE]
    /\ UNCHANGED command

\* Mutant: what ReadAsync() answers is not looked at.
ReadFails_polls_on(r) ==
    /\ pc[r] = "resume"
    /\ result[r] = "failed"
    /\ readInProgress' = FALSE
    /\ ForgetRead(r)
    /\ Ends(r)
    /\ UNCHANGED <<sessionVars, functions, Rows, IsPolling, clicks>>

\* A read fails; one of the poll timer stops the timer.
ReadFails(r) ==
    /\ pc[r] = "resume"
    /\ result[r] = "failed"
    /\ readInProgress' = FALSE
    /\ IsPolling' = (IsPolling /\ r \notin Polls)
    /\ ForgetRead(r)
    /\ Ends(r)
    /\ UNCHANGED <<sessionVars, functions, Rows, clicks>>

ReadShows(r) ==
    /\ pc[r] = "resume"
    /\ result[r] = "ok"
    /\ values[r] # None
    /\ Rows' = [names |-> names[r], values |-> values[r], disturbed |-> disturbed[r]]
    /\ readInProgress' = FALSE
    /\ ForgetRead(r)
    /\ Ends(r)
    /\ UNCHANGED <<sessionVars, functions, IsPolling, clicks>>

\* PollTickAsync(); a tick during a read is skipped.
PollTick(p) ==
    /\ ui = None
    /\ IsPolling
    /\ ~readInProgress
    /\ BeginRead(p)
    /\ UNCHANGED clicks

-----------------------------------------------------------------------------
(* The user, and the ends of the other commands.                           *)

Clicks ==
    /\ ui = None
    /\ clicks < MaxClicks
    /\ clicks' = clicks + 1

ReadOnce == Clicks /\ BeginRead("once")

SetPolling ==
    /\ Clicks
    /\ IsPolling' = ~IsPolling
    /\ UNCHANGED <<sessionVars, ui, pc, locals, functions, Rows, readInProgress>>

\* Starts a command when it can execute.
Execute(m) ==
    /\ Clicks
    /\ pc[m] = "idle"
    /\ Waits(m)
    /\ UNCHANGED <<instrument, link, IsConnected, held, result, names, values, disturbed,
                   functions, viewVars>>

ConnectCommand == ~IsConnected /\ Execute("connect") /\ UNCHANGED command

\* Mutant: DisconnectAsync() does not wait for the gate.
DisconnectCommand_ungated ==
    /\ IsConnected
    /\ Clicks
    /\ pc["disconnect"] = "idle"
    /\ gate' = <<"disconnect">> \o gate
    /\ Goes("disconnect", "waiting")
    /\ UNCHANGED <<instrument, link, IsConnected, locals, functions, viewVars>>

DisconnectCommand == IsConnected /\ Execute("disconnect") /\ UNCHANGED command

SendCommand ==
    /\ Execute("send")
    /\ command' \in {"query", "setting"}

CommandEnds(m) ==
    /\ pc[m] = "resume"
    /\ Ends(m)
    /\ held' = [held EXCEPT ![m] = 0]
    /\ result' = [result EXCEPT ![m] = "none"]
    /\ command' = IF m = "send" THEN None ELSE command
    /\ UNCHANGED <<sessionVars, names, values, disturbed, functions, viewVars, clicks>>

-----------------------------------------------------------------------------
Invoking(m) == NotConnected(m) \/ Invoke(m) \/ CallFails(m) \/ EndInvoke(m)

ReadStep(r) ==
    \/ Invoking(r)
    \/ QueryFunctions(r)
    \/ ReadData(r)
    \/ ReadGoesOn(r)
    \/ ReadFails(r)
    \/ ReadShows(r)

SendStep == Invoking("send") \/ ConsoleCall \/ CommandEnds("send")

ConnectStep ==
    \/ BeginConnect
    \/ ConnectCall
    \/ EndConnect
    \/ CommandEnds("connect")

DisconnectStep ==
    \/ BeginDisconnect
    \/ DisposeCall
    \/ EndDisconnect
    \/ CommandEnds("disconnect")

UserStep ==
    \/ ReadOnce
    \/ SetPolling
    \/ ConnectCommand
    \/ DisconnectCommand
    \/ SendCommand

DesktopNext ==
    \/ \E r \in Readers : ReadStep(r)
    \/ SendStep
    \/ ConnectStep
    \/ DisconnectStep
    \/ \E p \in Polls : PollTick(p)
    \/ UserStep

DesktopSpec == DesktopInit /\ [][DesktopNext]_vars

\* The dispatcher runs what is posted to it, a native call ends at the latest
\* by its timeout, and the timer ticks; the user need not do anything.
Fairness ==
    /\ \A r \in Readers : WF_vars(ReadStep(r))
    /\ WF_vars(SendStep)
    /\ WF_vars(ConnectStep)
    /\ WF_vars(DisconnectStep)
    /\ WF_vars(\E p \in Polls : PollTick(p))

FairSpec == DesktopSpec /\ Fairness

-----------------------------------------------------------------------------
(* Properties.                                                             *)

\* Native calls are serialised over all views, and none is made on a handle
\* that has been disposed of.
SerializedCalls ==
    \A m \in Methods : pc[m] = "native" =>
        /\ \A k \in Methods \ {m} : pc[k] # "native"
        /\ m # "connect" => link[held[m]] \in {"open", "dead"}

\* Every handle that is not disposed of is the session's, or in the hands of
\* the command that connects or disconnects.
NoHandleLeaks ==
    \A h \in Handles : link[h] \in {"open", "dead"} =>
        \/ h = instrument
        \/ pc["connect"] = "back" /\ result["connect"] = "ok" /\ held["connect"] = h
        \/ pc["disconnect"] = "native" /\ held["disconnect"] = h

\* The values of a read are shown under the functions they belong to, unless
\* the function list changed while the read was under way.
UndisturbedRows == Rows.names # Rows.values => Rows.disturbed

\* Every command ends, whatever the others do and however often the
\* instrument fails.
CommandsEnd == \A m \in Methods : pc[m] # "idle" ~> pc[m] = "idle"

\* Once the session stays disconnected, polling stops.
PollingStops == <>[](instrument = 0) => <>[](~IsPolling)

\* PollTickAsync(): "previous read still running; skip this tick".  The timer
\* starts a read only while no other one is running.
TickSkipsRunningRead ==
    [][\A p \in Polls : pc[p] = "idle" /\ pc'[p] # "idle" =>
          \A r \in Readers : pc[r] = "idle"]_vars
=============================================================================
