# NORMAlizer in TLA+

NORMAlizer is a C++ library that talks SCPI to a Fluke NORMA 4000/5000 power
analyzer over TCP, an offline simulator of that instrument, a C API with Python
and .NET bindings, and a desktop application. This directory holds a TLA+ model
of the parts whose correctness depends on order or on agreement between two ends:
the client and its link, the texts it writes and reads, the methods of the
instrument, the simulator's server, its command-line parser and command handlers,
its error queue, status reporting and measurement status, the C API's handle with
its .NET wrapper, and the desktop application's session. TLC checks every model on small instances,
TLAPS proves most of what it checks, liveness excepted, for every instance.

Paths below are relative to `src/module/` unless they say otherwise.

## 1. The system

| Component | State | Operations | Where |
|---|---|---|---|
| TCP transport | the socket, `rx` (bytes received and not yet taken) | `open`, `close`, `write`, `read_line`, each bounded by a timeout that closes the socket | `src/tcp_transport.cpp` |
| SCPI client | `mutex_`, the transport | `send`, `query`, `read_all_errors`, `throw_if_error`, response parsers | `src/scpi_client.cpp` |
| Instrument | the client | `connect`, `prepare`, about a hundred typed methods of one or a few client calls | `src/instrument*.cpp` |
| Simulator: parser and matcher | none beyond one line | split a line into commands, match headers against 121 patterns, dispatch | `simulator/src/norma_simulator.cpp` |
| Simulator: handlers | `SimulatorState` (settings) | one branch per command, through the `Access` helpers | `simulator/src/simulator_handlers.cpp`, `simulator_calculate.cpp`, `simulator_support.cpp` |
| Simulator: error queue | `errors`, `event_status` | `push_error`, `SYST:ERR?`, `SYST:ERR:ALL?`, `*ESR?`, `*OPC`, `*CLS`, `*RST` | `simulator/src/norma_simulator.cpp`, `simulator_handlers.cpp` |
| Simulator: status reporting | four registers (event, enable, two filters, previous condition), `*ESE`, `*SRE` | `condition`, `latch_event`, `STAT:...`, `*STB?` | `simulator/src/simulator_measurement.cpp`, `simulator_calculate.cpp` |
| Simulator: measurements | none | `measure`: a value and its status from signal and settings | `simulator/src/simulator_measurement.cpp` |
| Simulator: TCP server | acceptor, one client socket, `rx`, `stalled`, `stopping`, an io thread | accept-read chain, `stop`, `disconnect_client`, `set_stalled` | `simulator/src/simulator_server.cpp` |
| Simulator: in-process transport | buffered responses, fault switches | the `Transport` interface | `simulator/include/.../simulator_transport.hpp` |
| C API | a handle with the last error and SCPI code | one function per operation, exceptions become status codes | `capi/src/fluke_norma_c.cpp` |
| Desktop application | the session's gate and instrument, rows, a poll timer | connect, disconnect, read, poll, console | `src/apps/desktop/src/` |
| Python package | none of its own | typed wrapper over the pybind11 bindings | `src/python/flukenorma/` |

How they interact: threads of a program call `ScpiClient`, which serialises them
with its mutex and drives one transport; the transport's peer is the instrument
or `SimulatorServer`, whose io thread hands each line to `NormaSimulator` and
writes back what it answers. A command line runs its commands one after the
other; a rejected one goes into the error queue, from where `read_all_errors()`
fetches it with one locked query per entry. The C API and the bindings call the
instrument methods; the desktop application serialises its calls with a gate.

What is hard here:

- a query is a write and a read on a shared byte stream: another thread, a late
  answer, a second line in a command or a leftover fragment puts every later
  answer off by one;
- a drain is a loop of single queries while other threads add and take errors;
- the queue has a limit, and the overflow entry must tell about what it replaced;
- the server's chain of asynchronous operations has no other caller, and
  `stop()` and `disconnect_client()` come from other threads at any moment;
- status conditions are not stored: edges are found when somebody looks, and
  `*STB?`, `*CLS`, `*RST` and mask changes come in between;
- settings outlive a connection, so a session begins with what the last one left;
- the C API and its wrapper consume an answer before they know that it fits;
- the desktop's commands are async methods that interleave at every `await`, with a
  poll timer that starts more of them;
- the library and the simulator each have their own list of headers, keywords,
  ranges and suffixes, and a command the other end does not take is rejected without
  the caller's knowledge;
- a line of several commands shares a path, headers have optional nodes and
  alternatives, and the first row of a table of 121 that matches wins;
- names and echoed texts can hold every separator the texts are split at;
- settings can be NaN, and a value depends on some of them, or on two other measurements
  whatever their status is: what is not determined must not look like a number.

What makes each component correct: a query returns its own answer or throws, and
never leaves the link out of step; no error is lost unnoticed; every drain ends and
finds what was there; the server serves one client at a time, each from a clean
buffer, until it is stopped; no status edge is reported twice, and none that lasts
is missed; a query is answered or its failure is in the error queue; `prepare()`
works from any earlier state, and the typed methods understand every answer after
it; each header finds its own row, alone or after others; lists and error codes
survive the text; a reading is a number, and said to be valid, when its inputs determine
it and not otherwise; a failed call of the C API is described by its own text; the
desktop application never uses a disposed handle, loses none and never blocks.

## 2. The modules

| Module | Models | Built on |
|---|---|---|
| `ErrorQueue` | the error queue and the event status register | |
| `ErrorDrain` | `read_all_errors()` of several threads against that queue | `ErrorQueue` |
| `TcpTransport` | the transport, the byte stream and the instrument at its other end | |
| `ScpiClient` | `send()` and `query()` of several threads | `TcpTransport` |
| `RequestReply` | what `ScpiClient` promises: an atomic call that returns its own answer or nothing | |
| `SimulatorServer` | the io thread, the callers of `stop()` and `disconnect_client()`, the clients | |
| `StatusReporting` | registers, status byte, `*CLS`, `*RST` | `ErrorQueue` |
| `Measurement` | `measure()`: what a value is, in signs, infinities and NaNs, and its status | `StatusReporting` |
| `CommandShapes` | the keys of the handlers and the shape each is read and written in | |
| `SimulatorCommands` | every handler, command by command of a line | `ErrorQueue`, `CommandShapes` |
| `InstrumentMethods` | the methods of `NormaInstrument` with `prepare()` over the in-process transport, after any other client | `SimulatorCommands` |
| `ScpiText` | quoting, splitting, the parsers of lists and errors | |
| `CommandHeader` | the table of patterns and the matcher | `ScpiText` |
| `CommandLine` | `handle_line()`: pieces, path, parameters, echoed errors | `CommandHeader`, `CommandShapes` |
| `NativeHandle` | a C API handle and the .NET wrapper's loops on it | `ErrorQueue` |
| `DesktopSession` | the session's gate, the commands of the views, the poll timer | |
| `ErrorQueueProofs`, `ErrorDrainProofs`, `ScpiClientProofs`, `SimulatorServerProofs`, `NativeHandleProofs`, `DesktopSessionProofs` | theorems about the module of that name | that module |
| `StatusReportingProofs` | theorems about status and measurement | `Measurement` |
| `InstrumentMethodsProofs` | theorems about handlers and methods | `InstrumentMethods` |
| `MC...` | the constants of the TLC runs | |

`PROJECT.json` maps every definition to its source lines. Definitions marked
"Mutant" are not part of a specification: each is a plausible bug that a property
is known to catch.

### ErrorQueue and ErrorDrain

`errors` is the queue, `event_status` the set of the register's 1 bits. Each
entry also carries a stamp, the number of the push that wrote it. Stamps,
`delivered`, `raised` and `esr_mark` are history: no guard reads them except the
bound `MaxErrors`. `push_error()` follows the code's order: a full queue gets
`-350` in place of its newest entry and returns before the event status bit is
set. `*CLS` clears queue and register, `*RST` the register only. In `ErrorDrain`
a round of the loop is one atomic step (one query under the mutex); `MaxDrain` is
the code's `kMaxErrorQueueDrain` (64), assumed greater than `Capacity` (32), as
in the code.

### TcpTransport, ScpiClient, RequestReply

A line is a record (whose call it is, whether it asks for an answer); an answer
is two fragments, so that a read can find half of it. `up` and `down` are the two
directions of the stream. The instrument takes the oldest line and answers it,
does not, or drops the connection. A read or write times out at any moment; a
timeout leaves the socket `"timed_out"` with `rx` as it was, `close()` empties
`rx` (lines 23 to 33 and 83 to 91 of `tcp_transport.cpp`). A write that times out
may have sent its line or not. `ClosesBeforeReopen` says whether the program calls
`close()` on a dead session before it opens it again; section 4 has both cases.
`open()` and `close()` take no lock and happen between calls. The desktop
application serialises them with its gate; a program that calls the C++ classes, the C
API or the Python bindings (which release the GIL) from several threads has to see to
that itself.
The refinement maps a call that holds the mutex to an active call of
`RequestReply` and the caller of the answer's fragments to `reply`.

### SimulatorServer

The state is what asio holds for the server: the pending accept and read, the
queue of handlers ready to run, whether `run()` has returned, and for each client
what its socket still carries. `Dispatch` runs one handler on the io thread, each
handler being a whole callback of the code, with one exception: `on_line()` looks
at `stopping` and calls `accept_next()` in two steps, as `stop()` can set the flag
in between. Closing a socket makes its operation complete with an error, which is
asio's rule and marked external.

### StatusReporting

A register is a record of bit sets, a condition is derived from `inst` whenever it
is read. A watch picks, at the start of a behaviour, the registers a client uses
and the parts of the instrument that change; the registers share nothing but
those parts, so watching them in turn loses nothing but size. `"byte"` stands for
the error queue and the status byte. One voltage and one current channel stand
for six each. `moved`, `base` and `passed` are history: what has changed since the last
EVENt query, and from where. `*CLS` empties the stored events and keeps the previous
conditions, so the histories go on from there with the changes that no query had noticed
before it (`unnoticed`).

### Measurement

A value is a number by its sign, an infinity or a NaN; `times`, `quotient`, `less` are the
arithmetic of doubles on these. `measure()` is computed as in the code: the early returns in
their order, the branch of each quantity with its products and guarded quotients, the
harmonic factor, `std::max` and `std::min` as sign filters with the argument order that
decides what they do to a NaN, the NaN test that sets the status, and the range bits. An
efficiency divides the values of the two functions it refers to, whatever their status is.
A NaN comes in through a scale or the aperture, or arises where a divisor is 0 because a
channel is dead or the load purely resistive. `is_valid()` looks at the status alone.

`Determined` is written the other way round, without the order of tests: what a function
needs of the signal and the settings. The functions are those of one phase; `Functions` has
every quantity with every tail the code knows, one it does not, and modifiers and line
functions on some. It is evaluated in every state of `StatusReporting`, whose watch
`"setup"` changes scale, aperture, integral and the efficiency's references.

### CommandShapes and SimulatorCommands

`CommandShapes` gives each key a constructor named after the `Access` helper that reads
and writes it, with its field, its `*RST` value and the parameters to tell apart; a key
whose handler has code of its own is `Own` or `Act`. A setting has a name and a suffix;
its value is one of the classes the code tells apart (`"initial"`, on or off, in range,
in the wider range of an absolute sync level, not a number, a function list of no, one
or many names, ...). A parameter is missing, illegal, out of range or good. `line`
counts the commands of the current line, its queries and its answers. `execute` has one
disjunct per handler, through the same helpers as the code (`number`, `word`,
`query_only`, ...). A usage names the keys a client of a behaviour uses and bounds how
many settings differ from their `*RST` values; `state` holds these only.

### InstrumentMethods

A method is a row under the key of its command: the parameters its setter sends and
those it refuses with `std::invalid_argument`, the parameters of its getter and the
parser of the answer. `responses` is the transport's queue. Another client comes first
and sends any lines; then a session opens, may run `prepare()` step by step, and calls
methods, `write()` and `query()`, each with or without one of the faults `fail_writes`,
`fail_reads` and `stall_reads`. Whoever sends a command, `Exchange` hands it to
`execute` and then does what the other client, a method or the step of `prepare()`
does with the outcome; `exchanges` has the commands each of them can send. An answer is known by what a parser makes of it: one or
more numbers, a word, text, a binary block, an empty line. `text` and `disturbed` are
history: whether `prepare()` was done and no binary format was chosen since, and whether
a read failed or a query was sent with `write()`.

### ScpiText, CommandHeader, CommandLine

A text is a sequence of symbols: a punctuation mark, a blank, a number, a word. Words of a
parameter may be in lower case; `upper` is the simulator's conversion.
`CommandHeader` has the 121 patterns of `kCommandSpecs` in their order, with short and
long mnemonics, optional nodes, alternatives and suffixes, and `match_pattern()` with
its backtracking; the `Spellings` of a row are what its pattern allows, written down
independently of the matcher. `CommandLine` takes a line apart piece by piece. Each line
carries what its writer meant, and `ran` keeps what the headers of the line found, so
that both can be compared with the full form of each header. A handler accepts a
command or rejects it with an error that echoes a parameter. The handlers that write
`state_.functions` are there in full: `FUNC` stores its names in upper case or, with
CONCurrent OFF, refuses more than one; `FUNC:CONC`, `FUNC:ALL`, `FUNC:OFF:ALL`, `DATA?`
with a list and `*RST` are what other clients do to the same list and switch. `sent` keeps
what `set_functions()` sent and what the list was before.

### NativeHandle

Calls on a handle come one after the other. A text is represented by the number of
the call that stored it, so a stale one shows. Each exchange with the instrument
succeeds, times out, loses the link or cannot be parsed. The loops of
`NormaInstrument.Query()` and `ReadData()` have one step per native call; the answer
to `SYST:ERR:ALL?` is as long as it has entries, other answers have any length. `taken`,
`shown` and `scpi` are history; `scpi` is the code of the latest check that ended in
`NORMA_ERR_SCPI`.

### DesktopSession

Each command is an async method with a place (`pc`): waiting for the gate, in a native
call on the thread pool, back from it, or resumed in its caller. `ui` is the method
the UI thread is in: a method goes on without a break where an `await` finds its task
complete, as with a free gate, and gives the thread up otherwise. The gate is a queue,
because a `SemaphoreSlim` completes asynchronous waiters in order. An
`AsyncRelayCommand` does not start again while it runs; the poll timer is not held to
that, so `Polls` has several reads. The link is open or dead; the function list is the
only thing of the instrument that is kept. Nothing in the application calls
`InstrumentSession.Dispose()`, so it is left out.

## 3. The runs

| Run | Instance | Shows |
|---|---|---|
| `error_drain` | 2 threads, queue of 2, loop limit 3, 4 errors between two `*CLS` | `NoSilentLoss`, `EsrOrOverflow`, `DrainComplete`, `GivesUpOnlyUnderNewErrors`, `DrainEnds` |
| `scpi_client` | 3 calls of any kind, 2 connections | `OwnAnswer`, `InStep`, `CallsEnd`, `ImplementsRequestReply` |
| `simulator_server` | 2 clients, 2 lines in flight | `OneAtATime`, `ServesUntilStopped`, `LinesOfCurrentClient`, `GoneOnReturn`, `DisconnectReturns`, `StopReturnsOnceClientsLeave` |
| `status_reporting` | each register with the parts it depends on, 2 errors, queue of 1; every function of a phase | `NoPhantomEvents`, `LastingRiseReported`, `ServiceRequested`, `ReadingsTellTheirInputs` |
| `instrument_methods` | all subsystems one after the other, lines of 2 commands, 2 errors, queue of 1, 1 changed setting (2 where two depend on each other, 4 for formats and functions), 1 answer left over | `AnsweredOrExplained`, `FormatsCoupled`, `InStep`, `TextSession`, `TimeoutExplained`, `RejectedForConflict`, `PreparedForText` |
| `command_line` | every spelling of every row alone; 5 headers with shared levels followed by 2 more; names and parameters with every separator, every command on the function list, 2 errors | `FindsItsRow`, `RelativeAsInFull`, `FunctionsReadBack`, `ErrorsAtOnceComplete` |
| `native_handle` | 5 calls, queue of 2, a first buffer for 1 entry, 2 buffers | `OwnMessage`, `CheckErrorsTells`, `OneExchangeLosesNothing` |
| `desktop_session` | 5 actions of the user, 2 poll reads, 2 function lists | `SerializedCalls`, `NoHandleLeaks`, `UndisturbedRows`, `CommandsEnd`, `PollingStops` |

`error_drain` and `scpi_client` also check their type invariants. `command_line`
checks the algorithms on text against what they are for: the matcher against the
spellings, the path rule against full headers, the splitters and parsers against
what was sent; the assumption `RowsHandled` has TLC compare the table with the
handlers' keys.

Why the bounds suffice. A queue of two overflows, is read in part and overflows
again within four errors, and three reads are a limit above the capacity that a
drain can still reach; the theorems remove these bounds for the queue. Three calls
are one that goes wrong, one that would get the wrong answer and one that waits; two
connections make one reopening; the theorems remove these bounds too. Two clients
are a former and a next one; two lines give a client a complete and a partial one in
the buffer. A command's answer depends on at most two settings, and the second
command of a line meets everything the first can leave. Two errors in a queue of
one make it overflow. The four changed settings of
`instrument_methods` are both formats, the function list and `CONCurrent`; one
answer left over is enough for the next to be a wrong one. Three commands of a line
are one that leaves a path, one that changes or keeps it and one that uses it; two
errors are the pair that a field too many shifts. Five calls on a handle fill the
queue beyond the first buffer, query or check it and fail after that; five actions
of the user connect, poll, read, send and disconnect, and both function lists and
both poll reads are needed for values under wrong names and for ticks that overlap.

Fairness. `ErrorDrain`: a thread inside the loop keeps running it. `ScpiClient`: a
running write or read ends, because `run_for()` returns at the latest when its
timeout expires; a waiting call gets the mutex, because finitely many others hold
it once each. `SimulatorServer`: the io thread runs what is ready, and polls the
network however many handlers keep coming (strong fairness of `NetworkEvent`,
because polling alternates with handlers); a thread in `stop()` goes on. Nothing is
assumed of the instrument or the clients; that `stop()` returns is stated for
clients that leave, since a client that stays can keep `run()` busy (next section).
`DesktopSession`: the dispatcher runs what is posted to it, a native call ends by its
timeout, and the timer ticks while polling is on; the user need not do anything.
The other specifications check safety only.

## 4. Where the code and its texts disagree

Runs that TLC finds violated:

- `scpi_client_reopen`: after a timeout, `open()` without `close()` keeps what the
  dead read left in `rx`; the next answer is joined to it. The test
  `tests/test_integration_tcp.cpp:189` says that "a late response must never be
  mistaken for the answer to the next query". `NormaInstrument::connect` always makes
  a new transport, so only a program that reopens a client meets this.
- `errors_at_once_documented`: the manual (`src/docs/Fluke-NORMA-TCP-API.md:3475`) puts
  semicolons between the errors `SYST:ERR:ALL?` returns. `parse_errors()` splits at
  commas only, so of two such errors it returns one, whose text ends in the code of the
  other. The simulator answers with commas, so the tests do not show it.
- `native_handle_retry`: `Query()` of the .NET wrapper repeats a query whose answer did
  not fit. A full error queue has an answer of more than 1023 bytes, which the first
  call consumes; the second finds an empty queue, and the wrapper, which "returns the
  response line", returns that there is no error.
- `desktop_session_tick`: "Read once" and the poll share `_readInProgress`. The read that
  ends first clears it, and the next tick, which should be skipped because of a
  "previous read still running", starts another one.

Also read in the code, without a run of their own:

- An accept that completed before `stop()` closes the acceptor has its handler run
  afterwards and serves its client, so `stop()`, which "closes any open connection"
  (`simulator/include/fluke/norma/simulator/simulator_server.hpp:42`), waits until that
  client leaves. `StopReturnsOnceClientsLeave` states what does hold.
- `TIME` is not a number after `APER` was set to a NaN, and its status is valid
  (`simulator/src/simulator_measurement.cpp:161`): it returns before the NaN test. A test
  for the instrument is named "a NaN measurement is always flagged in the status"
  (`tests/test_hardware_norma.cpp:297`), of functions other than `TIME`.
  `ReadingsTellTheirInputs` makes this exception and no other.
- An aggregate compares its mean with the range of the first phase
  (`simulator/src/simulator_measurement.cpp:392`), a reference that names an efficiency
  makes `measure()` recurse without end (line 335), and `trace_points()` takes the sweep
  that is on instead of the block asked for (line 108).
- An echoed quotation mark makes `SYST:ERR:ALL?` one field longer or shorter, and
  `parse_errors()` pairs the rest wrongly; `ErrorsAtOnceComplete` excludes it. A name with a
  quotation mark in it does not come back from `FUNC?` for the same reason.
- `SimulatorTransport` stays open after a timeout and gives the late answer to the next
  query, where `TcpTransport` is closed; `InStep` says that `close()` mends it.
- A query sent with `write()` leaves its answer for the next query. The desktop's console
  does that to a query with parameters, such as `DATA? "VOLT1"`, because it only looks for
  a `?` at the end (`ScpiConsoleViewModel.cs:51`). No property rules this out: `InStep`
  counts it among the disturbances.
- `read_all_errors()` gives up after 64 entries also when another thread keeps adding
  errors; its comment takes this for a link out of step (`src/scpi_client.cpp:141`).
  `GivesUpOnlyUnderNewErrors` states what does hold.
- `on_line()` that sees `stopping` can leave the io thread without work before the
  acceptor is closed, so `run()` does not return only "once everything is closed"
  (`simulator/src/simulator_server.cpp:146`).
- `norma_last_scpi_code()` is documented as the "SCPI code of the most recent
  NORMA_ERR_SCPI on this handle [...], or 0 if the last failure was not an instrument error"
  (`capi/include/fluke_norma_c.h:155`). After a check that reported an error and a later
  timeout the two halves contradict each other. `guarded()` never puts the code back to 0,
  so the first half holds (`CheckErrorsTells`) and the second does not. A function that
  rejects a null pointer returns before `guarded()` and leaves the text of an earlier
  failure.
- Values can be shown under the names of another function list when the console changes
  it between the two calls of a read (`MeasurementsViewModel.cs:92`);
  `UndisturbedRows` states what does hold.
- `*CLS` zeroes the stored events but not the previous conditions, so an edge from
  before it that no query had noticed is reported after it (one that was noticed is not,
  which `NoPhantomEvents` states); `FUNC:ALL` and `DATA?` with a list do not look at
  `FUNC:CONC OFF` (the manual, `src/docs/Fluke-NORMA-TCP-API.md:718` and `2118`, says
  otherwise).
- A `FORM ASC` length of more than 57 cuts a number in its buffer of 64 characters
  (`simulator/src/simulator_measurement.cpp:101`); a drain that loses the link throws
  away what it had read (`src/scpi_client.cpp:135`).
- A condition that rises and falls between two reads leaves no event; `*RST` clears
  masks, filters and the event status register; `*STB?` forms no OPERation summary;
  both sweeps can be on at once; the sync level is not looked at again when its unit
  goes back to percent; the rest of a line after an undefined header is dropped. The
  manual (`src/docs/Fluke-NORMA-TCP-API.md:3601`, `3554`, `4361`, `2250`, `2807`,
  `640`) describes each of them differently.
- `Access::number()` "rejects values outside [min, max]" and takes NaN; of the library's
  setters only `set_aperture()` refuses it.

## 5. The proofs

Each theorem is about a specification of section 2 with its constants free, so it removes
the bounds of the runs: the assumptions named below, which TLC evaluates in every run, are
all it takes. Every inductive invariant was an invariant of a TLC run before it was proved.

`ErrorQueueProofs`, for every capacity, set of codes and bound on errors
(`ErrorQueueAssumption`: the capacity is positive, `NoError` and `QueueOverflow`
are different and no error codes):

- `TypeCorrect`: `Spec => []TypeOK`;
- `LossIsReported`: `Spec => []NoSilentLoss`;
- `ErrorShowsSomewhere`: `Spec => []EsrOrOverflow`;
- `EntriesLeaveInOrder`: `Spec => TakenInOrder`, an action property: a query that takes
  from the queue delivers what was raised after all it delivered before, and `SYST:ERR?`
  the very next error unless it is the overflow entry.

`NoSilentLoss` speaks of neighbouring entries and of the newest one; together with
the types it is nearly inductive. What has to be added is where the bounds of the
stamps lie and that only `raised` errors have been stamped, so that a push that
replaces the newest entry keeps its distance to the one before it. One lemma per
command shows that it keeps the invariant; the modules below cite them. `TakenInOrder`
rests on `Ordered`: the stamps ascend along the queue, which `NoSilentLoss` says of
neighbours only.

Five specifications contain this queue. `DrainKeepsQueue`, `StatusKeepsQueue`,
`CommandsKeepQueue`, `SessionKeepsQueue` and `HandleKeepsQueue` prove that `DrainSpec`,
`StatusSpec`, `CommandSpec`, `MethodsSpec` and `HandleSpec` implement `Spec`: each of their
steps is a step of the queue or a stutter. So the four theorems hold for every client of
the simulator, by whatever layer it calls.

`ErrorDrainProofs`, for any set of threads and every loop limit above the capacity
(`ErrorDrainAssumption`):

- `DrainTypeCorrect`: `DrainSpec => []DrainTypeOK`;
- `DrainLeavesNothing`: `DrainSpec => []DrainComplete`;
- `FullQueueIsDrained`: `DrainSpec => []GivesUpOnlyUnderNewErrors`;
- `DrainKeepsQueue`: `DrainSpec => Spec` of `ErrorQueue`.

Other threads fill and empty the queue between two reads of a drain, so the queue alone
tells nothing about it. `LoopInv` counts: what a drain has read and what is queued
together are at most the capacity and what was raised since it began.

`ScpiClientProofs`, for any set of calls and any number of connections:

- `ClientTypeCorrect`: `Spec => []TypeOK`, in which the mutex and the places of the calls
  agree, whatever the program does;
- `QueryReturnsOwnAnswer`: `Spec => []OwnAnswer`, if `ClosesBeforeReopen`;
- `LinkStaysInStep`: `Spec => []InStep`, if `ClosesBeforeReopen`;
- `ClientImplementsRequestReply`: `Spec => ImplementsRequestReply`, if
  `ClosesBeforeReopen`.

`OwnAnswer` alone is not inductive: what a read returns depends on what is in `rx`,
on its way, and still to be handled by the instrument. `LinkInv` lists what these
can hold: between calls an open link is silent (nothing arrived, on its way or
asked for) or dead (the peer is gone and no complete line is left); while a query
reads, its own answer may also be asked for as the last line, or be on its way in
one of three ways; a link that was closed has an empty `rx`. Without
`ClosesBeforeReopen` the last part fails, which is what `scpi_client_reopen` shows.
The refinement has one lemma per action: taking the mutex is a call that becomes active,
returning is a reply with the caller's own answer or none, all else is a stutter.

`SimulatorServerProofs`, for any set of clients and any number of lines and callers:

- `ServerOneAtATime`: `Spec => []OneAtATime`;
- `ServerServesUntilStopped`: `Spec => []ServesUntilStopped`;
- `ServerKeepsLinesApart`: `Spec => []LinesOfCurrentClient`;
- `ServerGoneOnReturn`: `Spec => []GoneOnReturn`;
- `ServerDropsNobody`: `Spec => AcceptedInNobodysPlace`, an action property: `client_` changes
  only by being reset or by being set where it was empty, so `on_accept()` never overwrites
  a client whose end the server has not seen.

The accept-read chain is a token that is in one place: completed in the queue of
handlers, waiting for the network, or with the io thread. `ChainInv` says that there is
at most one, and what the buffer and the sockets look like in each place; `StopInv` that
it is there until `stop()`. `OnceInv` says that a socket is accepted once, so that a
client that is gone does not come back, and `AcceptInv` that nobody is connected while an
accept is waiting, completed or about to start, which a handler that
`disconnect_client()` posted in between must not break.

`StatusReportingProofs`, for every choice of watches and masks
(`StatusReportingAssumption`) and every capacity of the error queue:

- `EventsAreReal`: `StatusSpec => []NoPhantomEvents`;
- `RisesAreReported`: `StatusSpec => []LastingRiseReported`;
- `PollingSuffices`: `StatusSpec => []ServiceRequested`;
- `ReadingsAreHonest`: `StatusSpec => []ReadingsTellTheirInputs`;
- `PollingIsHarmless`: `StatusSpec => PollingTakesNothing`, an action property: `*STB?`
  latches a register, and no EVENt query answers differently after it;
- `StatusKeepsQueue`: `StatusSpec => Spec` of `ErrorQueue`.

What the next query would answer depends on masks that can change before it; `RegistersInv`
relates previous condition, stored events and the histories without them, and survives
`*CLS` because `unnoticed` is exactly what the previous conditions do not know yet.
`PollingSuffices` also needs the queue's `EsrOrOverflow`. For `ReadingsAreHonest` the
instrument's state has to be one that the settings allow (`InstrumentState`); lemmas follow
`measure()` through its early returns, its branches (`BranchValue`) and the sign filter, and
compare each value with `DeterminedAlone`; the efficiency uses what they say of the two
functions it refers to (`ReferenceValues`).

`NativeHandleProofs`, for every size and number of buffers and any number of calls:

- `FailureHasOwnMessage`: `HandleSpec => []OwnMessage`;
- `CheckTellsWhatItTook`: `HandleSpec => []CheckErrorsTells`;
- `FirstBufferLosesNothing`: `HandleSpec => []OneExchangeLosesNothing`;
- `RetriesLoseEarlierOnly`: `HandleSpec => [](LosesEarlierAnswersOnly /\ RetriesBounded)`;
- `HandleKeepsQueue`: `HandleSpec => Spec` of `ErrorQueue`, so its theorems hold for the
  clients of the C API.

The properties are about the call that ended last. `CallOrder` says that it is older than
the call of a loop that is running, `LoopCollects` what the loop has taken so far.
`CodeStays` goes through the calls once more for `CheckErrorsTells`: all but a check that
ends in SCPI leave the handle's code alone.
`RetriesLoseEarlierOnly` bounds what the finding about `Query()` costs: a repeated query of
the error queue does lose entries, but it shows the whole of its last answer, so the ones it
lost are older than all it shows, and no loop goes past its last buffer.

`DesktopSessionProofs`, for any number of poll reads, clicks and function lists
(`DesktopAssumption`):

- `CallsAreSerialized`: `DesktopSpec => []SerializedCalls`;
- `HandlesDoNotLeak`: `DesktopSpec => []NoHandleLeaks`;
- `RowsMatchUnlessDisturbed`: `DesktopSpec => []UndisturbedRows`;
- `SomebodyGoesOn`: `DesktopSpec => []NobodyStuck`: as long as a method is under way, one of
  them is in its native call or can have the UI thread;
- `HandlesOnlyAge`: `DesktopSpec => HandlesAge`, an action property: a handle that is disposed
  of stays so, and a link that died is not opened again.

`GateInv`: the gate's queue holds every method that waits for the gate or has it, once, and
only its head is past `WaitAsync()`. That gives the first; `HandlesOwned`, with the
numbering of handles, the second; `ReadsUndisturbed`, about a read between its two calls,
the third. `UiInv` says that the UI thread is in a method only between its `Release()` and
its next await, or when it found the gate free; with `GateInv` that leaves no circle of
gate and UI thread, which is what safety can say of `CommandsEnd`: that the one who can go
on does is the fairness TLC assumes.

`InstrumentMethodsProofs`, for every usage, length of line and number of waiting responses:

- `LinesAnsweredOrExplained`: `CommandSpec => []AnsweredOrExplained`;
- `FormatsStayCoupled`: `CommandSpec => []FormatsCoupled`;
- `SessionKeepsCommands`: `MethodsSpec => [](AnsweredOrExplained /\ FormatsCoupled)`;
- `SessionInStep`: `MethodsSpec => []InStep`;
- `TimeoutHasReason`: `MethodsSpec => []TimeoutExplained`;
- `PreparedSessionIsText`: `MethodsSpec => PreparedForText`;
- `SettersConflictAtMost`: `MethodsSpec => []RejectedForConflict`;
- `PreparedGettersRead`: `MethodsSpec => []TextSession`;
- `CommandsKeepQueue`, `SessionKeepsQueue`: `CommandSpec => Spec` and `MethodsSpec => Spec` of
  `ErrorQueue`.

One lemma per handler shows that a command is `Orderly`: it answers and is a query, or is
carried out and is none, or fails with an error queued; the queue takes a step of its own or
none; and the settings are `Kept`: the formats stay coupled, a setting that takes keywords
holds one of its own (`Worded`), and text stays text unless the command chooses a binary
format. `MethodsInv` adds that a session's command is a
line of its own and that nothing waits unless `disturbed`. `PrepareInv` says what the steps of
`prepare()` have reached, `Tolerated` that a setter with good arguments is carried out or
meets a conflict. `TextInv` joins them: a prepared session that chose no binary format has
text formats, what it reads is the answer to its own query, and in a `Worded` state that
answer is one its parser reads.

The prover does not know `:>` and `@@`, with which the tables are written. What a proof
needs of them is stated as five assumptions without constants, which TLC evaluates:
`FormatRowsAssumption` (which rows write the formats), `KeywordRowsAssumption` (which rows
write a keyword setting, and what), `PrepareRowsAssumption` (the commands of `prepare()` have
code of their own), `SetterRowsAssumption` (suffix and parameter of every setter are among
those of its row) and `GetterRowsAssumption` (every getter's parser reads each form its row
can answer). The last two are the agreement of the library's tables with the simulator's;
the theorems add that nothing else makes a handler refuse or a parser throw.

The proof of `SettersConflictAtMost` corrected a property: `RejectedForConflict` left the
overflow error out, which a rejection leaves in a full queue, and held only because the run
allowed one error.

Model-checked only:

- everything under fairness: `DrainEnds`, `CallsEnd`, `DisconnectReturns`,
  `StopReturnsOnceClientsLeave`, `CommandsEnd`, `PollingStops` (the prover does not treat
  liveness);
- `FindsItsRow`, `RelativeAsInFull`, `FunctionsReadBack`, `ErrorsAtOnceComplete`: the matcher
  is a `RECURSIVE` operator, which the prover does not treat, and what the folds of
  `ScpiText` compute would need induction over texts.

## 6. Not modelled

The digits of measured values and the means over several phases (floating-point
formulas without state), the spectrum, wording and number formats of answers, GPIB and the
PI1 process interface (absent from the code), the pybind11 declarations, the Python
wrapper's typing, `main.cpp`, examples and build files. What `SimulatorTransport` and
`NormaSimulator` record for tests is left out, as are the timeouts' durations.
Two threads inside `stop()` at once, and `open()` or `close()` while a
call runs, are outside the contracts of the classes and left out.

## 7. Plan

The modules of section 2, the runs of section 3 and the proofs of section 5 are what was
planned. What could follow, with another prover or a later version of this one:

1. `FindsItsRow` and the other properties of the parser as theorems: the matcher would be
   written as a recursive function on pairs of positions, and each property needs induction
   over texts;
2. liveness, from `SomebodyGoesOn`, `RetriesBounded` and `DrainComplete`, which say that
   somebody can always go on and that the loops are bounded.
