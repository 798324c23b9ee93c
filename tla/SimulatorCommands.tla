------------------------- MODULE SimulatorCommands -------------------------
(***************************************************************************)
(* NormaSimulator's command handlers: what a command does to the settings, *)
(* to the answers and to the error queue.  handle_line() runs the commands *)
(* of a line in order and stops at the first one that fails; execute()     *)
(* gives a command to the handler that knows its key, and a handler reads  *)
(* or writes a setting through the Access helpers.                         *)
(*                                                                         *)
(* A command is a record like NormaSimulator::Command: its key of the      *)
(* command table, its suffix, whether it is a query, and its parameters as *)
(* the class the code tells apart.  "none" is no parameter, "bad" one that *)
(* cannot be read; a number is "in" its setting's range, "out" of it,      *)
(* "wide" (in the ABSolute range of SYNC:LEV only) or "nan"; a function    *)
(* list has "one" name or "many".                                          *)
(*                                                                         *)
(* A setting is named by its field and its suffix, 1 where there is none;  *)
(* "initial" is its *RST value.  Channels 1 and 2 stand for the odd        *)
(* (current) and the even (voltage) inputs, phases 1 and 2 for the six.    *)
(* What the STATus registers hold is in module StatusReporting.            *)
(***************************************************************************)
EXTENDS ErrorQueue, CommandShapes, Integers, FiniteSets, TLC

CONSTANTS Usages,  \* what the clients of a behaviour use, by name: the keys, and a
                   \* bound on the settings away from *RST
          MaxLine  \* bound on the commands of a line

kMissingParameter == -109
kUndefinedHeader == -113
kSettingsConflict == -221
kDataOutOfRange == -222
kIllegalParameterValue == -224

VARIABLES usage,  \* the name of the usage
          state,  \* SimulatorState: the settings away from their *RST value
          line    \* the line handle_line() is working on

commandVars == <<errorQueueVars, usage, state, line>>

Channels == 1 .. 2
Phases == 1 .. 2
Blocks == 1 .. 2

ASSUME SimulatorCommandsAssumption ==
    /\ {kMissingParameter, kUndefinedHeader, kSettingsConflict, kDataOutOfRange,
        kIllegalParameterValue} \subseteq Codes
    /\ \A u \in DOMAIN Usages : Usages[u].keys \subseteq AllKeys /\ Usages[u].changes \in Nat
    /\ MaxLine \in Nat \ {0}

-----------------------------------------------------------------------------
(* Commands and settings.                                                  *)

\* A suffix of 0 was left out and means 1; 9 is beyond every channel, phase
\* and sweep block and the one digital output; 460 is the second system.
SuffixedKeys ==
    DOMAIN InputShapes \union DOMAIN RangeShapes \union DOMAIN SweepShapes
        \union {"INIT:SEQ#", "OUTP#:STAT", "CALC:POW#:EFF:REF"}
Suffixes(k) == IF k \in SuffixedKeys THEN {0, 2, 9, 460} ELSE {0}

Command(k, n, query, arg) == [key |-> k, suffix |-> n, query |-> query, arg |-> arg]
Commands(k) ==
    {Command(k, n, FALSE, a) : n \in Suffixes(k), a \in Shapes[k].args}
        \union {Command(k, n, TRUE, a) : n \in Suffixes(k), a \in Shapes[k].asks}

suffix(c) == IF c.suffix = 0 THEN 1 ELSE c.suffix

\* The settings of the keys of a table, with their *RST values.
FreshIn(shapes, indices) ==
    LET writable == {k \in DOMAIN shapes : "field" \in DOMAIN shapes[k]}
    IN  [x \in {shapes[k].field : k \in writable} \X indices |->
            shapes[CHOOSE k \in writable : shapes[k].field = x[1]].fresh]

fresh ==
    FreshIn(InputShapes, Channels) @@ FreshIn(RangeShapes, Phases)
    @@ FreshIn(SweepShapes, Blocks) @@ FreshIn(Shapes, {1})
    @@ [x \in {"initiated", "integral_running", "saved_setups"} \X {1} |-> "OFF"]

Setting(x) == IF x \in DOMAIN state THEN state[x] ELSE fresh[x]
Is(field, value) == Setting(<<field, 1>>) = value

\* The state in which every setting has its *RST value, and state s with the
\* settings in changes at new values.
FreshState == <<>>
Changed(s, changes) ==
    LET all == [x \in DOMAIN changes \union DOMAIN s |->
                   IF x \in DOMAIN changes THEN changes[x] ELSE s[x]]
    IN  [x \in {x \in DOMAIN all : all[x] # fresh[x]} |-> all[x]]

\* Changes of one setting, and of two.
Put(x, value) == [y \in {x} |-> value]
PutBoth(x, value, y, other) == [z \in {x, y} |-> IF z = x THEN value ELSE other]
With(field, value) == Changed(state, Put(<<field, 1>>, value))

FormatSettings == {<<"data_format", 1>>, <<"status_format", 1>>}
ShapeTables ==
    {CommonShapes, RouteShapes, InputShapes, RangeShapes, SenseShapes, SweepShapes, SyncShapes,
     AcquisitionShapes, TriggerShapes, CalculateShapes, TraceShapes, FormatShapes,
     DisplayOutputShapes, SystemShapes, StatusShapes, TimerShapes}

\* What the rows of the tables say of the two formats: both are text after
\* *RST, and no row but FORM and FORM:STAT, whose kind is "own", writes to them.
ASSUME FormatRowsAssumption ==
    /\ \A x \in FormatSettings : fresh[x] = "ASC"
    /\ \A shapes \in ShapeTables : \A k \in DOMAIN shapes :
          /\ shapes[k].kind \in {"number", "integer", "boolean", "keyword", "list", "text"} =>
                shapes[k].field \notin {"data_format", "status_format"}
          /\ shapes[k].kind = "event" => DOMAIN shapes[k].changes \intersect FormatSettings = {}

\* The fields that hold a keyword, the keywords of each, and the fields that
\* handlers with code of their own write to.
KeywordKeys == {k \in AllKeys : Shapes[k].kind = "keyword"} \union {"FORM", "FORM:STAT"}
KeywordFields == {Shapes[k].field : k \in KeywordKeys}
Vocabulary(f) ==
    UNION {Shapes[k].args : k \in {k \in KeywordKeys : Shapes[k].field = f}} \ {"none", "bad"}
OwnFields ==
    {"saved_setups", "voltage.range", "voltage.autorange", "current.range", "current.autorange",
     "functions", "concurrent", "sweep.time", "sync_level", "sweep.enabled", "transform_cycles",
     "integral_running", "efficiency", "date", "time"}

\* What the rows say of the keywords: a field begins with one of its own, and
\* no row writes anything else to it.
ASSUME KeywordRowsAssumption ==
    /\ FormatSettings \subseteq DOMAIN fresh
    /\ \A x \in DOMAIN fresh : x[1] \in KeywordFields => fresh[x] \in Vocabulary(x[1])
    /\ \A f \in {"data_format", "status_format"} : Formats \subseteq Vocabulary(f)
    /\ OwnFields \intersect KeywordFields = {}
    /\ \A shapes \in ShapeTables : \A k \in DOMAIN shapes :
          /\ shapes[k].kind \in {"number", "integer", "boolean", "list", "text"} =>
                shapes[k].field \notin KeywordFields
          /\ shapes[k].kind = "keyword" =>
                shapes[k].args \ {"none", "bad"} \subseteq Vocabulary(shapes[k].field)
          /\ shapes[k].kind = "event" =>
                \A x \in DOMAIN shapes[k].changes : x[1] \notin KeywordFields

-----------------------------------------------------------------------------
(* handle_line(): one line, command by command.  length is what the client *)
(* sent, done how many of them ran, asked how many of those were queries   *)
(* and answered how many responses were collected.                         *)

NoLine == [length |-> 0, done |-> 0, asked |-> 0, answered |-> 0, failed |-> "no"]

CommandInit ==
    /\ Init
    /\ usage \in DOMAIN Usages
    /\ state = FreshState
    /\ line = NoLine

line_ended == line.done = line.length \/ line.failed # "no"

\* A client begins a line of n commands once the last one is finished; its
\* response, if there is one, goes out as one line.
NewLine(n) ==
    /\ line_ended
    /\ line' = [NoLine EXCEPT !.length = n]
    /\ UNCHANGED <<errorQueueVars, usage, state>>

\* The line with one more command; a command sent when no line is under way
\* is a line of its own.
next_command(c) ==
    [(IF line_ended THEN [NoLine EXCEPT !.length = 1] ELSE line) EXCEPT
        !.done = @ + 1, !.asked = @ + (IF c.query THEN 1 ELSE 0)]

within_bound(s) == Cardinality(DOMAIN s) <= Usages[usage].changes

\* The outcomes of a command: it answers (and may change settings), it is
\* carried out, or it fails and ends the line.
respond_with(c, s) ==
    /\ within_bound(s)
    /\ state' = s
    /\ line' = [next_command(c) EXCEPT !.answered = @ + 1]
    /\ UNCHANGED <<errorQueueVars, usage>>

respond(c) == respond_with(c, state)

accept(c, s) ==
    /\ within_bound(s)
    /\ state' = s
    /\ line' = next_command(c)
    /\ UNCHANGED <<errorQueueVars, usage>>

fail(c, code) ==
    /\ push_error(code)
    /\ line' = [next_command(c) EXCEPT !.failed = "command"]
    /\ UNCHANGED <<usage, state>>

\* A command that acts on the error queue or the event status register.
status_command(c, A, answers) ==
    /\ A
    /\ line' = [next_command(c) EXCEPT !.answered = @ + (IF answers THEN 1 ELSE 0)]
    /\ UNCHANGED <<usage, state>>

-----------------------------------------------------------------------------
(* Access.                                                                 *)

query_only(c, A) ==
    \/ c.query /\ A
    \/ ~c.query /\ fail(c, kUndefinedHeader)

command_only(c, A) ==
    \/ c.query /\ fail(c, kUndefinedHeader)
    \/ ~c.query /\ A

\* Shared by all: the query, the missing and the unreadable parameter.
parameter(c) ==
    \/ c.query /\ respond(c)
    \/ ~c.query /\ c.arg = "none" /\ fail(c, kMissingParameter)
    \/ ~c.query /\ c.arg = "bad" /\ fail(c, kIllegalParameterValue)

\* The setting x becomes the parameter if that is one of values.
store(c, x, values) ==
    ~c.query /\ c.arg \in values /\ accept(c, Changed(state, Put(x, c.arg)))

\* parse_number() reads "nan" too, and value < min || value > max lets it by.
number(c, x, in_range) ==
    \/ parameter(c)
    \/ ~c.query /\ c.arg \notin in_range \union {"none", "bad", "nan"} /\ fail(c, kDataOutOfRange)
    \/ store(c, x, in_range \union {"nan"})

\* std::lround() of a NaN is unspecified: any number, in range or not.
integer(c, x) ==
    \/ parameter(c)
    \/ ~c.query /\ c.arg \in {"out", "nan"} /\ fail(c, kDataOutOfRange)
    \/ ~c.query /\ c.arg \in {"in", "nan"} /\ accept(c, Changed(state, Put(x, "in")))

\* A number where the parameter has three parts that are converted to int:
\* what a NaN becomes is unspecified.
date_time(c, x) ==
    \/ parameter(c)
    \/ ~c.query /\ c.arg = "out" /\ fail(c, kDataOutOfRange)
    \/ store(c, x, {"in"})
    \/ ~c.query /\ c.arg = "nan" /\ \E v \in {"in", "out"} : accept(c, Changed(state, Put(x, v)))

\* Mutant: a keyword that is none of the allowed ones is stored.
word_unchecked(c, x, values) ==
    \/ c.query /\ respond(c)
    \/ ~c.query /\ c.arg = "none" /\ fail(c, kMissingParameter)
    \/ store(c, x, values \union {"bad"})

\* boolean(), keyword() and read_function_list(), which builds the list aside
\* so that a bad name leaves the old one; free text takes any parameter.
word(c, x, values) == parameter(c) \/ store(c, x, values)

\* One call on an Access helper; keys with code of their own are elsewhere.
access(c, shape, n) ==
    \/ shape.kind = "query" /\ query_only(c, respond(c))
    \/ shape.kind = "event" /\ command_only(c, accept(c, Changed(state, shape.changes)))
    \/ shape.kind = "number" /\ number(c, <<shape.field, n>>, {"in"})
    \/ shape.kind = "integer" /\ integer(c, <<shape.field, n>>)
    \/ /\ shape.kind \in {"boolean", "keyword", "list", "text"}
       /\ word(c, <<shape.field, n>>, shape.args \ {"none", "bad"})

-----------------------------------------------------------------------------
(* The handlers.                                                           *)

\* *SAV keeps a flag for the slot, not the setup.
SaveCommand(c) ==
    \/ parameter(c)
    \/ c.arg \in {"out", "nan"} /\ fail(c, kDataOutOfRange)
    \/ c.arg \in {"in", "nan"} /\ accept(c, With("saved_setups", "ON"))

\* *RCL checks its slot, which is none of 3 to 9, and recalls nothing.
RecallCommand(c) ==
    \/ parameter(c)
    \/ c.arg \in {"out", "gap", "nan"} /\ fail(c, kDataOutOfRange)
    \/ c.arg \in {"in", "nan"} /\ accept(c, state)

\* *RST: everything but the error queue.
ResetCommand(c) ==
    /\ reset
    /\ state' = FreshState
    /\ line' = next_command(c)
    /\ UNCHANGED usage

handle_common(c) ==
    \/ access(c, CommonShapes[c.key], 1)
    \/ c.key = "*RST" /\ command_only(c, ResetCommand(c))
    \/ c.key = "*CLS" /\ command_only(c, status_command(c, clear_status, FALSE))
    \/ c.key = "*OPC" /\ c.query /\ respond(c)
    \/ c.key = "*OPC" /\ ~c.query /\ status_command(c, OperationCompleteCommand, FALSE)
    \/ c.key = "*ESR" /\ query_only(c, status_command(c, EventStatusQuery, TRUE))
    \/ c.key = "*SAV" /\ command_only(c, SaveCommand(c))
    \/ c.key = "*RCL" /\ command_only(c, RecallCommand(c))

handle_route(c) == access(c, RouteShapes[c.key], 1)

\* GAIN and SHUNt apply to the odd channels only.
handle_input(c) ==
    LET wrong_side == c.key \in {"INP#:GAIN", "INP#:SHUN"} /\ suffix(c) % 2 = 0
    IN  \/ suffix(c) \notin Channels /\ fail(c, kDataOutOfRange)
        \/ suffix(c) \in Channels /\ wrong_side /\ fail(c, kSettingsConflict)
        \/ suffix(c) \in Channels /\ ~wrong_side /\ access(c, InputShapes[c.key], suffix(c))

\* VOLT#:RANG and CURR#:RANG: a value snaps to the next range, a NaN to the
\* largest, and autorange goes off.
RangeCommand(c, range, autorange) ==
    \/ parameter(c)
    \/ ~c.query /\ c.arg = "out" /\ fail(c, kDataOutOfRange)
    \/ ~c.query /\ \E v \in IF c.arg = "in" THEN {"initial", "in"}
                            ELSE IF c.arg = "nan" THEN {"initial"} ELSE {} :
          accept(c, Changed(state, PutBoth(range, v, autorange, "OFF")))

sense_range(c) ==
    \/ suffix(c) \notin Phases /\ fail(c, kDataOutOfRange)
    \/ /\ suffix(c) \in Phases
       /\ \/ access(c, RangeShapes[c.key], suffix(c))
          \/ /\ c.key = "VOLT#:RANG"
             /\ RangeCommand(c, <<"voltage.range", suffix(c)>>, <<"voltage.autorange", suffix(c)>>)
          \/ /\ c.key = "CURR#:RANG"
             /\ RangeCommand(c, <<"current.range", suffix(c)>>, <<"current.autorange", suffix(c)>>)

\* FUNC takes a list, one function only while CONCurrent is OFF.
FunctionCommand(c) ==
    LET allowed == IF Is("concurrent", "ON") THEN {"one", "many"} ELSE {"one"}
    IN  \/ word(c, <<"functions", 1>>, allowed)
        \/ ~c.query /\ c.arg \in {"many"} \ allowed /\ fail(c, kSettingsConflict)

\* FUNC:CONC OFF cuts a list down to its first function.
ConcurrentCommand(c) ==
    LET cut == c.arg = "OFF" /\ Is("concurrent", "ON") /\ Is("functions", "many")
    IN  \/ parameter(c)
        \/ ~cut /\ store(c, <<"concurrent", 1>>, {"ON", "OFF"})
        \/ ~c.query /\ cut /\ accept(c, Changed(state, PutBoth(<<"concurrent", 1>>, "OFF",
                                                               <<"functions", 1>>, "one")))

\* DATA? and DATA:STAT? answer for the configured functions, or for those in
\* the list, which then replaces them.
DataQuery(c) ==
    \/ c.arg = "none" /\ respond(c)
    \/ c.arg = "bad" /\ fail(c, kIllegalParameterValue)
    \/ c.arg \in {"one", "many"} /\ respond_with(c, With("functions", c.arg))

sense_function(c) ==
    \/ access(c, SenseShapes[c.key], 1)
    \/ c.key = "FUNC" /\ FunctionCommand(c)
    \/ c.key = "FUNC:CONC" /\ ConcurrentCommand(c)
    \/ c.key \in {"DATA", "DATA:STAT"} /\ query_only(c, DataQuery(c))

\* SWE1 and SWE2; SWE#:TIME also takes MAX.
sense_sweep(c) ==
    \/ suffix(c) \notin Blocks /\ fail(c, kDataOutOfRange)
    \/ /\ suffix(c) \in Blocks
       /\ \/ access(c, SweepShapes[c.key], suffix(c))
          \/ c.key = "SWE#:TIME" /\ number(c, <<"sweep.time", suffix(c)>>, {"in", "MAX"})

\* SYNC:LEV: the range depends on the unit at the time of the command.
handle_sync(c) ==
    \/ access(c, SyncShapes[c.key], 1)
    \/ /\ c.key = "SYNC:LEV"
       /\ number(c, <<"sync_level", 1>>,
                 IF Is("sync_level_unit", "ABS") THEN {"in", "wide"} ELSE {"in"})

\* INIT:SEQ1 and INIT:SEQ2 switch a sweep on.
SequenceCommand(c) ==
    \/ suffix(c) \notin Blocks /\ fail(c, kDataOutOfRange)
    \/ /\ suffix(c) \in Blocks
       /\ accept(c, Changed(state, Put(<<"sweep.enabled", suffix(c)>>, "ON")))

handle_acquisition(c) ==
    \/ access(c, AcquisitionShapes[c.key], 1)
    \/ c.key = "INIT:SEQ#" /\ command_only(c, SequenceCommand(c))

\* A date and time of six parameters that nothing is done with.
IgnoredTime(c) ==
    \/ c.arg = "none" /\ fail(c, kMissingParameter)
    \/ c.arg = "in" /\ accept(c, state)

handle_trigger(c) ==
    \/ access(c, TriggerShapes[c.key], 1)
    \/ c.key \in {"TRIG:STAR:TIME", "TRIG:STOP:TIME"} /\ command_only(c, IgnoredTime(c))

\* CALC:TRAN:FREQ ONCE computes a spectrum and changes no setting.
TransformOnce(c) == parameter(c) \/ (c.arg = "ONCE" /\ accept(c, state))

\* CALC:TRAN:FREQ:CYCL: an even number from 4 to 12.
CyclesCommand(c) ==
    \/ integer(c, <<"transform_cycles", 1>>)
    \/ ~c.query /\ c.arg \in {"odd", "nan"} /\ fail(c, kIllegalParameterValue)

\* A data query with a <count>,<offset>,<sparsing> window that may be bad.
WindowedQuery(c) ==
    \/ c.arg \in {"none", "in"} /\ respond(c)
    \/ c.arg = "bad" /\ fail(c, kIllegalParameterValue)

\* Mutant: THD? outside STD mode returns early.
ThdQuery_early(c) ==
    \/ ~Is("transform_mode", "STD") /\ accept(c, state)
    \/ Is("transform_mode", "STD") /\ respond(c)

\* CALC:DATA:THD? works in STD mode only.
ThdQuery(c) ==
    \/ ~Is("transform_mode", "STD") /\ fail(c, kSettingsConflict)
    \/ Is("transform_mode", "STD") /\ respond(c)

\* CALC:INT:STAR needs CALC:INT:STAT ON; switching it OFF stops nothing.
IntegralStart(c) ==
    \/ Is("integral_enabled", "ON") /\ accept(c, With("integral_running", "ON"))
    \/ Is("integral_enabled", "OFF") /\ fail(c, kSettingsConflict)

\* Mutant: the suffix that was left out is not among the aggregates.
EfficiencyReference_spelled(c) ==
    \/ c.suffix # 460 /\ fail(c, kUndefinedHeader)
    \/ c.suffix = 460 /\ word(c, <<"efficiency", 1>>, {"in"})

\* CALC:POW#:EFF:REF takes the aggregate suffixes only: none, or 460.
EfficiencyReference(c) ==
    \/ c.suffix \notin {0, 460} /\ fail(c, kUndefinedHeader)
    \/ c.suffix \in {0, 460} /\ word(c, <<"efficiency", 1>>, {"in"})

calculate_transform(c) ==
    \/ c.key = "CALC:TRAN:FREQ:STAT" /\ command_only(c, TransformOnce(c))
    \/ c.key = "CALC:TRAN:FREQ:CYCL" /\ CyclesCommand(c)
    \/ c.key = "CALC:DATA" /\ query_only(c, WindowedQuery(c))
    \/ c.key = "CALC:DATA:THD" /\ query_only(c, ThdQuery(c))

handle_calculate(c) ==
    \/ access(c, CalculateShapes[c.key], 1)
    \/ calculate_transform(c)
    \/ c.key = "CALC:INT:STAR" /\ command_only(c, IntegralStart(c))
    \/ c.key \in {"CALC:INT:STAR:TIME", "CALC:INT:STOP:TIME"} /\ command_only(c, IgnoredTime(c))
    \/ c.key = "CALC:POW#:EFF:REF" /\ EfficiencyReference(c)

\* TRAC?, TRAC:PRE? and TRAC:STAT? need their block.
TraceQuery(c) ==
    \/ c.arg = "none" /\ fail(c, kMissingParameter)
    \/ c.arg # "none" /\ WindowedQuery(c)

handle_trace(c) ==
    \/ access(c, TraceShapes[c.key], 1)
    \/ c.key \in {"TRAC", "TRAC:PRE", "TRAC:STAT"} /\ query_only(c, TraceQuery(c))

\* Mutant: only a change to binary reaches the other format.
coupled_format_one_way(old, new, is_data) ==
    IF old = "ASC" /\ new # "ASC" THEN (IF is_data THEN "INT" ELSE "REAL") ELSE old

\* The other of the two formats, after one becomes text or binary.
coupled_format(old, new, is_data) ==
    IF (old # "ASC") = (new # "ASC") THEN old
    ELSE IF new = "ASC" THEN "ASC"
    ELSE IF is_data THEN "INT" ELSE "REAL"

\* FORM and FORM:STAT; the lengths are left out.
FormatCommand(c) ==
    LET is_data == c.key = "FORM"
        own == IF is_data THEN <<"data_format", 1>> ELSE <<"status_format", 1>>
        other == IF is_data THEN <<"status_format", 1>> ELSE <<"data_format", 1>>
    IN  \/ parameter(c)
        \/ /\ ~c.query /\ c.arg \in Formats
           /\ accept(c, Changed(state, PutBoth(own, c.arg, other,
                                   coupled_format(Setting(other), c.arg, is_data))))

handle_format(c) ==
    \/ access(c, FormatShapes[c.key], 1)
    \/ c.key \in {"FORM", "FORM:STAT"} /\ FormatCommand(c)

\* The digital output has the suffix 9.
handle_display_output(c) ==
    LET wrong_output == c.key = "OUTP#:STAT" /\ suffix(c) # 9
    IN  \/ wrong_output /\ fail(c, kUndefinedHeader)
        \/ ~wrong_output /\ access(c, DisplayOutputShapes[c.key], 1)

\* SYST:ERR? and SYST:ERR:ALL? on an empty queue answer 0,"No error".
NoErrorLeft == errors = <<>> /\ UNCHANGED errorQueueVars

handle_system(c) ==
    \/ access(c, SystemShapes[c.key], 1)
    \/ c.key = "SYST:ERR" /\ query_only(c, status_command(c, SystErr \/ NoErrorLeft, TRUE))
    \/ c.key = "SYST:ERR:ALL" /\ query_only(c, status_command(c, SystErrAll \/ NoErrorLeft, TRUE))
    \/ c.key = "SYST:DATE" /\ date_time(c, <<"date", 1>>)
    \/ c.key = "SYST:TIME" /\ date_time(c, <<"time", 1>>)

handle_status(c) == access(c, StatusShapes[c.key], 1)

\* The manual marks TIM:RES:AUTO as not implemented.
handle_timer(c) ==
    \/ access(c, TimerShapes[c.key], 1)
    \/ c.key = "TIM:RES:AUTO" /\ fail(c, kUndefinedHeader)

\* execute(), and handle_common() for a key that begins with an asterisk.
execute(c) ==
    \/ c.key \in DOMAIN CommonShapes /\ handle_common(c)
    \/ c.key \in DOMAIN RouteShapes /\ handle_route(c)
    \/ c.key \in DOMAIN InputShapes /\ handle_input(c)
    \/ c.key \in DOMAIN RangeShapes /\ sense_range(c)
    \/ c.key \in DOMAIN SenseShapes /\ sense_function(c)
    \/ c.key \in DOMAIN SweepShapes /\ sense_sweep(c)
    \/ c.key \in DOMAIN SyncShapes /\ handle_sync(c)
    \/ c.key \in DOMAIN AcquisitionShapes /\ handle_acquisition(c)
    \/ c.key \in DOMAIN TriggerShapes /\ handle_trigger(c)
    \/ c.key \in DOMAIN CalculateShapes /\ handle_calculate(c)
    \/ c.key \in DOMAIN TraceShapes /\ handle_trace(c)
    \/ c.key \in DOMAIN FormatShapes /\ handle_format(c)
    \/ c.key \in DOMAIN DisplayOutputShapes /\ handle_display_output(c)
    \/ c.key \in DOMAIN SystemShapes /\ handle_system(c)
    \/ c.key \in DOMAIN StatusShapes /\ handle_status(c)
    \/ c.key \in DOMAIN TimerShapes /\ handle_timer(c)

\* A header that is no common command and matches no pattern of the table.
UndefinedHeader(c) ==
    /\ push_error(kUndefinedHeader)
    /\ line' = [next_command(c) EXCEPT !.failed = "header"]
    /\ UNCHANGED <<usage, state>>

\* The next command of the line, or one that is a line of its own.
NextCommand ==
    \/ \E k \in Usages[usage].keys : \E c \in Commands(k) : execute(c)
    \/ \E asks \in BOOLEAN : UndefinedHeader([query |-> asks])

CommandNext == (\E n \in 2 .. MaxLine : NewLine(n)) \/ NextCommand

CommandSpec == CommandInit /\ [][CommandNext]_commandVars

-----------------------------------------------------------------------------
(* Properties.                                                             *)

\* What keeps a client in step with handle_line(): every query of the line
\* that ran has its response, and when one has none the line failed and
\* SYST:ERR? will say why.  So a line without queries gets no response, and a
\* query that goes unanswered is never unexplained.
AnsweredOrExplained ==
    \/ line.answered = line.asked
    \/ line.failed # "no" /\ errors # <<>>

\* handle_format() keeps FORMat[:DATA] and FORMat[:DATA]:STATus both text or
\* both binary, whichever of them a client sets.
FormatsCoupled == Is("data_format", "ASC") <=> Is("status_format", "ASC")
=============================================================================
