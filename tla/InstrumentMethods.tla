------------------------- MODULE InstrumentMethods -------------------------
(***************************************************************************)
(* NormaInstrument's methods on the in-process SimulatorTransport.  A      *)
(* method checks its arguments, sends one command, and a getter reads one  *)
(* line and parses it.  The settings outlive a connection, so another      *)
(* client comes first and sends what it likes (module SimulatorCommands);  *)
(* then a session opens, may call prepare(), and calls its methods, each   *)
(* with one of the faults the transport can inject, or none.               *)
(*                                                                         *)
(* A method is a row of a table under the key its command has in the       *)
(* simulator: a setter and its getter share a row.  An answer is told by   *)
(* what a parser makes of it: a "number" is one or more numeric fields, a  *)
(* word stands for itself, a "block" is binary and "nothing" an empty line.*)
(***************************************************************************)
EXTENDS SimulatorCommands

CONSTANT MaxPending  \* bound on the responses that wait when a call begins

\* A usage also says whether its sessions meet faults and leave answers unread.

VARIABLES step,       \* where the session is: "other" before it opens
          responses,  \* responses_ of the transport
          outcome,    \* how the last call ended
          text,       \* history: prepare() was done and no binary format chosen since
          disturbed   \* history: a read failed, or a query was sent with write()

methodVars == <<commandVars, step, responses, outcome, text, disturbed>>

ASSUME InstrumentMethodsAssumption ==
    /\ MaxPending \in Nat
    /\ \A u \in DOMAIN Usages : Usages[u].faulty \in BOOLEAN

-----------------------------------------------------------------------------
(* The keywords: what the setters send and what the getters accept.        *)

\* to_scpi(), and the two words of set_wiring_system().
to_scpi ==
    "ROUT:SYST" :> {"2W", "3W"} @@ "INP#:COUP" :> {"AC", "DC"} @@ "INP#:SHUN" :> {"EXT", "INT"}
    @@ [k \in {"SYNC:SLOP", "TRIG:STAR:SLOP", "TRIG:STOP:SLOP"} |-> {"POS", "NEG"}]
    @@ "SYNC:LEV:UNIT" :> {"PCT", "ABS"} @@ "FORM:BORD" :> {"SWAP", "NORM"}
    @@ [k \in {"FORM", "FORM:STAT"} |-> {"INT", "REAL", "ASC"}]
    @@ "SYST:KLOC" :> {"ON", "REM", "OFF"}
    @@ "CALC:TRAN:FREQ:MODE" :> {"DFT", "STD", "FFT"}
    @@ "CALC:TRAN:FREQ:GRO" :> {"HARM", "HGR", "HSGR", "ISGR", "SGR", "COMP"}
    @@ "CALC:POW:CORR" :> {"DELT", "STAR"}
    @@ "CALC:INT:STAR:SOUR" :> {"TIME", "MAN", "CMD"}
    @@ "CALC:INT:STOP:SOUR" :> {"TIME", "MAN", "TINT", "CMD"}

\* parse_coupling() and its like; a word stands for both of its spellings.
parse_keyword ==
    "ROUT:SYST" :> {"2W", "3W"} @@ "INP#:COUP" :> {"AC", "DC"} @@ "INP#:SHUN" :> {"INT", "EXT"}
    @@ [k \in {"SYNC:SLOP", "TRIG:STAR:SLOP", "TRIG:STOP:SLOP"} |-> {"POS", "NEG"}]
    @@ "SYNC:LEV:UNIT" :> {"ABS", "PCT"} @@ "FORM:BORD" :> {"NORM", "SWAP"}
    @@ [k \in {"FORM", "FORM:STAT"} |-> {"ASC", "INT", "REAL"}]
    @@ "SYST:KLOC" :> {"ON", "OFF", "REM"}
    @@ "CALC:TRAN:FREQ:MODE" :> {"FFT", "DFT", "STD"}
    @@ "CALC:TRAN:FREQ:GRO" :> {"COMP", "HARM", "HGR", "HSGR", "ISGR", "SGR"}
    @@ "CALC:POW:CORR" :> {"STAR", "DELT"}
    @@ "CALC:INT:STAR:SOUR" :> {"CMD", "TIME", "MAN"}
    @@ "CALC:INT:STOP:SOUR" :> {"CMD", "TIME", "MAN", "TINT"}

-----------------------------------------------------------------------------
(* The methods: the parameters a setter sends and those it refuses with    *)
(* std::invalid_argument, the parameters of a getter and its parser.       *)

Pair(sends, asks, parser) ==
    [sends |-> sends, refuses |-> {}, asks |-> asks, parser |-> parser]
Setter(args) == Pair(args, {}, "none")
Getter(parser) == Pair({}, {"none"}, parser)
Decimal == Pair({"in", "out", "nan"}, {"none"}, "value")
Whole == Pair({"in", "out"}, {"none"}, "int")
Bool == Pair({"ON", "OFF"}, {"none"}, "bool")
Word(k) == Pair(to_scpi[k], {"none"}, "word")
Free(args) == Pair(args, {"none"}, "text")
Refusing(method, args) == [method EXCEPT !.refuses = args, !.sends = @ \ args]
Names == Refusing(Pair({"one", "many"}, {"none"}, "strings"), {"none"})
Send == Setter({"none"})

CommonMethods ==
    [k \in {"*IDN", "*OPT", "*LRN"} |-> Getter("text")]
    @@ [k \in {"*RST", "*CLS", "*WAI", "*TRG"} |-> Send]
    @@ "*OPC" :> Pair({"none"}, {"none"}, "one")
    @@ "*ESE" :> Whole @@ "*SRE" :> Whole @@ "*ESR" :> Getter("int") @@ "*STB" :> Getter("int")
    @@ "*SAV" :> Refusing(Setter({"in", "out"}), {"out"})
    @@ "*RCL" :> Refusing(Setter({"in", "out", "gap"}), {"out", "gap"})

StatusMethods ==
    [k \in StatusKeys({"COND", "EVEN"}) |-> Refusing(Getter("int"), {"in", "out"})]
    @@ [k \in StatusKeys({"ENAB", "PTR", "NTR"}) |-> Refusing(Whole, {"out"})]

InputMethods ==
    "ROUT:SYST" :> Word("ROUT:SYST")
    @@ "INP#:COUP" :> Word("INP#:COUP") @@ "INP#:SHUN" :> Word("INP#:SHUN")
    @@ "INP#:GAIN" :> Decimal @@ "INP#:FILT:STAT" :> Bool @@ "INP#:FILT:FREQ" :> Getter("value")

\* The only double that is checked is the aperture.
RangeMethods ==
    [k \in {"VOLT#:RANG", "CURR#:RANG", "VOLT#:SCAL", "CURR#:SCAL"} |-> Decimal]
    @@ [k \in {"VOLT#:RANG:AUTO", "CURR#:RANG:AUTO"} |-> Bool]
    @@ [k \in {"VOLT#:RANG:LIST", "CURR#:RANG:LIST"} |-> Getter("values")]
    @@ "APER" :> Refusing(Decimal, {"out", "nan"}) @@ "SWE:FREQ" :> Getter("value")

SyncMethods ==
    "SYNC:STAT" :> Bool @@ "SYNC:FILT:STAT" :> Bool @@ "SYNC:TIM" :> Decimal
    @@ "SYNC:SOUR" :> Free({"VOLT1", "CURR1", "EXT", "bad"})
    @@ "SYNC:LEV" :> Pair({"in", "wide", "out", "nan"}, {"none"}, "value")
    @@ "SYNC:LEV:UNIT" :> Word("SYNC:LEV:UNIT") @@ "SYNC:SLOP" :> Word("SYNC:SLOP")
    @@ "SYNC:FILT:FREQ" :> Pair({"100", "1E3", "1E4", "bad"}, {"none"}, "value")

FormatMethods ==
    [k \in {"FORM", "FORM:STAT", "FORM:BORD"} |-> Word(k)] @@ "FORM:TRAN" :> Bool

DisplayOutputMethods ==
    "DISP:STAT" :> Bool @@ "DISP:USER:FUNC" :> Names @@ "OUTP#:STAT" :> Bool

SystemMethods ==
    "SYST:VERS" :> Getter("text") @@ "SYST:KLOC" :> Word("SYST:KLOC")
    @@ "SYST:DATE" :> Pair({"in", "out"}, {"none"}, "date")
    @@ "SYST:TIME" :> Pair({"in", "out"}, {"none"}, "date")
    @@ "SYST:COMM:GPIB:ADDR" :> Refusing(Whole, {"out"}) @@ "SYST:COMM:SER:BAUD" :> Whole
    @@ "SYST:LANG" :> Free({"in"}) @@ "SYST:ERR:ALL" :> Getter("errors")
    @@ "TIM:RES" :> Send @@ "TIM:RES:TIME" :> Getter("value")

FunctionMethods ==
    "FUNC" :> Names @@ "FUNC:ALL" :> Send @@ "FUNC:OFF:ALL" :> Send
    @@ "FUNC:COUN" :> Getter("int") @@ "FUNC:CONC" :> Bool

DataMethods == [k \in {"DATA", "DATA:STAT"} |-> Pair({}, {"none", "one", "many"}, "values")]

TriggerMethods ==
    "INIT:CONT" :> Bool @@ "INIT" :> Send @@ "INIT:SEQ#" :> Send @@ "ABOR" :> Send
    @@ [k \in {"TRIG:STAR:SOUR", "TRIG:STOP:SOUR"} |-> Free({"in"})]
    @@ [k \in {"TRIG:STAR:LEV", "TRIG:STOP:LEV"} |-> Decimal]
    @@ [k \in {"TRIG:STAR:SLOP", "TRIG:STOP:SLOP"} |-> Word(k)]
    @@ [k \in {"TRIG:STAR:TIME", "TRIG:STOP:TIME"} |-> Setter({"in"})]

\* The parameters of a data query: a count that is not positive drops the
\* others, and a trace query has its block in front of them.
data_arguments == {"none", "in"}
trace_arguments == {"in"}

\* A negative order is refused, one that is too large is sent.
TransformMethods ==
    "CALC:HARM:ORD" :> [Whole EXCEPT !.refuses = {"out"}]
    @@ "CALC:TRAN:FREQ:STAT" :> Setter({"ONCE"})
    @@ [k \in {"CALC:TRAN:FREQ:MODE", "CALC:TRAN:FREQ:GRO"} |-> Word(k)]
    @@ "CALC:TRAN:FREQ:FUNC" :> Names
    @@ "CALC:TRAN:FREQ:STAR" :> Decimal @@ "CALC:TRAN:FREQ:STOP" :> Decimal
    @@ "CALC:TRAN:FREQ:CYCL" :> Refusing(Whole, {"out", "odd"})
    @@ "CALC:DATA" :> Pair({}, data_arguments, "values")
    @@ "CALC:DATA:PRE" :> Getter("preamble") @@ "CALC:DATA:THD" :> Getter("values")

IntegralMethods ==
    "CALC:INT:STAT" :> Bool @@ "CALC:INT:CLE:AUTO" :> Bool @@ "CALC:INT:FUNC" :> Names
    @@ [k \in {"CALC:INT:STAR:SOUR", "CALC:INT:STOP:SOUR", "CALC:POW:CORR"} |-> Word(k)]
    @@ [k \in {"CALC:INT:CLE", "CALC:INT:STAR", "CALC:INT:STOP"} |-> Send]
    @@ [k \in {"CALC:INT:STAR:TIME", "CALC:INT:STOP:TIME", "CALC:POW#:EFF:REF"} |-> Setter({"in"})]
    @@ "CALC:INT:STOP:TINT" :> Decimal

\* A count below 1 is refused, one that is too large is sent.
SweepMethods ==
    "SWE#:STAT" :> Bool @@ "SWE#:TIME" :> Pair({"in", "out", "nan", "MAX"}, {"none"}, "value")
    @@ "SWE#:OFFS:TIME" :> Decimal @@ "SWE#:FUNC" :> Names
    @@ "SWE#:POINTS" :> Getter("int") @@ "SWE#:OFFS:POINTS" :> Getter("int")
    @@ "SWE#:COUN" :> [Whole EXCEPT !.refuses = {"out"}]
    @@ "SWE#:SFAC" :> Refusing(Whole, {"out"})
    @@ "TRAC:PRE" :> Pair({}, {"in"}, "preamble")
    @@ [k \in {"TRAC", "TRAC:STAT"} |-> Pair({}, trace_arguments, "values")]
    @@ "TRAC:FREE" :> Getter("int") @@ "TRAC:CAT:LEN" :> Getter("int") @@ "TRAC:DEL:ALL" :> Send

Methods ==
    CommonMethods @@ StatusMethods @@ InputMethods @@ RangeMethods @@ SyncMethods
    @@ FormatMethods @@ DisplayOutputMethods @@ SystemMethods @@ FunctionMethods
    @@ DataMethods @@ TriggerMethods @@ TransformMethods @@ IntegralMethods @@ SweepMethods

\* check_channel(), check_phase(), the two sweep blocks and the aggregates.
CheckedIndex ==
    DOMAIN InputShapes \union DOMAIN RangeShapes \union {"CALC:POW#:EFF:REF"}

indexes(k) ==
    CASE k \in DOMAIN InputShapes  -> Channels
      [] k \in DOMAIN RangeShapes  -> Phases
      [] k \in DOMAIN SweepShapes \union {"INIT:SEQ#"} -> Blocks
      [] k = "OUTP#:STAT"          -> {9}
      [] k = "CALC:POW#:EFF:REF"   -> {0, 460}
      [] OTHER                     -> {0}

-----------------------------------------------------------------------------
(* Answers and parsers.                                                    *)

TextAnswers == {"*IDN", "*OPT", "*LRN", "SYST:VERS", "SYST:LANG", "SYNC:SOUR",
                "TRIG:STAR:SOUR", "TRIG:STOP:SOUR", "CALC:POW#:EFF:REF"}

\* measurement_response(): one line for the functions asked for or configured.
measurement_response(c) ==
    IF c.arg = "none" /\ Is("functions", "empty") THEN "nothing"
    ELSE IF Is("data_format", "ASC") THEN "number" ELSE "block"

\* What query c is answered with; the data of a sweep or of a spectrum may be
\* a window with nothing in it.
answers(c) ==
    LET shape == Shapes[c.key]
        now == Setting(<<shape.field, suffix(c)>>)
    IN  CASE c.key \in {"DATA", "DATA:STAT"} -> {measurement_response(c)}
          [] c.key \in {"CALC:DATA", "TRAC", "TRAC:STAT"} -> {"number", "nothing"}
          [] c.key \in {"SYST:ERR", "SYST:ERR:ALL"} ->
                {IF errors = <<>> THEN "no error" ELSE "error"}
          [] c.key \in {"SYST:DATE", "SYST:TIME"} -> {"date"}
          [] c.key = "*OPC" -> {"1"}
          [] c.key \in TextAnswers -> {"text"}
          [] shape.kind = "keyword" \/ c.key \in {"FORM", "FORM:STAT"} -> {now}
          [] shape.kind = "list" \/ c.key = "FUNC" ->
                {IF now = "empty" THEN "nothing" ELSE "text"}
          [] OTHER -> {"number"}

Numeric == {"number", "date", "1", "100", "1E3", "1E4"}

\* The answers a parser of the client reads, and those it may read or not,
\* which only another command's answer can be.
reads(k, parser) ==
    CASE parser = "word"               -> parse_keyword[k]
      [] parser \in {"value", "int"}   -> Numeric
      [] parser = "bool"               -> Numeric \union {"ON", "OFF"}
      [] parser = "values"             -> Numeric \union {"nothing"}
      [] parser = "one"                -> {"1"}
      [] parser = "date"               -> {"date"}
      [] parser = "preamble"           -> Numeric \union {"nothing"}
      [] parser = "errors"             -> {"error", "no error"}
may_read(parser) ==
    CASE parser \in {"word", "one", "date"} -> {"number", "1"}
      [] parser = "preamble"                -> {"text", "error", "no error"}
      [] parser = "errors"                  -> Numeric \union {"text"}
      [] OTHER                              -> {"text", "error", "no error"}

parse(k, parser, form) ==
    IF parser \in {"text", "strings"} \/ form \in reads(k, parser) THEN {"value"}
    ELSE IF form \in may_read(parser) THEN {"value", "ProtocolError"}
    ELSE {"ProtocolError"}

-----------------------------------------------------------------------------
(* The transport and the client below the methods.                         *)

Outcome(kind) == [kind |-> kind, own |-> TRUE, fault |-> FALSE]

MethodsInit ==
    /\ CommandInit
    /\ step = "other" /\ responses = <<>> /\ outcome = Outcome("none")
    /\ text = FALSE /\ disturbed = FALSE

\* Another client, whose settings this session finds, begins a line or sends a
\* header the simulator does not know.
OtherClient ==
    /\ step = "other"
    /\ \/ \E n \in 2 .. MaxLine : NewLine(n)
       \/ \E asks \in BOOLEAN : UndefinedHeader([query |-> asks])
    /\ UNCHANGED <<step, responses, outcome, text, disturbed>>

open ==
    /\ step = "other" /\ line_ended
    /\ step' = "open"
    /\ line' = NoLine
    /\ UNCHANGED <<errorQueueVars, usage, state, responses, outcome, text, disturbed>>

\* Mutant: the responses of this session wait for the next one.
close_keeps ==
    /\ step = "open"
    /\ step' = "other" /\ outcome' = Outcome("none")
    /\ text' = FALSE /\ disturbed' = FALSE
    /\ UNCHANGED <<commandVars, responses>>

\* SimulatorTransport::close().
close ==
    /\ step = "open"
    /\ step' = "other" /\ responses' = <<>> /\ outcome' = Outcome("none")
    /\ text' = FALSE /\ disturbed' = FALSE
    /\ UNCHANGED commandVars

chooses_binary(c) == c.key \in {"FORM", "FORM:STAT"} /\ ~c.query /\ c.arg \in {"INT", "REAL"}

\* fail_writes: the command never reaches the simulator.
fail_write ==
    /\ outcome' = [Outcome("ConnectionError") EXCEPT !.fault = TRUE]
    /\ UNCHANGED <<commandVars, responses, text, disturbed>>

\* Mutant: a response is taken for no response when it is empty.
waiting_unless_empty(c) ==
    IF line'.answered = 0 THEN {responses}
    ELSE {IF f = "nothing" THEN responses ELSE Append(responses, f) : f \in answers(c)}

\* SimulatorTransport::write(): the simulator handles the line at once, and
\* its response, if it has one, waits for read_line().
waiting(c) ==
    IF line'.answered = 0 THEN {responses} ELSE {Append(responses, f) : f \in answers(c)}

\* Values that no method checks, and that some range check of the simulator
\* may turn down.
Unchecked(k) ==
    {"out", "nan", "wide"}
        \union (IF k \in {"SYNC:SOUR", "SYNC:FILT:FREQ"} THEN {"bad"} ELSE {})

\* An exchange: the command, the parser of its answer ("none" if it is only
\* sent), whether its arguments are in the documented ranges, and the fault
\* its read meets.
Sent(c, valid) == [command |-> c, parser |-> "none", valid |-> valid, fault |-> "none"]
Asked(c, parser, fault) == [command |-> c, parser |-> parser, valid |-> FALSE, fault |-> fault]

\* ScpiClient::send() of one command; a rejection is only known from SYST:ERR?.
send(x) ==
    /\ responses' \in waiting(x.command)
    /\ outcome' = Outcome(IF x.valid /\ line'.failed # "no" THEN "rejected" ELSE "sent")
    /\ text' = (text /\ ~chooses_binary(x.command))
    /\ disturbed' = (disturbed \/ x.command.query)

\* ScpiClient::query(): what waits is read, unless the read fails or stalls.
query(x) ==
    /\ disturbed' = (disturbed \/ x.fault # "none")
    /\ \E q \in waiting(x.command) :
          \/ /\ x.fault # "none"
             /\ responses' = q
             /\ outcome' = [Outcome(IF x.fault = "fail_reads" THEN "ConnectionError"
                                    ELSE "TimeoutError") EXCEPT !.fault = TRUE]
          \/ /\ x.fault = "none" /\ q = <<>>
             /\ responses' = q
             /\ outcome' = Outcome("TimeoutError")
          \/ /\ x.fault = "none" /\ q # <<>>
             /\ responses' = Tail(q)
             /\ \E kind \in parse(x.command.key, x.parser, Head(q)) :
                   outcome' = [Outcome(kind) EXCEPT !.own = (responses = <<>>)]

Faulty == Usages[usage].faulty
ReadFaults == {"none"} \union (IF Faulty THEN {"fail_reads", "stall_reads"} ELSE {})

-----------------------------------------------------------------------------
(* The session.                                                            *)

Called == Usages[usage].keys \intersect DOMAIN Methods
may_call == step = "open" /\ Len(responses) <= MaxPending

\* An argument the library refuses itself: nothing is sent.
Refuse(k) ==
    /\ may_call
    /\ Methods[k].refuses # {} \/ k \in CheckedIndex
    /\ outcome' = Outcome("invalid_argument")
    /\ UNCHANGED <<commandVars, step, responses, text, disturbed>>

\* The exchanges of the typed methods, and of write() and query(), which take
\* any command.
MethodCommands(k, asks, args) ==
    UNION {{Command(k, n, asks, a) : a \in args} : n \in indexes(k)}
AskedEach(commands, parser) ==
    UNION {{Asked(c, parser, f) : f \in ReadFaults} : c \in commands}

CallSetter(k) ==
    {Sent(c, c.arg \notin Unchecked(k)) : c \in MethodCommands(k, FALSE, Methods[k].sends)}

CallGetter(k) == AskedEach(MethodCommands(k, TRUE, Methods[k].asks), Methods[k].parser)

CallRaw(k) ==
    {Sent(c, FALSE) : c \in {c \in Commands(k) : ~c.query \/ Faulty}}
        \union AskedEach({c \in Commands(k) : c.query}, "text")

Call(x) ==
    /\ may_call
    /\ \/ x.parser = "none" /\ send(x)
       \/ x.parser # "none" /\ query(x) /\ UNCHANGED text
    /\ UNCHANGED step

WriteFails ==
    /\ may_call /\ Faulty
    /\ fail_write
    /\ UNCHANGED step

-----------------------------------------------------------------------------
(* prepare(): *CLS, FORM ASC,6 and FUNC:CONC ON, and SYST:ERR? until there *)
(* is no error; what it throws is what its step throws.                    *)

Prepare ==
    /\ may_call
    /\ step' = "clear" /\ text' = FALSE
    /\ UNCHANGED <<commandVars, responses, outcome, disturbed>>

prepare_commands ==
    [clear |-> Command("*CLS", 0, FALSE, "none"),
     format |-> Command("FORM", 0, FALSE, "ASC"),
     concurrent |-> Command("FUNC:CONC", 0, FALSE, "ON")]

\* Each command of prepare() has code of its own in its handler.
ASSUME PrepareRowsAssumption ==
    \A shapes \in ShapeTables :
        \A k \in DOMAIN shapes \intersect {"*CLS", "FORM", "FUNC:CONC", "SYST:ERR"} :
            shapes[k].kind = "own"

\* What the tables say of the arguments a method sends: the key is not only
\* asked for, its suffix exists, and the parameter is one its handler reads.
Understood(c) ==
    /\ \A shapes \in ShapeTables : c.key \in DOMAIN shapes =>
          /\ shapes[c.key].kind # "query"
          /\ shapes[c.key].kind \in {"number", "integer"} => c.arg = "in"
          /\ shapes[c.key].kind \in {"boolean", "keyword", "list", "text"} =>
                c.arg \notin {"none", "bad"}
    /\ c.key \in DOMAIN InputShapes => suffix(c) \in Channels
    /\ c.key \in DOMAIN RangeShapes => suffix(c) \in Phases
    /\ c.key \in DOMAIN SweepShapes \union {"INIT:SEQ#"} => suffix(c) \in Blocks
    /\ c.key = "OUTP#:STAT" => c.suffix = 9
    /\ c.key = "CALC:POW#:EFF:REF" => c.suffix \in {0, 460} /\ c.arg = "in"
    /\ c.key \in {"*SAV", "*RCL", "VOLT#:RANG", "CURR#:RANG", "SYNC:LEV", "CALC:TRAN:FREQ:CYCL",
                  "TRIG:STAR:TIME", "TRIG:STOP:TIME", "CALC:INT:STAR:TIME", "CALC:INT:STOP:TIME",
                  "SYST:DATE", "SYST:TIME"} => c.arg = "in"
    /\ c.key = "SWE#:TIME" => c.arg \in {"in", "MAX"}
    /\ c.key = "CALC:TRAN:FREQ:STAT" => c.arg = "ONCE"
    /\ c.key \in {"FUNC", "FUNC:CONC", "FORM", "FORM:STAT"} => c.arg \notin {"none", "bad"}
    /\ c.key \notin {"*ESR", "DATA", "DATA:STAT", "CALC:DATA", "CALC:DATA:THD", "TRAC", "TRAC:PRE",
                     "TRAC:STAT", "SYST:ERR", "SYST:ERR:ALL", "TIM:RES:AUTO"}

ASSUME SetterRowsAssumption ==
    /\ \A k \in DOMAIN Methods : \A c \in MethodCommands(k, FALSE, Methods[k].sends) :
          c.arg \notin Unchecked(k) => Understood(c)
    /\ \A s \in DOMAIN prepare_commands : Understood(prepare_commands[s])

\* What the tables say of a query a method sends: its parser takes any text, or
\* it reads each form of answer the row of the query can have.
Readable(c, parser) ==
    LET shape == Shapes[c.key]
        read == reads(c.key, parser)
        special == {"*OPC", "SYST:ERR", "SYST:ERR:ALL", "SYST:DATE", "SYST:TIME"}
    IN  \/ parser \in {"text", "strings"}
        \/ /\ c.key \in AllKeys \ (TextAnswers \union {"FUNC"}) /\ shape.kind # "list"
           /\ c.key = "*OPC" => "1" \in read
           /\ c.key \in {"SYST:ERR", "SYST:ERR:ALL"} => {"error", "no error"} \subseteq read
           /\ c.key \in {"SYST:DATE", "SYST:TIME"} => "date" \in read
           /\ c.key \in KeywordKeys => /\ <<shape.field, suffix(c)>> \in DOMAIN fresh
                                       /\ Vocabulary(shape.field) \subseteq read
           /\ c.key \notin KeywordKeys \union special => "number" \in read
           /\ c.key \in {"DATA", "DATA:STAT", "CALC:DATA", "TRAC", "TRAC:STAT"} =>
                 {"number", "nothing"} \subseteq read

ASSUME GetterRowsAssumption ==
    \A k \in DOMAIN Methods : \A c \in MethodCommands(k, TRUE, Methods[k].asks) :
        Readable(c, Methods[k].parser)

\* Mutant: prepare() leaves the format to the last client.
after_left == [clear |-> "concurrent", format |-> "concurrent", concurrent |-> "drain"]

\* The step after each of them.
after == [clear |-> "format", format |-> "concurrent", concurrent |-> "drain"]

PrepareSend(x) ==
    /\ step \in DOMAIN prepare_commands
    /\ send(x)
    /\ step' = after[step]

PrepareWriteFails ==
    /\ step \in DOMAIN prepare_commands \union {"drain"} /\ step' = "open"
    /\ Faulty
    /\ fail_write

\* read_all_errors().  What waits is read first: in a session that is out of
\* step that is another answer, and a number may pass for 0,"No error".
PrepareDrain(x) ==
    LET first == IF responses = <<>> THEN IF errors = <<>> THEN "no error" ELSE "error"
                 ELSE Head(responses)
    IN  /\ step = "drain"
        /\ query(x)
        /\ \/ outcome'.kind # "value" /\ step' = "open" /\ UNCHANGED text
           \/ outcome'.kind = "value" /\ first # "error" /\ step' = "open" /\ text' = TRUE
           \/ outcome'.kind = "value" /\ first # "no error" /\ UNCHANGED <<step, text>>

\* The exchanges that can come next: the other client's, whose answers are not
\* this session's, those of a method, or the one prepare() has reached.
exchanges ==
    CASE step = "other" ->
            {Sent(c, FALSE) : c \in UNION {Commands(k) : k \in Usages[usage].keys}}
      [] step = "open" ->
            UNION {CallSetter(k) \union CallGetter(k) \union CallRaw(k) : k \in Called}
      [] step = "drain" ->
            {Asked(Command("SYST:ERR", 0, TRUE, "none"), "errors", f) : f \in ReadFaults}
      [] OTHER -> {Sent(prepare_commands[step], TRUE)}

\* The simulator handles the command when it is written.
Exchange ==
    \E x \in exchanges :
        /\ execute(x.command)
        /\ \/ step = "other" /\ UNCHANGED <<step, responses, outcome, text, disturbed>>
           \/ Call(x)
           \/ PrepareSend(x)
           \/ PrepareDrain(x)

MethodsNext ==
    \/ OtherClient
    \/ open
    \/ close
    \/ Exchange
    \/ \E k \in Called : Refuse(k)
    \/ WriteFails
    \/ Prepare
    \/ PrepareWriteFails

MethodsSpec == MethodsInit /\ [][MethodsNext]_methodVars

-----------------------------------------------------------------------------
(* Properties.                                                             *)

\* Every getter reads the answer to its own query, and nothing is left that
\* the next one could take for its own, whatever the commands before it were
\* and however they failed: only a read that failed, or a query sent with
\* write(), puts a session of SimulatorTransport out of step, and close()
\* mends it.
InStep ==
    \/ disturbed
    \/ responses = <<>> /\ outcome.own

\* After prepare() no typed method of this library meets an answer its parser
\* cannot read, unless the session chose a binary format itself: the keywords,
\* numbers and lists of the simulator in every state are those the getters of
\* NormaInstrument expect, the empty list included.
TextSession ==
    text /\ ~disturbed => outcome.kind # "ProtocolError"

\* When a getter times out and the link is sound, SYST:ERR? tells why: no
\* query of NormaInstrument is left without an answer for any other reason.
TimeoutExplained ==
    outcome.kind = "TimeoutError" /\ ~outcome.fault => errors # <<>>

\* A setter whose arguments are in the documented ranges is turned down for a
\* settings conflict at most (GAIN and SHUNt of a voltage input, a list while
\* CONCurrent is OFF, CALC:INT:STAR while the integral is off): the suffixes,
\* keywords and ranges of NormaInstrument are those of the simulator.  A full
\* queue has the overflow error in the place of the conflict.
RejectedForConflict ==
    outcome.kind = "rejected" /\ errors # <<>> =>
        errors[Len(errors)].code \in {kSettingsConflict, QueueOverflow}

\* Once prepare() returns, values and status values are both text although it
\* sends FORM only, more than one function can be measured, and no error of an
\* earlier client is left, whatever that client did; a session that is out of
\* step cannot rely on the last.
PreparedForText ==
    [][~text /\ text' => /\ (Is("data_format", "ASC") /\ Is("status_format", "ASC"))'
                         /\ Is("concurrent", "ON")'
                         /\ errors' = <<>> \/ disturbed]_methodVars
=============================================================================
