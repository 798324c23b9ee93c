--------------------------- MODULE CommandShapes ---------------------------
(***************************************************************************)
(* The keys of NormaSimulator's command table, grouped by the handler that *)
(* knows them, and the shape each one is read and written in.  Module      *)
(* SimulatorCommands says what a command does, module CommandLine how a    *)
(* line of text finds its key.                                             *)
(***************************************************************************)
EXTENDS Sequences, TLC

-----------------------------------------------------------------------------
(* The shapes a setting is read and written in: one constructor per Access *)
(* helper, with the field, its *RST value and the parameters to tell apart *)
(* (args of a setting command, asks of a query).  Own and Act are keys     *)
(* whose handler has code of its own.                                      *)

Readings == {"none", "bad", "out", "in", "nan"}

Own(f, v, args) == [kind |-> "own", field |-> f, fresh |-> v, args |-> args, asks |-> {"none"}]
Act(args, asks) == [kind |-> "own", args |-> args, asks |-> asks]
Number(f) == [Own(f, "initial", Readings) EXCEPT !.kind = "number"]
Integer(f) == [Own(f, "initial", Readings) EXCEPT !.kind = "integer"]
Boolean(f, v) == [Own(f, v, {"none", "bad", "ON", "OFF"}) EXCEPT !.kind = "boolean"]
Keyword(f, v, others) ==
    [Own(f, v, others \union {v, "none", "bad"}) EXCEPT !.kind = "keyword"]
FunctionList(f) == [Own(f, "empty", {"none", "bad", "one", "many"}) EXCEPT !.kind = "list"]
Text(f) == [Own(f, "initial", {"none", "in"}) EXCEPT !.kind = "text"]
Query == [Act({"none"}, {"none"}) EXCEPT !.kind = "query"]
Event(changes) ==
    [kind |-> "event", changes |-> changes, args |-> {"none"}, asks |-> {"none"}]
NoChange == <<>>

-----------------------------------------------------------------------------
(* The keys of each handler.                                               *)

CommonShapes ==
    "*IDN" :> Query @@ "*OPT" :> Query @@ "*LRN" :> Query @@ "*STB" :> Query
    @@ "*RST" :> Act({"none"}, {"none"}) @@ "*CLS" :> Act({"none"}, {"none"})
    @@ "*OPC" :> Act({"none"}, {"none"}) @@ "*ESR" :> Act({"none"}, {"none"})
    @@ "*WAI" :> Event(NoChange) @@ "*TRG" :> Event(<<"initiated", 1>> :> "ON")
    @@ "*ESE" :> Integer("event_status_enable") @@ "*SRE" :> Integer("service_request_enable")
    @@ "*SAV" :> Act(Readings, {"none"}) @@ "*RCL" :> Act(Readings \union {"gap"}, {"none"})

RouteShapes == "ROUT:SYST" :> Keyword("wiring_system", "3W", {"2W"})

InputShapes ==
    "INP#:COUP" :> Keyword("coupling", "DC", {"AC"})
    @@ "INP#:GAIN" :> Number("gain")
    @@ "INP#:SHUN" :> Keyword("shunt", "INT", {"EXT"})
    @@ "INP#:FILT:STAT" :> Boolean("filter", "ON")
    @@ "INP#:FILT:FREQ" :> Query

RangeShapes ==
    "VOLT#:RANG" :> Own("voltage.range", "initial", Readings)
    @@ "VOLT#:RANG:AUTO" :> Boolean("voltage.autorange", "ON")
    @@ "VOLT#:RANG:LIST" :> Query
    @@ "VOLT#:SCAL" :> Number("voltage.scale")
    @@ "CURR#:RANG" :> Own("current.range", "initial", Readings)
    @@ "CURR#:RANG:AUTO" :> Boolean("current.autorange", "ON")
    @@ "CURR#:RANG:LIST" :> Query
    @@ "CURR#:SCAL" :> Number("current.scale")

SenseShapes ==
    "APER" :> Number("aperture") @@ "SWE:FREQ" :> Query
    @@ "FUNC" :> Own("functions", "empty", {"none", "bad", "one", "many"})
    @@ "FUNC:ALL" :> Event(<<"functions", 1>> :> "many")
    @@ "FUNC:OFF:ALL" :> Event(<<"functions", 1>> :> "empty")
    @@ "FUNC:CONC" :> Own("concurrent", "ON", {"none", "bad", "ON", "OFF"})
    @@ "FUNC:COUN" :> Query
    @@ "DATA" :> Act({"none"}, {"none", "bad", "one", "many"})
    @@ "DATA:STAT" :> Act({"none"}, {"none", "bad", "one", "many"})

SweepShapes ==
    "SWE#:STAT" :> Boolean("sweep.enabled", "OFF")
    @@ "SWE#:TIME" :> Own("sweep.time", "initial", Readings \union {"MAX"})
    @@ "SWE#:OFFS:TIME" :> Number("sweep.offset_time")
    @@ "SWE#:COUN" :> Integer("sweep.count")
    @@ "SWE#:SFAC" :> Integer("sweep.sparsing")
    @@ "SWE#:FUNC" :> FunctionList("sweep.functions")
    @@ "SWE#:POINTS" :> Query @@ "SWE#:OFFS:POINTS" :> Query

SyncShapes ==
    "SYNC:STAT" :> Boolean("sync_enabled", "ON")
    @@ "SYNC:SOUR" :> Keyword("sync_source", "VOLT1", {"CURR1", "EXT"})
    @@ "SYNC:LEV" :> Own("sync_level", "initial", Readings \union {"wide"})
    @@ "SYNC:LEV:UNIT" :> Keyword("sync_level_unit", "PCT", {"ABS"})
    @@ "SYNC:SLOP" :> Keyword("sync_slope", "POS", {"NEG"})
    @@ "SYNC:FILT:STAT" :> Boolean("sync_filter", "OFF")
    @@ "SYNC:FILT:FREQ" :> Keyword("sync_filter_frequency", "1E3", {"100", "1E4"})
    @@ "SYNC:TIM" :> Number("sync_timeout")

sweeps_off == <<"sweep.enabled", 1>> :> "OFF" @@ <<"sweep.enabled", 2>> :> "OFF"

AcquisitionShapes ==
    "INIT:CONT" :> Boolean("continuous", "ON")
    @@ "INIT" :> Event(<<"initiated", 1>> :> "ON")
    @@ "INIT:SEQ#" :> Act({"none"}, {"none"})
    @@ "INIT:NAME" :> Event(<<"sweep.enabled", 1>> :> "ON")
    @@ "ABOR" :> Event(<<"initiated", 1>> :> "OFF" @@ sweeps_off)

TriggerShapes ==
    "TRIG:STAR:SOUR" :> Text("trigger_start_source")
    @@ "TRIG:STOP:SOUR" :> Text("trigger_stop_source")
    @@ "TRIG:STAR:LEV" :> Number("trigger_start_level")
    @@ "TRIG:STOP:LEV" :> Number("trigger_stop_level")
    @@ "TRIG:STAR:SLOP" :> Keyword("trigger_start_slope", "POS", {"NEG"})
    @@ "TRIG:STOP:SLOP" :> Keyword("trigger_stop_slope", "POS", {"NEG"})
    @@ "TRIG:STAR:TIME" :> Act({"none", "in"}, {"none"})
    @@ "TRIG:STOP:TIME" :> Act({"none", "in"}, {"none"})

CalculateShapes ==
    "CALC:TRAN:FREQ:STAT" :> Act({"none", "bad", "ONCE"}, {"none"})
    @@ "CALC:TRAN:FREQ:MODE" :> Keyword("transform_mode", "FFT", {"DFT", "STD"})
    @@ "CALC:TRAN:FREQ:FUNC" :> FunctionList("transform_functions")
    @@ "CALC:TRAN:FREQ:STAR" :> Number("transform_start")
    @@ "CALC:TRAN:FREQ:STOP" :> Number("transform_stop")
    @@ "CALC:TRAN:FREQ:CYCL" :> Own("transform_cycles", "initial", Readings \union {"odd"})
    @@ "CALC:TRAN:FREQ:GRO" :> Keyword("transform_grouping", "COMP",
                                       {"HARM", "HGR", "HSGR", "ISGR", "SGR"})
    @@ "CALC:DATA" :> Act({"none"}, {"none", "bad", "in"})
    @@ "CALC:DATA:PRE" :> Query
    @@ "CALC:DATA:THD" :> Act({"none"}, {"none"})
    @@ "CALC:INT:STAT" :> Boolean("integral_enabled", "OFF")
    @@ "CALC:INT:FUNC" :> FunctionList("integral_functions")
    @@ "CALC:INT:CLE" :> Event(NoChange)
    @@ "CALC:INT:CLE:AUTO" :> Boolean("integral_auto_clear", "ON")
    @@ "CALC:INT:STAR:SOUR" :> Keyword("integral_start_source", "CMD", {"TIME", "MAN"})
    @@ "CALC:INT:STOP:SOUR" :> Keyword("integral_stop_source", "CMD", {"TIME", "MAN", "TINT"})
    @@ "CALC:INT:STAR" :> Act({"none"}, {"none"})
    @@ "CALC:INT:STOP" :> Event(<<"integral_running", 1>> :> "OFF")
    @@ "CALC:INT:STAR:TIME" :> Act({"none", "in"}, {"none"})
    @@ "CALC:INT:STOP:TIME" :> Act({"none", "in"}, {"none"})
    @@ "CALC:INT:STOP:TINT" :> Number("integral_stop_interval")
    @@ "CALC:HARM:ORD" :> Integer("harmonic_order")
    @@ "CALC:POW:CORR" :> Keyword("power_correction", "STAR", {"DELT"})
    @@ "CALC:POW#:EFF:REF" :> Own("efficiency", "initial", {"none", "in"})

TraceShapes ==
    "TRAC:FREE" :> Query @@ "TRAC:CAT:LEN" :> Query @@ "TRAC:DEL:ALL" :> Event(sweeps_off)
    @@ [k \in {"TRAC", "TRAC:PRE", "TRAC:STAT"} |-> Act({"none"}, {"none", "bad", "in"})]

Formats == {"ASC", "INT", "REAL"}

FormatShapes ==
    "FORM" :> Own("data_format", "ASC", Formats \union {"none", "bad"})
    @@ "FORM:STAT" :> Own("status_format", "ASC", Formats \union {"none", "bad"})
    @@ "FORM:BORD" :> Keyword("byte_order", "NORM", {"SWAP"})
    @@ "FORM:TRAN" :> Boolean("transpose", "OFF")

DisplayOutputShapes ==
    "DISP:STAT" :> Boolean("display_enabled", "ON")
    @@ "DISP:USER:FUNC" :> FunctionList("display_functions")
    @@ "OUTP#:STAT" :> Boolean("output_enabled", "OFF")

SystemShapes ==
    "SYST:VERS" :> Query
    @@ "SYST:ERR" :> Act({"none"}, {"none"}) @@ "SYST:ERR:ALL" :> Act({"none"}, {"none"})
    @@ "SYST:KLOC" :> Keyword("key_lock", "OFF", {"ON", "REM"})
    @@ "SYST:LANG" :> Text("language")
    @@ "SYST:DATE" :> Own("date", "initial", Readings)
    @@ "SYST:TIME" :> Own("time", "initial", Readings)
    @@ "SYST:COMM:GPIB:ADDR" :> Integer("gpib_address")
    @@ "SYST:COMM:SER:BAUD" :> Integer("serial_baud")

\* status_target(): four registers with five parts each.
StatusKeys(parts) ==
    {"STAT:" \o r \o ":" \o p : r \in {"OPER", "QUES", "QUES:VOLT", "QUES:CURR"}, p \in parts}
StatusShapes ==
    [k \in StatusKeys({"COND", "EVEN"}) |-> Query]
    @@ [k \in StatusKeys({"ENAB", "PTR", "NTR"}) |-> Integer(k)]

TimerShapes ==
    "TIM:RES" :> Event(NoChange) @@ "TIM:RES:TIME" :> Query
    @@ "TIM:RES:AUTO" :> Act({"none"}, {"none"})

Shapes ==
    CommonShapes @@ RouteShapes @@ InputShapes @@ RangeShapes @@ SenseShapes @@ SweepShapes
    @@ SyncShapes @@ AcquisitionShapes @@ TriggerShapes @@ CalculateShapes @@ TraceShapes
    @@ FormatShapes @@ DisplayOutputShapes @@ SystemShapes @@ StatusShapes @@ TimerShapes
AllKeys == DOMAIN Shapes
=============================================================================
