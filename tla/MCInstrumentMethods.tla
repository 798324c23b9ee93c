------------------------ MODULE MCInstrumentMethods ------------------------
(* The error codes of the simulator and what the clients of a run use: the *)
(* keys of one handler, with some of them away from *RST; the formats and  *)
(* the function list, which depend on each other, together; or a few keys  *)
(* of every kind with faults.                                              *)
EXTENDS InstrumentMethods

SimulatorCodes == {kMissingParameter, kUndefinedHeader, kSettingsConflict, kDataOutOfRange,
                   kIllegalParameterValue}

Use(keys, n) == [keys |-> keys \union {"*CLS"}, changes |-> n, faulty |-> FALSE]
Subsystem(shapes, n) == Use(DOMAIN shapes, n)

Coupled == {"FORM", "FORM:STAT", "FUNC", "FUNC:ALL", "FUNC:OFF:ALL", "FUNC:CONC", "DATA"}

SimulatorUsages ==
    "common" :> Subsystem(CommonShapes, 1)
    @@ "system" :> Subsystem(SystemShapes, 1)
    @@ "inputs, routing" :> Subsystem(InputShapes @@ RouteShapes, 1)
    @@ "ranges" :> Subsystem(RangeShapes, 1)
    @@ "range and autorange" :> Use({"VOLT#:RANG", "VOLT#:RANG:AUTO"}, 2)
    @@ "sweeps" :> Subsystem(SweepShapes, 1)
    @@ "synchronisation" :> Subsystem(SyncShapes, 1)
    @@ "level and unit" :> Use({"SYNC:LEV", "SYNC:LEV:UNIT"}, 2)
    @@ "acquisition, triggers" :> Subsystem(AcquisitionShapes @@ TriggerShapes, 1)
    @@ "calculation" :> Subsystem(CalculateShapes, 1)
    @@ "integral" :> Use({"CALC:INT:STAT", "CALC:INT:STAR", "CALC:INT:STOP"}, 2)
    @@ "traces, status, timer" :> Subsystem(TraceShapes @@ StatusShapes @@ TimerShapes, 1)
    @@ "formats, functions" :> Use(Coupled \union {"*RST"}, 4)
    @@ "display, output, others" :>
          Use(DOMAIN DisplayOutputShapes
              \union ((DOMAIN FormatShapes \union DOMAIN SenseShapes) \ Coupled), 1)
    @@ "faults" :> [keys |-> {"*CLS", "FORM", "FUNC:CONC", "DATA", "SYST:KLOC", "SYST:DATE"},
                    changes |-> 1, faulty |-> TRUE]
=============================================================================
