-------------------------- MODULE StatusReporting --------------------------
(***************************************************************************)
(* The status reporting system of NormaSimulator on top of its error queue *)
(* and event status register: the four STATus registers, the status byte   *)
(* and what *CLS and *RST do to them.  A register stores no condition; it  *)
(* is derived from the instrument whenever it is read, and edges are found *)
(* by comparing it with the condition of the last time it was read.        *)
(*                                                                         *)
(* A register value is the set of its 1 bits.  One voltage and one current *)
(* channel stand for the six of each.                                      *)
(***************************************************************************)
EXTENDS ErrorQueue

CONSTANTS Watches,  \* what a client watches, one choice per behaviour: some
                    \* registers, and the parts that change meanwhile
          Masks,    \* the mask values a client sets
          ByteMasks \* the *SRE and *ESE values a client sets

AllRegisters == {"OPER", "QUES", "QUES:VOLT", "QUES:CURR"}
AllParts == {"signal", "sync", "voltage", "current", "acquisition", "sweep", "byte", "setup"}
Bits == {"SYNC", "AVER", "SWE", "FREQ", "VOLT", "CURR", "OVER", "UNDER"}

\* Bit numbers of the status byte.
ErrorQueueNotEmpty == 2
QuestionableSummary == 3
EventStatusSummary == 5
MasterStatusSummary == 6

ASSUME StatusReportingAssumption ==
    /\ Watches \subseteq [registers : SUBSET AllRegisters, parts : SUBSET AllParts]
    /\ Masks \subseteq SUBSET Bits
    /\ ByteMasks \subseteq SUBSET (0 .. 7)

VARIABLES watch,      \* the choice of Watches
          inst,       \* what the conditions depend on
          reg,        \* RegisterState of each register
          ese, sre,   \* event_status_enable, service_request_enable
          moved,      \* history: bits that changed since the register was read;
                      \* *CLS takes those that had been noticed by then
          base,       \* history: the condition when it was read, or the one that
                      \* was noticed last before *CLS
          passed      \* history: bits PTRansition let through ever since

statusVars == <<inst, reg, ese, sre, moved, base, passed>>
statVars == <<errorQueueVars, statusVars, watch>>

Registers == watch.registers
Moving == watch.parts

\* "auto": the channel is in autorange and reports nothing; the others compare
\* the signal with the range that is set.
Levels == {"auto", "under", "in", "over"}

\* What module Measurement needs besides: the load on the inputs (a channel
\* with nothing on it is dead), and the settings the values depend on.
Loads == {"resistive", "inductive", "capacitive"}
DeadChannels == {"none", "voltage", "current"}

FreshRegister == [event |-> {}, enable |-> {}, ptransition |-> Bits,
                  ntransition |-> {}, previous_condition |-> {}]

\* The instrument after reset(), which leaves the signal as it is.
FreshInstrument(i) ==
    [signal |-> i.signal, sync |-> TRUE, voltage |-> "auto", current |-> "auto",
     continuous |-> TRUE, initiated |-> FALSE, sweep |-> FALSE,
     load |-> i.load, dead |-> i.dead,
     setup |-> [aperture |-> "in", nan_scales |-> {}, integral |-> FALSE, efficiency |-> "unset"]]

-----------------------------------------------------------------------------
(* condition() and latch_event().                                          *)

synchronized(i) == i.signal /\ i.sync

channel_bits(level) ==
    CASE level = "over"  -> {"OVER"}
      [] level = "under" -> {"UNDER"}
      [] OTHER           -> {}

condition(r, i) ==
    CASE r = "OPER" -> (IF synchronized(i) THEN {"SYNC"} ELSE {})
                         \union (IF i.continuous \/ i.initiated THEN {"AVER"} ELSE {})
                         \union (IF i.sweep THEN {"SWE"} ELSE {})
      [] r = "QUES" -> (IF synchronized(i) THEN {} ELSE {"FREQ"})
                         \union (IF channel_bits(i.voltage) = {} THEN {} ELSE {"VOLT"})
                         \union (IF channel_bits(i.current) = {} THEN {} ELSE {"CURR"})
      [] r = "QUES:VOLT" -> channel_bits(i.voltage)
      [] r = "QUES:CURR" -> channel_bits(i.current)

\* The edges of register state s that pass its filters, with condition now.
edges(s, now) ==
    ((now \ s.previous_condition) \intersect s.ptransition)
        \union ((s.previous_condition \ now) \intersect s.ntransition)

latch_event(r) ==
    [reg[r] EXCEPT !.event = @ \union edges(reg[r], condition(r, inst)),
                   !.previous_condition = condition(r, inst)]

-----------------------------------------------------------------------------
StatusInit ==
    /\ Init
    /\ watch \in Watches
    /\ \E present \in BOOLEAN :
          inst = FreshInstrument([signal |-> present, load |-> "resistive", dead |-> "none"])
    /\ reg = [r \in Registers |-> FreshRegister]
    /\ ese = {} /\ sre = {}
    /\ moved = [r \in Registers |-> condition(r, inst)]
    /\ base = [r \in Registers |-> {}]
    /\ passed = [r \in Registers |-> Bits]

\* Something the conditions depend on changes.
Change(i) ==
    /\ inst' = i
    /\ moved' = [r \in Registers |-> moved[r]
                    \union (condition(r, inst) \ condition(r, i))
                    \union (condition(r, i) \ condition(r, inst))]
    /\ UNCHANGED <<errorQueueVars, reg, ese, sre, base, passed>>

\* The signal comes and goes; while a channel has a fixed range its level does
\* not follow from the range alone.
SignalChanges ==
    /\ "signal" \in Moving
    /\ Change([inst EXCEPT !.signal = ~@])

LoadChanges ==
    /\ "setup" \in Moving
    /\ \E l \in Loads, d \in DeadChannels : Change([inst EXCEPT !.load = l, !.dead = d])

LevelChanges(channel) ==
    /\ channel \in Moving
    /\ inst[channel] # "auto"
    /\ \E l \in Levels \ {"auto"} : Change([inst EXCEPT ![channel] = l])

\* VOLT:RANG sets a range and leaves autorange off, VOLT:RANG:AUTO switches it.
RangeCommand(channel) ==
    /\ channel \in Moving
    /\ \E l \in Levels : Change([inst EXCEPT ![channel] = l])

SyncStateCommand ==
    /\ "sync" \in Moving
    /\ \E b \in BOOLEAN : Change([inst EXCEPT !.sync = b])

\* APER, VOLT:SCAL and CURR:SCAL (a NaN gets past their bounds), CALC:INT:STAT
\* and CALC:POW:EFF:REF.
SetupCommand ==
    /\ "setup" \in Moving
    /\ \/ \E a \in {"in", "nan"} : Change([inst EXCEPT !.setup.aperture = a])
       \/ \E c \in SUBSET {"voltage", "current"} :
             Change([inst EXCEPT !.setup.nan_scales = c])
       \/ \E b \in BOOLEAN : Change([inst EXCEPT !.setup.integral = b])
       \/ \E e \in {"powers", "times", "minima"} :
             Change([inst EXCEPT !.setup.efficiency = e])

\* INIT:CONT, INIT and *TRG; ABOR ends both the measurement and the sweeps.
InitContinuous ==
    /\ "acquisition" \in Moving
    /\ \E b \in BOOLEAN : Change([inst EXCEPT !.continuous = b])

Initiate ==
    /\ "acquisition" \in Moving
    /\ Change([inst EXCEPT !.initiated = TRUE])

SweepCommand ==
    /\ "sweep" \in Moving
    /\ \E b \in BOOLEAN : Change([inst EXCEPT !.sweep = b])

Abort ==
    /\ Moving \intersect {"acquisition", "sweep"} # {}
    /\ Change([inst EXCEPT !.initiated = FALSE, !.sweep = FALSE])

-----------------------------------------------------------------------------
(* The STATus commands.                                                    *)

\* STAT:QUES? and its like: latch, answer, clear.
EventQuery(r) ==
    /\ reg' = [reg EXCEPT ![r] = [latch_event(r) EXCEPT !.event = {}]]
    /\ moved' = [moved EXCEPT ![r] = {}]
    /\ base' = [base EXCEPT ![r] = condition(r, inst)]
    /\ passed' = [passed EXCEPT ![r] = reg[r].ptransition]
    /\ UNCHANGED <<errorQueueVars, inst, ese, sre>>

SetMask(r, m) ==
    /\ \/ reg' = [reg EXCEPT ![r].enable = m] /\ UNCHANGED passed
       \/ /\ reg' = [reg EXCEPT ![r].ptransition = m]
          /\ passed' = [passed EXCEPT ![r] = @ \intersect m]
       \/ reg' = [reg EXCEPT ![r].ntransition = m] /\ UNCHANGED passed
    /\ UNCHANGED <<errorQueueVars, inst, ese, sre, moved, base>>

SetByteMask(m) ==
    /\ "byte" \in Moving
    /\ \/ ese' = m /\ UNCHANGED sre
       \/ sre' = m /\ UNCHANGED ese
    /\ UNCHANGED <<errorQueueVars, inst, reg, moved, base, passed>>

\* Mutant: the master summary is formed before the event status summary.
StatusByte_early_master(q) ==
    LET sums == (IF errors # <<>> THEN {ErrorQueueNotEmpty} ELSE {})
                  \union (IF q.event \intersect q.enable # {} THEN {QuestionableSummary} ELSE {})
    IN sums \union (IF sums \intersect sre # {} THEN {MasterStatusSummary} ELSE {})
            \union (IF event_status \intersect ese # {} THEN {EventStatusSummary} ELSE {})

\* What *STB? answers; q is the QUEStionable register once latched.
StatusByte(q) ==
    LET sums == (IF errors # <<>> THEN {ErrorQueueNotEmpty} ELSE {})
                  \union (IF q.event \intersect q.enable # {} THEN {QuestionableSummary} ELSE {})
                  \union (IF event_status \intersect ese # {} THEN {EventStatusSummary} ELSE {})
    IN sums \union (IF sums \intersect sre # {} THEN {MasterStatusSummary} ELSE {})

\* Mutant: *STB? consumes the event it summarises.
StatusByteQuery_clears ==
    /\ "QUES" \in Registers
    /\ reg' = [reg EXCEPT !["QUES"] = [latch_event("QUES") EXCEPT !.event = {}]]
    /\ UNCHANGED <<errorQueueVars, inst, ese, sre, moved, base, passed>>

\* *STB? latches the QUEStionable register and leaves the event in it.
StatusByteQuery ==
    /\ "QUES" \in Registers
    /\ reg' = [reg EXCEPT !["QUES"] = latch_event("QUES")]
    /\ UNCHANGED <<errorQueueVars, inst, ese, sre, moved, base, passed>>

\* What has changed since a query looked at the condition.
unnoticed(r) ==
    (condition(r, inst) \ reg[r].previous_condition)
        \union (reg[r].previous_condition \ condition(r, inst))

\* The histories go on with what no query has looked at yet.
NoticedTaken ==
    /\ moved' = [r \in Registers |-> unnoticed(r)]
    /\ base' = [r \in Registers |-> reg[r].previous_condition]
    /\ passed' = [r \in Registers |-> reg[r].ptransition]

\* Mutant: the events that *STB? has latched outlive *CLS.
ClearStatus_keeps_events ==
    /\ clear_status
    /\ NoticedTaken
    /\ UNCHANGED <<inst, reg, ese, sre>>

\* *CLS clears the EVENt parts; the previous conditions stay.
ClearStatus ==
    /\ clear_status
    /\ reg' = [r \in Registers |-> [reg[r] EXCEPT !.event = {}]]
    /\ NoticedTaken
    /\ UNCHANGED <<inst, ese, sre>>

\* *RST replaces the whole state but for the error queue.
Reset ==
    /\ reset
    /\ inst' = FreshInstrument(inst)
    /\ reg' = [r \in Registers |-> FreshRegister]
    /\ ese' = {} /\ sre' = {}
    /\ moved' = [r \in Registers |-> condition(r, inst')]
    /\ base' = [r \in Registers |-> {}]
    /\ passed' = [r \in Registers |-> Bits]

\* The commands of ErrorQueue that leave the registers alone.
ErrorCommand ==
    /\ "byte" \in Moving
    /\ \/ \E code \in Codes : push_error(code)
       \/ SystErr
       \/ SystErrAll
       \/ OperationCompleteCommand
       \/ EventStatusQuery
    /\ UNCHANGED statusVars

StatusNext ==
    /\ \/ SignalChanges \/ LoadChanges \/ SetupCommand
       \/ \E channel \in {"voltage", "current"} : LevelChanges(channel) \/ RangeCommand(channel)
       \/ SyncStateCommand
       \/ InitContinuous
       \/ Initiate
       \/ SweepCommand
       \/ Abort
       \/ \E r \in Registers : EventQuery(r) \/ \E m \in Masks : SetMask(r, m)
       \/ \E m \in ByteMasks : SetByteMask(m)
       \/ StatusByteQuery
       \/ ClearStatus
       \/ Reset
       \/ ErrorCommand
    /\ UNCHANGED watch

StatusSpec == StatusInit /\ [][StatusNext]_statVars

-----------------------------------------------------------------------------
(* Properties.                                                             *)

\* What an EVENt query would answer now.
WouldReport(r) == reg[r].event \union edges(reg[r], condition(r, inst))

\* An EVENt query reports only bits that did change since the register was
\* read the last time, and none that a query had noticed before *CLS: no edge
\* is reported twice and none comes back, however *STB?, *CLS and mask changes
\* follow one another (latch_event(), clear_status()).
NoPhantomEvents ==
    \A r \in Registers : WouldReport(r) \subseteq moved[r]

LastingRise(r) == (condition(r, inst) \ base[r]) \intersect passed[r]

\* A bit that was down when its register was read, is up now and has passed
\* PTRansition all the time is reported by the next EVENt query: *STB? takes
\* nothing away, and *CLS only what a query had noticed before it.
LastingRiseReported ==
    \A r \in Registers : LastingRise(r) \subseteq WouldReport(r)

\* A client that only polls *STB? sees the master summary whenever there is
\* something it enabled to be told of: a lasting questionable condition, or an
\* error raised since *ESR?, unless it took the overflow error itself.
ServiceRequested ==
    "QUES" \in Registers =>
        LET stb == StatusByte(latch_event("QUES"))
            questionable == LastingRise("QUES") \intersect reg["QUES"].enable # {}
            erroneous == raised > esr_mark /\ CommandError \in ese
        IN /\ questionable /\ QuestionableSummary \in sre => MasterStatusSummary \in stb
           /\ erroneous /\ {ErrorQueueNotEmpty, EventStatusSummary} \subseteq sre
                 => MasterStatusSummary \in stb \/ delivered.code = QueueOverflow
=============================================================================
