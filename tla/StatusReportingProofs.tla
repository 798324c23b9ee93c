----------------------- MODULE StatusReportingProofs -----------------------
(***************************************************************************)
(* What the status registers and *STB? promise a client, for every choice  *)
(* of registers, masks and error codes, every capacity of the error queue  *)
(* and any number of errors.  None of the three properties is inductive:   *)
(* what an EVENt query would answer depends on masks that a client may     *)
(* change at any time.  RegistersInv says how previous_condition, the      *)
(* events and the histories hang together whatever the masks are.  Two     *)
(* theorems are about steps: what *STB? leaves alone, and that the queue   *)
(* beneath is ErrorQueue's.                                                *)
(***************************************************************************)
EXTENDS Measurement, ErrorQueueProofs

\* The RegisterState of the code.
RegisterState ==
    [event : SUBSET Bits, enable : SUBSET Bits, ptransition : SUBSET Bits,
     ntransition : SUBSET Bits, previous_condition : SUBSET Bits]

RegisterTypes ==
    /\ watch \in Watches
    /\ reg \in [Registers -> RegisterState]
    /\ moved \in [Registers -> SUBSET Bits]
    /\ base \in [Registers -> SUBSET Bits]
    /\ passed \in [Registers -> SUBSET Bits]

\* Whatever is latched, and whatever differs from the condition at the last
\* look, has changed since the register was read.
Moved(r) ==
    /\ reg[r].event \subseteq moved[r]
    /\ condition(r, inst) \ reg[r].previous_condition \subseteq moved[r]
    /\ reg[r].previous_condition \ condition(r, inst) \subseteq moved[r]

\* What PTRansition let through all the time is let through now, and a rise
\* that was noticed is latched.
Noticed(r) ==
    /\ passed[r] \subseteq reg[r].ptransition
    /\ (reg[r].previous_condition \ base[r]) \intersect passed[r] \subseteq reg[r].event

RegistersInv == \A r \in Registers : Moved(r) /\ Noticed(r)

StatusInv == Inv /\ RegisterTypes /\ RegistersInv

\* condition() answers with bits of the register.
LEMMA ConditionBits ==
  ASSUME NEW r \in AllRegisters, NEW i
  PROVE  condition(r, i) \in SUBSET Bits
  BY DEF condition, AllRegisters, Bits, channel_bits, Levels

\* The registers a client watches are registers of the instrument.
LEMMA WatchedRegisters ==
  ASSUME watch \in Watches
  PROVE  Registers \subseteq AllRegisters
  BY StatusReportingAssumption DEF Registers

\* A fresh instrument with fresh registers.
LEMMA StatusInitInv == StatusInit => StatusInv
<1> SUFFICES ASSUME StatusInit PROVE StatusInv
  OBVIOUS
<1>1. Inv
  BY InitInv DEF StatusInit
<1>2. Registers \subseteq AllRegisters
  BY WatchedRegisters DEF StatusInit
<1>3. FreshRegister \in RegisterState
  BY DEF FreshRegister, RegisterState
<1>4. RegisterTypes
  BY <1>2, <1>3, ConditionBits DEF StatusInit, RegisterTypes
<1>5. RegistersInv
  BY DEF StatusInit, RegistersInv, Moved, Noticed, FreshRegister
<1> QED
  BY <1>1, <1>4, <1>5 DEF StatusInv

\* Something the conditions depend on changes: the change is in moved.
LEMMA ChangeInv ==
  ASSUME StatusInv, UNCHANGED watch, NEW i, Change(i)
  PROVE  StatusInv'
<1>1. /\ Registers' = Registers /\ Registers \subseteq AllRegisters
      /\ UNCHANGED <<watch, reg, base, passed>> /\ inst' = i
      /\ \A r \in Registers : moved'[r] = moved[r]
                                 \union (condition(r, inst) \ condition(r, i))
                                 \union (condition(r, i) \ condition(r, inst))
  BY WatchedRegisters DEF Change, Registers, StatusInv, RegisterTypes
<1>2. Inv'
  BY NextInv DEF Change, StatusInv
<1>3. moved' \in [Registers -> SUBSET Bits]
  BY <1>1, ConditionBits DEF Change, StatusInv, RegisterTypes
<1>4. RegisterTypes'
  BY <1>1, <1>3 DEF StatusInv, RegisterTypes
<1>5. ASSUME NEW r \in Registers PROVE Moved(r)' /\ Noticed(r)'
  BY <1>1 DEF StatusInv, RegistersInv, Moved, Noticed
<1> QED
  BY <1>1, <1>2, <1>4, <1>5 DEF StatusInv, RegistersInv

\* Reading an EVENt part starts its histories anew.
LEMMA EventQueryInv ==
  ASSUME StatusInv, UNCHANGED watch, NEW r \in Registers, EventQuery(r)
  PROVE  StatusInv'
<1> DEFINE now == condition(r, inst)
<1>1. /\ Registers' = Registers /\ now \in SUBSET Bits
      /\ UNCHANGED <<watch, inst>>
      /\ reg[r] \in RegisterState
  BY WatchedRegisters, ConditionBits DEF EventQuery, Registers, StatusInv, RegisterTypes
<1>2. Inv'
  BY NextInv DEF EventQuery, StatusInv
<1> DEFINE new == [latch_event(r) EXCEPT !.event = {}]
<1>3. /\ new \in RegisterState
      /\ new.event = {} /\ new.previous_condition = now
      /\ new.ptransition = reg[r].ptransition
  BY <1>1 DEF latch_event, RegisterState
<1> HIDE DEF new, now
<1>4. /\ reg' = [reg EXCEPT ![r] = new] /\ moved' = [moved EXCEPT ![r] = {}]
      /\ base' = [base EXCEPT ![r] = now]
      /\ passed' = [passed EXCEPT ![r] = reg[r].ptransition]
  BY DEF EventQuery, new, now
<1>5. reg[r].ptransition \in SUBSET Bits
  BY <1>1 DEF RegisterState
<1>6. RegisterTypes'
  BY <1>1, <1>3, <1>4, <1>5 DEF StatusInv, RegisterTypes
<1>7. ASSUME NEW q \in Registers PROVE Moved(q)' /\ Noticed(q)'
  <2>1. CASE q = r
    <3>1. /\ reg'[r] = new /\ moved'[r] = {} /\ base'[r] = now
          /\ passed'[r] = reg[r].ptransition
      BY <1>4 DEF StatusInv, RegisterTypes
    <3>2. condition(r, inst)' = now
      BY <1>1 DEF now
    <3> QED
      BY <1>3, <2>1, <3>1, <3>2 DEF Moved, Noticed
  <2>2. CASE q # r
    BY <1>1, <1>4, <2>2 DEF StatusInv, RegisterTypes, RegistersInv, Moved, Noticed
  <2> QED
    BY <2>1, <2>2
<1> QED
  BY <1>1, <1>2, <1>6, <1>7 DEF StatusInv, RegistersInv

\* *STB? latches the QUEStionable register: every edge it finds is a change,
\* and every rise it notices stays in the event.
LEMMA StatusByteQueryInv ==
  ASSUME StatusInv, UNCHANGED watch, StatusByteQuery
  PROVE  StatusInv'
<1> DEFINE r == "QUES"
           now == condition(r, inst)
           new == latch_event(r)
<1>1. /\ Registers' = Registers /\ now \in SUBSET Bits /\ r \in Registers
      /\ UNCHANGED <<watch, inst, moved, base, passed>>
      /\ reg[r] \in RegisterState
  BY WatchedRegisters, ConditionBits DEF StatusByteQuery, Registers, StatusInv, RegisterTypes
<1>2. Inv'
  BY NextInv DEF StatusByteQuery, StatusInv
<1>3. /\ new \in RegisterState
      /\ new.event = reg[r].event \union edges(reg[r], now)
      /\ new.previous_condition = now
      /\ new.ptransition = reg[r].ptransition
  BY <1>1 DEF latch_event, RegisterState, edges
<1>4. reg' = [reg EXCEPT ![r] = new]
  BY DEF StatusByteQuery
<1> HIDE DEF new, now, r
<1>5. RegisterTypes'
  BY <1>1, <1>3, <1>4 DEF StatusInv, RegisterTypes
<1>6. ASSUME NEW q \in Registers PROVE Moved(q)' /\ Noticed(q)'
  <2>1. CASE q = r
    <3>1. reg'[r] = new /\ condition(r, inst)' = now
      BY <1>1, <1>4 DEF StatusInv, RegisterTypes, now
    <3>2. Moved(r) /\ Noticed(r)
      BY <1>1 DEF StatusInv, RegistersInv
    <3>3. Moved(r)'
      BY <1>1, <1>3, <3>1, <3>2 DEF Moved, edges, now
    <3>4. Noticed(r)'
      BY <1>1, <1>3, <3>1, <3>2 DEF Noticed, edges, now
    <3> QED
      BY <2>1, <3>3, <3>4
  <2>2. CASE q # r
    BY <1>1, <1>4, <2>2 DEF StatusInv, RegisterTypes, RegistersInv, Moved, Noticed
  <2> QED
    BY <2>1, <2>2
<1> QED
  BY <1>1, <1>2, <1>5, <1>6 DEF StatusInv, RegistersInv

\* A mask is set.  Nothing about the masks is in the invariant but for the
\* rises that PTRansition let through.
LEMMA SetMaskInv ==
  ASSUME StatusInv, UNCHANGED watch, NEW r \in Registers, NEW m \in Masks, SetMask(r, m)
  PROVE  StatusInv'
<1>1. /\ Registers' = Registers /\ m \in SUBSET Bits
      /\ UNCHANGED <<watch, inst, moved, base>>
      /\ reg[r] \in RegisterState
  BY StatusReportingAssumption DEF SetMask, Registers, StatusInv, RegisterTypes
<1>2. Inv'
  BY NextInv DEF SetMask, StatusInv
<1>3. PICK new \in RegisterState :
         /\ reg' = [reg EXCEPT ![r] = new]
         /\ new.event = reg[r].event
         /\ new.previous_condition = reg[r].previous_condition
         /\ \/ new.ptransition = reg[r].ptransition /\ passed' = passed
            \/ /\ new.ptransition = m
               /\ passed' = [passed EXCEPT ![r] = @ \intersect m]
  <2> USE <1>1 DEF RegisterState
  <2>1. CASE reg' = [reg EXCEPT ![r].enable = m] /\ UNCHANGED passed
    <3> WITNESS [reg[r] EXCEPT !.enable = m] \in RegisterState
    <3> QED
      BY <2>1 DEF StatusInv, RegisterTypes
  <2>2. CASE /\ reg' = [reg EXCEPT ![r].ptransition = m]
             /\ passed' = [passed EXCEPT ![r] = @ \intersect m]
    <3> WITNESS [reg[r] EXCEPT !.ptransition = m] \in RegisterState
    <3> QED
      BY <2>2 DEF StatusInv, RegisterTypes
  <2>3. CASE reg' = [reg EXCEPT ![r].ntransition = m] /\ UNCHANGED passed
    <3> WITNESS [reg[r] EXCEPT !.ntransition = m] \in RegisterState
    <3> QED
      BY <2>3 DEF StatusInv, RegisterTypes
  <2> QED
    BY <2>1, <2>2, <2>3 DEF SetMask
<1>4. RegisterTypes'
  BY <1>1, <1>3 DEF StatusInv, RegisterTypes
<1>5. ASSUME NEW q \in Registers PROVE Moved(q)' /\ Noticed(q)'
  <2>1. CASE q = r
    BY <1>1, <1>3, <2>1 DEF StatusInv, RegisterTypes, RegistersInv, Moved, Noticed
  <2>2. CASE q # r
    BY <1>1, <1>3, <2>2 DEF StatusInv, RegisterTypes, RegistersInv, Moved, Noticed
  <2> QED
    BY <2>1, <2>2
<1> QED
  BY <1>1, <1>2, <1>4, <1>5 DEF StatusInv, RegistersInv

\* *CLS takes the events away, and the histories go on from the condition that
\* was noticed last; *RST starts everything anew.
LEMMA ClearResetInv ==
  ASSUME StatusInv, UNCHANGED watch, ClearStatus \/ Reset
  PROVE  StatusInv'
<1>1. Registers' = Registers /\ Registers \subseteq AllRegisters /\ watch' \in Watches
  BY WatchedRegisters DEF Registers, StatusInv, RegisterTypes
<1>2. Inv'
  BY NextInv DEF ClearStatus, Reset, Next, StatusInv
<1>3. CASE ClearStatus
  <2>1. ASSUME NEW r \in Registers
        PROVE  /\ [reg[r] EXCEPT !.event = {}] \in RegisterState
               /\ reg'[r].event = {}
               /\ reg'[r].previous_condition = reg[r].previous_condition
               /\ reg'[r].ptransition = reg[r].ptransition
               /\ {reg[r].previous_condition, reg[r].ptransition} \subseteq SUBSET Bits
    BY <1>3 DEF ClearStatus, StatusInv, RegisterTypes, RegisterState
  <2>2. /\ inst' = inst
        /\ \A r \in Registers : /\ moved'[r] = unnoticed(r)
                                 /\ base'[r] = reg[r].previous_condition
                                 /\ passed'[r] = reg[r].ptransition
    BY <1>1, <1>3 DEF ClearStatus, NoticedTaken
  <2>3. /\ reg' \in [Registers -> RegisterState]
        /\ base' \in [Registers -> SUBSET Bits]
        /\ passed' \in [Registers -> SUBSET Bits]
    BY <1>3, <2>1 DEF ClearStatus, NoticedTaken
  <2>4. moved' \in [Registers -> SUBSET Bits]
    <3>1. ASSUME NEW r \in Registers PROVE unnoticed(r) \in SUBSET Bits
      BY <1>1, <2>1, ConditionBits DEF unnoticed
    <3> QED
      BY <1>3, <3>1 DEF ClearStatus, NoticedTaken
  <2>5. RegisterTypes'
    BY <1>1, <2>3, <2>4 DEF RegisterTypes
  <2>6. ASSUME NEW r \in Registers PROVE Moved(r)' /\ Noticed(r)'
    BY <2>1, <2>2 DEF Moved, Noticed, unnoticed
  <2> QED
    BY <1>1, <1>2, <2>5, <2>6 DEF StatusInv, RegistersInv
<1>4. CASE Reset
  <2>1. FreshRegister \in RegisterState /\ \A r \in Registers : condition(r, inst') \in SUBSET Bits
    BY <1>1, ConditionBits DEF FreshRegister, RegisterState
  <2>2. RegisterTypes'
    BY <1>1, <1>4, <2>1 DEF Reset, RegisterTypes
  <2>3. ASSUME NEW r \in Registers PROVE Moved(r)' /\ Noticed(r)'
    BY <1>4 DEF Reset, Moved, Noticed, FreshRegister
  <2> QED
    BY <1>1, <1>2, <2>2, <2>3 DEF StatusInv, RegistersInv
<1> QED
  BY <1>3, <1>4

\* The other commands leave the registers alone.
LEMMA OtherInv ==
  ASSUME StatusInv, UNCHANGED <<watch, reg, inst, moved, base, passed>>,
         [Next]_errorQueueVars
  PROVE  StatusInv'
  BY NextInv DEF StatusInv, RegisterTypes, RegistersInv, Moved, Noticed, Registers

\* Every command keeps the invariant.
LEMMA StatusNextInv == StatusInv /\ [StatusNext]_statVars => StatusInv'
<1> SUFFICES ASSUME StatusInv, [StatusNext]_statVars PROVE StatusInv'
  OBVIOUS
<1>1. CASE UNCHANGED statVars
  BY <1>1, OtherInv DEF statVars, statusVars
<1>2. CASE StatusNext
  <2>1. UNCHANGED watch
    BY <1>2 DEF StatusNext
  <2>2. ASSUME NEW i, Change(i) PROVE StatusInv'
    BY <2>1, <2>2, ChangeInv
  <2>3. CASE SignalChanges \/ LoadChanges \/ SetupCommand
    BY <2>2, <2>3 DEF SignalChanges, LoadChanges, SetupCommand
  <2>4. ASSUME NEW channel, LevelChanges(channel) \/ RangeCommand(channel)
        PROVE  StatusInv'
    BY <2>2, <2>4 DEF LevelChanges, RangeCommand
  <2>5. CASE SyncStateCommand \/ InitContinuous \/ Initiate \/ SweepCommand \/ Abort
    BY <2>2, <2>5 DEF SyncStateCommand, InitContinuous, Initiate, SweepCommand, Abort
  <2>6. ASSUME NEW r \in Registers, EventQuery(r) \/ \E m \in Masks : SetMask(r, m)
        PROVE  StatusInv'
    BY <2>1, <2>6, EventQueryInv, SetMaskInv
  <2>7. ASSUME NEW m \in ByteMasks, SetByteMask(m) PROVE StatusInv'
    BY <2>1, <2>7, OtherInv DEF SetByteMask
  <2>8. CASE StatusByteQuery \/ ClearStatus \/ Reset
    BY <2>1, <2>8, StatusByteQueryInv, ClearResetInv
  <2>9. CASE ErrorCommand
    BY <2>1, <2>9, OtherInv DEF ErrorCommand, statusVars, Next
  <2> QED
    BY <1>2, <2>3, <2>4, <2>5, <2>6, <2>7, <2>8, <2>9 DEF StatusNext
<1> QED
  BY <1>1, <1>2

\* In a state that satisfies the invariant the three properties hold.
LEMMA LastingRiseLatched ==
  ASSUME StatusInv, NEW r \in Registers
  PROVE  LastingRise(r) \subseteq WouldReport(r)
  BY DEF StatusInv, RegistersInv, Noticed, LastingRise, WouldReport, edges

\* An EVENt query reports only bits that changed since the register was read,
\* and nothing that was noticed before *CLS, whatever masks were set and however
\* often *STB? came in between (latch_event(), clear_status()).
THEOREM EventsAreReal == StatusSpec => []NoPhantomEvents
<1>1. StatusInv => NoPhantomEvents
  BY DEF StatusInv, RegistersInv, Moved, NoPhantomEvents, WouldReport, edges
<1> QED
  BY <1>1, StatusInitInv, StatusNextInv, PTL DEF StatusSpec

\* A rise that lasts and passes PTRansition is reported by the next EVENt
\* query, unless *CLS took it once it was noticed: *STB?, which latches the same
\* register, does not consume it (latch_event(), the *STB? handler).
THEOREM RisesAreReported == StatusSpec => []LastingRiseReported
<1>1. StatusInv => LastingRiseReported
  BY LastingRiseLatched DEF LastingRiseReported
<1> QED
  BY <1>1, StatusInitInv, StatusNextInv, PTL DEF StatusSpec

\* Which summaries *STB? forms, and that any enabled one raises the master.
LEMMA MasterOf ==
  ASSUME NEW q
  PROVE  /\ q.event \intersect q.enable # {} /\ QuestionableSummary \in sre
               => MasterStatusSummary \in StatusByte(q)
         /\ errors # <<>> /\ ErrorQueueNotEmpty \in sre
               => MasterStatusSummary \in StatusByte(q)
         /\ event_status \intersect ese # {} /\ EventStatusSummary \in sre
               => MasterStatusSummary \in StatusByte(q)
  BY DEF StatusByte

\* A client that polls only *STB? and enabled what it wants to be told of sees
\* the master summary: for a lasting questionable condition always, and for an
\* error raised since *ESR? unless it took the overflow error out of the queue
\* itself, which is the one case push_error() leaves the ESR alone.
THEOREM PollingSuffices == StatusSpec => []ServiceRequested
<1>1. StatusInv => ServiceRequested
  <2> SUFFICES ASSUME StatusInv, "QUES" \in Registers PROVE ServiceRequested
    BY DEF ServiceRequested
  <2> DEFINE q == latch_event("QUES")
             stb == StatusByte(q)
  <2>1. /\ q.event = WouldReport("QUES") /\ q.enable = reg["QUES"].enable
    BY DEF latch_event, WouldReport, StatusInv, RegisterTypes, RegisterState
  <2>2. ASSUME LastingRise("QUES") \intersect reg["QUES"].enable # {},
               QuestionableSummary \in sre
        PROVE  MasterStatusSummary \in stb
    <3>1. q.event \intersect q.enable # {}
      BY <2>1, <2>2, LastingRiseLatched
    <3> QED
      BY <2>2, <3>1, MasterOf
  <2>3. ASSUME raised > esr_mark, CommandError \in ese,
               {ErrorQueueNotEmpty, EventStatusSummary} \subseteq sre
        PROVE  MasterStatusSummary \in stb \/ delivered.code = QueueOverflow
    <3>1. CASE CommandError \in event_status
      BY <2>3, <3>1, MasterOf
    <3>2. CASE CommandError \notin event_status
      <4>1. Newest.code = QueueOverflow
        BY <2>3, <3>2 DEF StatusInv, Inv, EsrOrOverflow
      <4> QED
        BY <2>3, <4>1, MasterOf DEF Newest
    <3> QED
      BY <3>1, <3>2
  <2> QED
    BY <2>2, <2>3 DEF ServiceRequested
<1> QED
  BY <1>1, StatusInitInv, StatusNextInv, PTL DEF StatusSpec

\* *STB? latches the QUEStionable register and still changes nothing of what
\* the EVENt queries would answer: a client that polls takes nothing from one
\* that reads the registers.
PollingTakesNothing ==
    [][StatusByteQuery => \A r \in Registers : WouldReport(r)' = WouldReport(r)]_statVars

\* Polling *STB? is invisible to the EVENt queries, whatever is latched and
\* masked (latch_event(), the *STB? handler).
THEOREM PollingIsHarmless == StatusSpec => PollingTakesNothing
<1>1. StatusInv /\ [StatusNext]_statVars =>
        [StatusByteQuery => \A r \in Registers : WouldReport(r)' = WouldReport(r)]_statVars
  <2> SUFFICES ASSUME StatusInv, StatusByteQuery, NEW r \in Registers
               PROVE  WouldReport(r)' = WouldReport(r)
    OBVIOUS
  <2>1. /\ inst' = inst
        /\ reg' = [reg EXCEPT !["QUES"] = latch_event("QUES")]
        /\ reg \in [Registers -> RegisterState] /\ "QUES" \in Registers
    BY DEF StatusByteQuery, StatusInv, RegisterTypes
  <2>2. CASE r # "QUES"
    BY <2>1, <2>2 DEF WouldReport
  <2>3. CASE r = "QUES"
    <3>1. reg'[r] = latch_event(r) /\ reg[r] \in RegisterState
      BY <2>1, <2>3
    <3>2. /\ latch_event(r).event = reg[r].event \union edges(reg[r], condition(r, inst))
          /\ latch_event(r).previous_condition = condition(r, inst)
      BY <3>1 DEF latch_event, RegisterState
    <3>3. edges(latch_event(r), condition(r, inst)) = {}
      BY <3>2 DEF edges
    <3> QED
      BY <2>1, <3>1, <3>2, <3>3 DEF WouldReport
  <2> QED
    BY <2>2, <2>3
<1> QED
  BY <1>1, StatusInitInv, StatusNextInv, PTL DEF StatusSpec, PollingTakesNothing

\* The status commands leave the error queue to its own commands, *CLS and
\* *RST included, so what is proved of ErrorQueue holds beneath them.
THEOREM StatusKeepsQueue == StatusSpec => Spec
<1>1. StatusInit => Init
  BY DEF StatusInit
<1>2. [StatusNext]_statVars => [Next]_errorQueueVars
  <2> SUFFICES ASSUME [StatusNext]_statVars PROVE [Next]_errorQueueVars
    OBVIOUS
  <2>1. ASSUME NEW i, Change(i) PROVE UNCHANGED errorQueueVars
    BY <2>1 DEF Change
  <2>2. CASE SignalChanges \/ LoadChanges \/ SetupCommand \/ SyncStateCommand
             \/ InitContinuous \/ Initiate \/ SweepCommand \/ Abort
             \/ \E channel \in {"voltage", "current"} :
                   LevelChanges(channel) \/ RangeCommand(channel)
    BY <2>1, <2>2 DEF SignalChanges, LoadChanges, SetupCommand, SyncStateCommand,
          InitContinuous, Initiate, SweepCommand, Abort, LevelChanges, RangeCommand
  <2>3. CASE StatusByteQuery \/ \E m \in ByteMasks : SetByteMask(m)
    BY <2>3 DEF StatusByteQuery, SetByteMask
  <2>4. CASE \E r \in Registers : EventQuery(r) \/ \E m \in Masks : SetMask(r, m)
    BY <2>4 DEF EventQuery, SetMask
  <2>5. CASE ClearStatus \/ Reset \/ ErrorCommand
    BY <2>5 DEF ClearStatus, Reset, ErrorCommand, Next
  <2>6. CASE UNCHANGED statVars
    BY <2>6 DEF statVars
  <2> QED
    BY <2>2, <2>3, <2>4, <2>5, <2>6 DEF StatusNext
<1> QED
  BY <1>1, <1>2, PTL DEF StatusSpec, Spec

-----------------------------------------------------------------------------
(* measure() in every state of the instrument.                             *)

InstrumentState ==
    [signal : BOOLEAN, sync : BOOLEAN, voltage : Levels, current : Levels,
     continuous : BOOLEAN, initiated : BOOLEAN, sweep : BOOLEAN,
     load : Loads, dead : DeadChannels,
     setup : [aperture : {"in", "nan"}, nan_scales : SUBSET {"voltage", "current"},
              integral : BOOLEAN, efficiency : {"unset", "powers", "times", "minima"}]]

\* *RST leaves the signal as it is and takes the settings back.
LEMMA FreshInstrumentType ==
  ASSUME NEW i, i.signal \in BOOLEAN, i.load \in Loads, i.dead \in DeadChannels
  PROVE  FreshInstrument(i) \in InstrumentState
  BY DEF FreshInstrument, InstrumentState, Levels

\* A setting, the signal or the acquisition changes.
LEMMA InstrumentStep ==
  ASSUME inst \in InstrumentState, StatusNext
  PROVE  inst' \in InstrumentState
<1>0. ASSUME NEW i \in InstrumentState, Change(i) PROVE inst' \in InstrumentState
  BY <1>0 DEF Change
<1>1. CASE SignalChanges
  <2>1. [inst EXCEPT !.signal = ~@] \in InstrumentState
    BY DEF InstrumentState
  <2> QED
    BY <1>0, <1>1, <2>1 DEF SignalChanges
<1>2. CASE LoadChanges
  <2>1. ASSUME NEW l \in Loads, NEW d \in DeadChannels
        PROVE  [inst EXCEPT !.load = l, !.dead = d] \in InstrumentState
    BY DEF InstrumentState
  <2> QED
    BY <1>0, <1>2, <2>1 DEF LoadChanges
<1>3. CASE SetupCommand
  <2>1. ASSUME NEW a \in {"in", "nan"}
        PROVE  [inst EXCEPT !.setup.aperture = a] \in InstrumentState
    BY DEF InstrumentState
  <2>2. ASSUME NEW c \in SUBSET {"voltage", "current"}
        PROVE  [inst EXCEPT !.setup.nan_scales = c] \in InstrumentState
    BY DEF InstrumentState
  <2>3. ASSUME NEW b \in BOOLEAN
        PROVE  [inst EXCEPT !.setup.integral = b] \in InstrumentState
    BY DEF InstrumentState
  <2>4. ASSUME NEW e \in {"powers", "times", "minima"}
        PROVE  [inst EXCEPT !.setup.efficiency = e] \in InstrumentState
    BY DEF InstrumentState
  <2> QED
    BY <1>0, <1>3, <2>1, <2>2, <2>3, <2>4 DEF SetupCommand
<1>4. ASSUME NEW channel \in {"voltage", "current"},
             LevelChanges(channel) \/ RangeCommand(channel)
      PROVE  inst' \in InstrumentState
  <2>1. ASSUME NEW l \in Levels PROVE [inst EXCEPT ![channel] = l] \in InstrumentState
    BY DEF InstrumentState
  <2> QED
    BY <1>0, <1>4, <2>1 DEF LevelChanges, RangeCommand
<1>5. CASE SyncStateCommand \/ InitContinuous \/ Initiate \/ SweepCommand \/ Abort
  <2>1. ASSUME NEW b \in BOOLEAN
        PROVE  /\ [inst EXCEPT !.sync = b] \in InstrumentState
               /\ [inst EXCEPT !.continuous = b] \in InstrumentState
               /\ [inst EXCEPT !.initiated = TRUE] \in InstrumentState
               /\ [inst EXCEPT !.sweep = b] \in InstrumentState
               /\ [inst EXCEPT !.initiated = FALSE, !.sweep = FALSE] \in InstrumentState
    BY DEF InstrumentState
  <2> QED
    BY <1>0, <1>5, <2>1 DEF SyncStateCommand, InitContinuous, Initiate, SweepCommand, Abort
<1>6. CASE Reset
  BY <1>6, FreshInstrumentType DEF Reset, InstrumentState
<1>7. ASSUME UNCHANGED inst PROVE inst' \in InstrumentState
  BY <1>7
<1>8. CASE StatusByteQuery \/ ClearStatus \/ ErrorCommand \/ \E m \in ByteMasks : SetByteMask(m)
  BY <1>7, <1>8 DEF StatusByteQuery, ClearStatus, ErrorCommand, statusVars, SetByteMask
<1>9. CASE \E r \in Registers : EventQuery(r) \/ \E m \in Masks : SetMask(r, m)
  BY <1>7, <1>9 DEF EventQuery, SetMask
<1> QED
  BY <1>1, <1>2, <1>3, <1>4, <1>5, <1>6, <1>8, <1>9 DEF StatusNext

\* What the arithmetic of measure() gives when every divisor is tested.
Doubles == {"nan", "-", "0", "+"}

\* A product is a NaN only when a factor is.
LEMMA TimesKind ==
  ASSUME NEW a \in Doubles, NEW b \in Doubles
  PROVE  /\ times(a, b) \in Doubles
         /\ times(a, b) = "nan" <=> a = "nan" \/ b = "nan"
         /\ a # "nan" /\ b # "nan" => (times(a, b) = "0" <=> a = "0" \/ b = "0")
         /\ a = "+" /\ b = "+" => times(a, b) = "+"
<1>1. {a, b} # {"0", "inf"} /\ "inf" \notin {a, b}
  BY DEF Doubles
<1> QED
  BY <1>1 DEF times, Doubles

\* A tested quotient is a NaN when a part of it is or the divisor is zero, and
\* never an infinity.
LEMMA RatioKind ==
  ASSUME NEW a \in Doubles, NEW b \in Doubles
  PROVE  /\ ratio(a, b) \in Doubles
         /\ ratio(a, b) = "nan" <=> a = "nan" \/ b = "nan" \/ b = "0"
  BY DEF ratio, quotient, Doubles

\* The sign filters of the accumulators keep a NaN and make none.
LEMMA SignFilterKind ==
  ASSUME NEW v \in Doubles, NEW m
  PROVE  sign_filter(m, v) \in Doubles /\ (sign_filter(m, v) = "nan" <=> v = "nan")
  BY DEF sign_filter, less, Doubles

\* What the channels and the settings contribute.
LEMMA InputKinds ==
  ASSUME NEW i, NEW channel
  PROVE  /\ mean(i, channel) \in {"0", "+"} /\ (mean(i, channel) = "0" <=> dead(i, channel))
         /\ scale(i, channel) \in {"nan", "+"}
         /\ scale(i, channel) = "nan" <=> channel \in i.setup.nan_scales
  BY DEF mean, scale

\* The quantities of the functions, and which modifiers they may have.
LEMMA FunctionShape ==
  ASSUME NEW f \in Functions
  PROVE  /\ f = Function(f.quantity, f.tail, f.modifier, f.line)
         /\ f.quantity \in DOMAIN Tails /\ f.line \in BOOLEAN
         /\ f.modifier \in {"none", "HAR", "MIN", "MAX"} \union Accumulators
<1> DEFINE Named == UNION {{Function(q, t, "none", FALSE) : t \in Tails[q] \union {"other"}}
                           : q \in DOMAIN Tails}
           Modified == UNION {{Function("VOLT", t, m, FALSE) :
                                  m \in Accumulators \union {"MIN", "MAX", "HAR"}} :
                              t \in {"scaled", "PLOW"}}
           Untailed == UNION {{Function(q, "none", m, FALSE) : m \in {"MIN", "INT", "HAR"}}
                              : q \in {"FREQ", "TIME"}}
           OfLines == {Function(q, "scaled", "none", TRUE) : q \in {"VOLT", "CURR"}}
<1>1. Functions = Named \union Modified \union Untailed \union OfLines
  BY DEF Functions
<1>2. {"VOLT", "CURR", "FREQ", "TIME"} \subseteq DOMAIN Tails /\ "INT" \in Accumulators
  BY DEF Tails, Accumulators
<1>3. ASSUME NEW q \in DOMAIN Tails, NEW t, NEW l \in BOOLEAN,
             NEW m \in {"none", "HAR", "MIN", "MAX"} \union Accumulators, f = Function(q, t, m, l)
      PROVE  /\ f = Function(f.quantity, f.tail, f.modifier, f.line)
             /\ f.quantity \in DOMAIN Tails /\ f.line \in BOOLEAN
             /\ f.modifier \in {"none", "HAR", "MIN", "MAX"} \union Accumulators
  BY <1>3 DEF Function
<1>4. CASE f \in Named
  BY <1>3, <1>4
<1>5. CASE f \in Modified
  <2>1. PICK t \in {"scaled", "PLOW"}, m \in Accumulators \union {"MIN", "MAX", "HAR"} :
           f = Function("VOLT", t, m, FALSE)
    BY <1>5
  <2> QED
    BY <1>2, <1>3, <2>1
<1>6. CASE f \in Untailed
  <2>1. PICK q \in {"FREQ", "TIME"}, m \in {"MIN", "INT", "HAR"} : f = Function(q, "none", m, FALSE)
    BY <1>6
  <2> QED
    BY <1>2, <1>3, <2>1
<1>7. CASE f \in OfLines
  BY <1>2, <1>3, <1>7
<1> HIDE DEF Named, Modified, Untailed, OfLines
<1> QED
  BY <1>1, <1>4, <1>5, <1>6, <1>7

\* The early returns of measure(), in whatever order, leave the functions that
\* are implemented, enabled and taken.
LEMMA EarlyReturns ==
  ASSUME NEW f, NEW i, f.line \in BOOLEAN,
         f.modifier \in {"none", "HAR", "MIN", "MAX"} \union Accumulators
  PROVE  unavailable(f, i) \/ undefined(f, i)
            <=> ~(/\ Implemented(f, i) /\ Taken(f, i)
                  /\ f.tail = "EFF" => i.setup.efficiency # "unset")
<1> DEFINE eff == f.tail = "EFF" => i.setup.efficiency # "unset"
           known == f.tail \in Tails[f.quantity]
           acc == f.modifier \in Accumulators
<1>1. /\ {"none", "HAR", "MIN", "MAX"} \intersect Accumulators = {}
      /\ unknown(f, i) <=> ~known \/ ~eff \/ (f.quantity \in {"FREQ", "TIME"} /\ f.modifier # "none")
  BY DEF Accumulators, unknown
<1> HIDE DEF known
<1> QED
  BY <1>1 DEF unavailable, undefined, Implemented, Taken, known, measuring

\* The value a branch computes is a NaN exactly when a setting it depends on is
\* one, or it would divide by zero.
LEMMA BranchValue ==
  ASSUME NEW f, NEW i \in InstrumentState, NEW in, NEW out,
         f.quantity \in DOMAIN Tails, f.tail \in Tails[f.quantity], f.tail # "EFF"
  PROVE  /\ computed(f, i, in, out) \in Doubles
         /\ computed(f, i, in, out) = "nan"
               <=> ~(Settings(f) \intersect NotNumbers(i) = {} /\ Divisible(f, i))
<1> DEFINE v == computed(f, i, in, out)
           sane == Settings(f) \intersect NotNumbers(i) = {} /\ Divisible(f, i)
           V == "voltage"
           C == "current"
<1>1. /\ V \in NotNumbers(i) <=> scale(i, V) = "nan"
      /\ C \in NotNumbers(i) <=> scale(i, C) = "nan"
      /\ "aperture" \in NotNumbers(i) <=> i.setup.aperture = "nan"
  BY DEF NotNumbers, scale, InstrumentState
<1>2. /\ {mean(i, V), mean(i, C)} \subseteq {"0", "+"}
      /\ {scale(i, V), scale(i, C)} \subseteq {"nan", "+"}
      /\ mean(i, V) = "0" <=> dead(i, V)
      /\ mean(i, C) = "0" <=> dead(i, C)
  BY InputKinds
<1>3. /\ {"0", "+"} \subseteq Doubles /\ {"nan", "+"} \subseteq Doubles
      /\ "-" \in Doubles
  BY DEF Doubles
<1>4. /\ apparent(i) \in {"0", "+"}
      /\ apparent(i) = "0" <=> dead(i, V) \/ dead(i, C)
      /\ impedance(i) \in Doubles
      /\ impedance(i) = "nan" <=> dead(i, C)
  BY <1>2, <1>3, TimesKind, RatioKind DEF apparent, impedance, Doubles
<1>5. ASSUME NEW channel \in {V, C}
      PROVE  /\ times(mean(i, channel), scale(i, channel)) \in Doubles
             /\ times("-", times(mean(i, channel), scale(i, channel))) \in Doubles
             /\ times(mean(i, channel), scale(i, channel)) = "nan" <=> channel \in NotNumbers(i)
             /\ times("-", times(mean(i, channel), scale(i, channel))) = "nan"
                   <=> channel \in NotNumbers(i)
  BY <1>1, <1>2, <1>3, TimesKind DEF Doubles
<1>6. CASE f.quantity = "VOLT"
  <2>1. f.tail \in {"scaled", "PLOW", "plain"}
    BY <1>6 DEF Tails
  <2>2. v = voltage_or_current(f, i, V)
    BY <1>6, <2>1 DEF computed
  <2>3. sane <=> f.tail = "plain" \/ V \notin NotNumbers(i)
    BY <1>6, <2>1 DEF Settings, Channels, Divisible
  <2> QED
    BY <1>3, <1>5, <2>1, <2>2, <2>3 DEF voltage_or_current, Doubles
<1>7. CASE f.quantity = "CURR"
  <2>1. f.tail \in {"scaled", "PLOW", "plain"}
    BY <1>7 DEF Tails
  <2>2. v = voltage_or_current(f, i, C)
    BY <1>7, <2>1 DEF computed
  <2>3. sane <=> f.tail = "plain" \/ C \notin NotNumbers(i)
    BY <1>7, <2>1 DEF Settings, Channels, Divisible
  <2> QED
    BY <1>3, <1>5, <2>1, <2>2, <2>3 DEF voltage_or_current, Doubles
<1>8. CASE f.quantity = "POW"
  <2>1. f.tail \in {"ACT", "FACT"}
    BY <1>8 DEF Tails
  <2>2. CASE f.tail = "ACT"
    <3>1. v = times(active(i), power_scale(i))
      BY <1>8, <2>2 DEF computed
    <3>2. sane <=> V \notin NotNumbers(i) /\ C \notin NotNumbers(i)
      BY <1>8, <2>2 DEF Settings, Channels, Divisible
    <3>3. /\ power_scale(i) \in Doubles
          /\ power_scale(i) = "nan"
                <=> V \in NotNumbers(i) \/ C \in NotNumbers(i)
      BY <1>1, <1>2, <1>3, TimesKind DEF power_scale
    <3>4. active(i) \in Doubles /\ active(i) # "nan"
      BY <1>4 DEF active, Doubles
    <3> QED
      BY <3>1, <3>2, <3>3, <3>4, TimesKind
  <2>3. CASE f.tail = "FACT"
    <3>1. v = ratio(active(i), apparent(i))
      BY <1>8, <2>3 DEF computed
    <3>2. sane <=> ~dead(i, V) /\ ~dead(i, C)
      BY <1>8, <2>3 DEF Settings, Channels, Divisible
    <3> QED
      BY <1>3, <1>4, <3>1, <3>2, RatioKind DEF active, Doubles
  <2> QED
    BY <2>1, <2>2, <2>3
<1>9. CASE f.quantity = "PHAS"
  <2>1. f.tail = "none"
    <3>1. Tails["PHAS"] = {"none"}
      BY DEF Tails
    <3> QED
      BY <1>9, <3>1
  <2>2. v = IF in_phase(i) THEN "0" ELSE shift(i)
    BY <1>9, <2>1 DEF computed
  <2>3. sane
    BY <1>9, <2>1 DEF Settings, Channels, Divisible
  <2> QED
    BY <2>2, <2>3 DEF shift, Doubles
<1>10. CASE f.quantity = "IMP"
  <2>1. f.tail = "none"
    <3>1. Tails["IMP"] = {"none"}
      BY DEF Tails
    <3> QED
      BY <1>10, <3>1
  <2>2. v = impedance(i)
    BY <1>10, <2>1 DEF computed
  <2>3. sane <=> ~dead(i, C)
    BY <1>10, <2>1 DEF Settings, Channels, Divisible
  <2> QED
    BY <1>4, <2>2, <2>3
<1>11. CASE f.quantity = "RES"
  <2>1. f.tail \in {"SER", "PAR"}
    BY <1>11 DEF Tails
  <2>2. v = IF f.tail = "SER" THEN times(impedance(i), "+") ELSE ratio(impedance(i), "+")
    BY <1>11, <2>1 DEF computed, power_factor
  <2>3. sane <=> ~dead(i, C)
    BY <1>11, <2>1 DEF Settings, Channels, Divisible
  <2>4. /\ "+" \in Doubles
        /\ times(impedance(i), "+") \in Doubles /\ ratio(impedance(i), "+") \in Doubles
        /\ times(impedance(i), "+") = "nan" <=> dead(i, C)
        /\ ratio(impedance(i), "+") = "nan" <=> dead(i, C)
    BY <1>3, <1>4, TimesKind, RatioKind
  <2> QED
    BY <2>2, <2>3, <2>4
<1>12. CASE f.quantity = "REACT"
  <2>1. f.tail \in {"SER", "PAR"}
    BY <1>12 DEF Tails
  <2>2. v = IF f.tail = "SER" THEN times(impedance(i), sine(i)) ELSE ratio(impedance(i), sine(i))
    BY <1>12, <2>1 DEF computed
  <2>3. sane <=> /\ ~dead(i, C)
                 /\ f.tail = "PAR" => i.load # "resistive" /\ ~dead(i, V)
    BY <1>12, <2>1 DEF Settings, Channels, Divisible
  <2>4. /\ sine(i) \in Doubles /\ sine(i) # "nan"
        /\ sine(i) = "0" <=> i.load = "resistive" \/ dead(i, V) \/ dead(i, C)
    BY <1>4 DEF sine, in_phase, Doubles
  <2>5. /\ times(impedance(i), sine(i)) \in Doubles /\ ratio(impedance(i), sine(i)) \in Doubles
        /\ times(impedance(i), sine(i)) = "nan" <=> dead(i, C)
        /\ ratio(impedance(i), sine(i)) = "nan" <=> dead(i, C) \/ sine(i) = "0"
    BY <1>4, <2>4, TimesKind, RatioKind
  <2> QED
    BY <2>1, <2>2, <2>3, <2>4, <2>5
<1>13. CASE f.quantity = "FREQ"
  <2>1. f.tail = "none"
    <3>1. Tails["FREQ"] = {"none"}
      BY DEF Tails
    <3> QED
      BY <1>13, <3>1
  <2>2. v = "+" /\ sane
    BY <1>13, <2>1 DEF computed, Settings, Channels, Divisible
  <2> QED
    BY <1>3, <2>2
<1>14. CASE f.quantity = "TIME"
  <2>1. f.tail \in {"none", "REL"}
    <3>1. Tails["TIME"] = {"none", "REL"}
      BY DEF Tails
    <3> QED
      BY <1>14, <3>1
  <2>2. v = IF f.tail = "none" THEN averaging_interval(i) ELSE "+"
    BY <1>14, <2>1 DEF computed
  <2>3. sane <=> f.tail = "REL" \/ "aperture" \notin NotNumbers(i)
    BY <1>14, <2>1 DEF Settings, Channels, Divisible
  <2> QED
    BY <1>1, <1>3, <2>1, <2>2, <2>3 DEF averaging_interval
<1>15. f.quantity # "other"
  <2>1. Tails["other"] = {}
    BY DEF Tails
  <2> QED
    BY <2>1
<1>16. DOMAIN Tails = {"VOLT", "CURR", "POW", "PHAS", "IMP", "RES", "REACT", "FREQ", "TIME", "other"}
  BY DEF Tails
<1>17. f.quantity \in {"VOLT", "CURR", "POW", "PHAS", "IMP", "RES", "REACT", "FREQ", "TIME"}
  BY <1>15, <1>16
<1> QED
  BY <1>6, <1>7, <1>8, <1>9, <1>10, <1>11, <1>12, <1>13, <1>14, <1>17

\* A function other than an efficiency has a number exactly when it is
\* determined.
LEMMA ValueAlone ==
  ASSUME NEW f, NEW i \in InstrumentState, NEW in, NEW out,
         f.quantity \in DOMAIN Tails, f.line \in BOOLEAN, f.tail # "EFF",
         f.modifier \in {"none", "HAR", "MIN", "MAX"} \union Accumulators
  PROVE  /\ measure_with(f, i, in, out).value \in Doubles
         /\ measure_with(f, i, in, out).value = "nan" <=> ~DeterminedAlone(f, i)
<1> DEFINE early == unavailable(f, i) \/ undefined(f, i)
           v == computed(f, i, in, out)
           w == sign_filter(f.modifier, times(v, "+"))
<1>1. early <=> ~(Implemented(f, i) /\ Taken(f, i))
  BY EarlyReturns
<1>2. CASE early
  <2>1. measure_with(f, i, in, out).value = "nan"
    BY <1>2 DEF measure_with, Reading
  <2> QED
    BY <1>1, <1>2, <2>1 DEF DeterminedAlone, Doubles
<1>3. CASE ~early
  <2>1. f.tail \in Tails[f.quantity]
    BY <1>1, <1>3 DEF Implemented
  <2>2. v \in Doubles /\ (v = "nan" <=> ~DeterminedAlone(f, i))
    BY <1>1, <1>3, <2>1, BranchValue DEF DeterminedAlone
  <2>3. w \in Doubles /\ (w = "nan" <=> v = "nan")
    <3>1. "+" \in Doubles
      BY DEF Doubles
    <3>2. times(v, "+") \in Doubles /\ (times(v, "+") = "nan" <=> v = "nan")
      BY <2>2, <3>1, TimesKind
    <3> QED
      BY <3>2, SignFilterKind
  <2>4. measure_with(f, i, in, out).value = IF f.quantity \in {"FREQ", "TIME"} THEN v ELSE w
    BY <1>3 DEF measure_with, finished, Reading
  <2> QED
    BY <2>2, <2>3, <2>4
<1> QED
  BY <1>2, <1>3

\* The input of an efficiency is zero exactly when it is determined and one of
\* its channels is dead.
LEMMA ReferenceValues ==
  ASSUME NEW i \in InstrumentState
  PROVE  LET r == Reference(i)
             in == reference_value(r.input, i)
             out == reference_value(r.output, i)
         IN  /\ in \in Doubles /\ out \in Doubles
             /\ in = "nan" <=> ~DeterminedAlone(r.input, i)
             /\ out = "nan" <=> ~DeterminedAlone(r.output, i)
             /\ in = "0" <=> /\ DeterminedAlone(r.input, i)
                             /\ \E channel \in Channels(r.input) : dead(i, channel)
<1> DEFINE r == Reference(i)
           Shaped(f) == /\ f.quantity \in DOMAIN Tails /\ f.line \in BOOLEAN /\ f.tail # "EFF"
                        /\ f.modifier \in {"none", "HAR", "MIN", "MAX"} \union Accumulators
           time == Function("TIME", "none", "none", FALSE)
           power == Function("POW", "ACT", "none", FALSE)
           voltage == Function("VOLT", "scaled", "none", FALSE)
<1>1. {"VOLT", "CURR", "TIME", "POW"} \subseteq DOMAIN Tails
  BY DEF Tails
<1>2. Shaped(r.input) /\ Shaped(r.output) /\ r.input \in {time, power, voltage}
  BY <1>1 DEF Reference, Plain, Function
<1>3. /\ reference_value(r.input, i) \in Doubles /\ reference_value(r.output, i) \in Doubles
      /\ reference_value(r.input, i) = "nan" <=> ~DeterminedAlone(r.input, i)
      /\ reference_value(r.output, i) = "nan" <=> ~DeterminedAlone(r.output, i)
  BY <1>2, ValueAlone DEF reference_value
<1>4. ASSUME NEW f \in {time, power, voltage}, DeterminedAlone(f, i)
      PROVE  reference_value(f, i) = "0" <=> \E channel \in Channels(f) : dead(i, channel)
  <2> DEFINE v == computed(f, i, "0", "0")
  <2>1. ~unavailable(f, i) /\ ~undefined(f, i)
    <3>1. f.line \in BOOLEAN /\ f.modifier = "none" /\ f.tail # "EFF"
      <4>1. f = time \/ f = power \/ f = voltage
        BY <1>4
      <4>2. f.modifier = "none" /\ f.tail # "EFF"
        BY <4>1 DEF Function
      <4>3. ASSUME NEW q, NEW t, NEW m PROVE Function(q, t, m, FALSE).line \in BOOLEAN
        BY DEF Function
      <4> QED
        BY <4>1, <4>2, <4>3
    <3>2. f.modifier \in {"none", "HAR", "MIN", "MAX"} \union Accumulators
      BY <3>1
    <3>3. Implemented(f, i) /\ Taken(f, i)
      BY <1>4 DEF DeterminedAlone
    <3>4. unavailable(f, i) \/ undefined(f, i)
             <=> ~(/\ Implemented(f, i) /\ Taken(f, i)
                   /\ f.tail = "EFF" => i.setup.efficiency # "unset")
      BY <3>1, <3>2, EarlyReturns
    <3> QED
      BY <3>1, <3>3, <3>4
  <2>2. f.quantity \in DOMAIN Tails /\ f.tail \in Tails[f.quantity] /\ f.tail # "EFF"
    BY <1>1, <1>4 DEF DeterminedAlone, Implemented, Function
  <2>3. v \in Doubles /\ v # "nan"
    BY <1>4, <2>2, BranchValue DEF DeterminedAlone
  <2>4. "+" \in Doubles
    BY DEF Doubles
  <2>5. sign_filter("none", times(v, "+")) = times(v, "+") /\ (times(v, "+") = "0" <=> v = "0")
    BY <2>3, <2>4, TimesKind DEF sign_filter
  <2>6. reference_value(f, i) = "0" <=> v = "0"
    BY <2>1, <2>5 DEF reference_value, measure_with, finished, Reading, Function
  <2>7. /\ mean(i, "voltage") \in Doubles /\ mean(i, "voltage") # "nan"
        /\ mean(i, "current") \in Doubles /\ mean(i, "current") # "nan"
        /\ scale(i, "voltage") \in Doubles /\ scale(i, "voltage") # "0"
        /\ scale(i, "current") \in Doubles /\ scale(i, "current") # "0"
        /\ mean(i, "voltage") = "0" <=> dead(i, "voltage")
        /\ mean(i, "current") = "0" <=> dead(i, "current")
    BY InputKinds DEF Doubles
  <2>8. CASE f = time
    BY <1>4, <2>6, <2>8 DEF computed, averaging_interval, Channels, Function
  <2>9. CASE f = voltage
    <3>1. v = times(mean(i, "voltage"), scale(i, "voltage"))
      BY <2>9 DEF computed, voltage_or_current, Function
    <3>2. scale(i, "voltage") # "nan"
      BY <2>3, <2>7, <3>1, TimesKind
    <3>3. Channels(f) = {"voltage"}
      BY <2>9 DEF Channels, Function
    <3> QED
      BY <2>6, <2>7, <3>1, <3>2, <3>3, TimesKind
  <2>10. CASE f = power
    <3>1. v = times(apparent(i), power_scale(i))
      BY <2>10 DEF computed, active, Function
    <3>2. /\ apparent(i) \in Doubles /\ apparent(i) # "nan"
          /\ apparent(i) = "0" <=> dead(i, "voltage") \/ dead(i, "current")
      BY <2>7, TimesKind DEF apparent
    <3>3. power_scale(i) \in Doubles
      BY <2>7, TimesKind DEF power_scale
    <3>4. power_scale(i) # "nan"
      BY <2>3, <3>1, <3>2, <3>3, TimesKind
    <3>5. power_scale(i) # "0"
      BY <2>7, <3>4, TimesKind DEF power_scale
    <3>6. Channels(f) = {"voltage", "current"}
      BY <2>10 DEF Channels, Function
    <3> QED
      BY <2>6, <3>1, <3>2, <3>3, <3>4, <3>5, <3>6, TimesKind
  <2> QED
    BY <2>8, <2>9, <2>10
<1>5. reference_value(r.input, i) = "0" => DeterminedAlone(r.input, i)
  BY <1>3
<1> HIDE DEF r
<1>6. reference_value(r.input, i) = "0"
         <=> DeterminedAlone(r.input, i) /\ \E channel \in Channels(r.input) : dead(i, channel)
  BY <1>2, <1>4, <1>5
<1> QED
  BY <1>3, <1>6 DEF r

\* The range bits a client does not trust are those of a level out of range.
LEMMA RangeBits ==
  ASSUME NEW f, NEW i \in InstrumentState
  PROVE  range_status(f, i) \intersect {"UNDER", "OVER", "Undefined", "NotAvailable"} = {}
            <=> InRange(f, i)
  BY DEF range_status, InRange, channel_bits, Levels, InstrumentState

\* The value of any function, an efficiency included.
LEMMA ValueOf ==
  ASSUME NEW i \in InstrumentState, NEW f \in Functions
  PROVE  /\ measure(f, i).value \in Doubles
         /\ measure(f, i).value = "nan" <=> ~Determined(f, i)
<1> DEFINE in == reference_value(Reference(i).input, i)
           out == reference_value(Reference(i).output, i)
<1>1. measure(f, i) = measure_with(f, i, in, out)
  BY DEF measure
<1>2. /\ f.quantity \in DOMAIN Tails /\ f.line \in BOOLEAN
      /\ f.modifier \in {"none", "HAR", "MIN", "MAX"} \union Accumulators
  BY FunctionShape
<1>3. CASE f.tail # "EFF"
  BY <1>1, <1>2, <1>3, ValueAlone DEF Determined
<1>4. CASE f.tail = "EFF"
  <2> DEFINE early == unavailable(f, i) \/ undefined(f, i)
  <2>1. early <=> ~(Implemented(f, i) /\ Taken(f, i) /\ i.setup.efficiency # "unset")
    BY <1>2, <1>4, EarlyReturns
  <2>2. CASE early
    <3>1. measure(f, i).value = "nan"
      BY <1>1, <2>2 DEF measure_with, Reading
    <3>2. ~Determined(f, i)
      BY <1>4, <2>1, <2>2 DEF Determined, DeterminedAlone
    <3> QED
      BY <3>1, <3>2 DEF Doubles
  <2>3. CASE ~early
    <3>1. f.quantity = "POW"
      <4>1. f.tail \in Tails[f.quantity]
        BY <2>1, <2>3 DEF Implemented
      <4> QED
        BY <1>2, <1>4, <4>1 DEF Tails
    <3>2. computed(f, i, in, out) = ratio(out, in)
      BY <1>4, <3>1 DEF computed
    <3>3. /\ in \in Doubles /\ out \in Doubles
          /\ in = "nan" <=> ~DeterminedAlone(Reference(i).input, i)
          /\ out = "nan" <=> ~DeterminedAlone(Reference(i).output, i)
          /\ in = "0" <=> /\ DeterminedAlone(Reference(i).input, i)
                          /\ \E channel \in Channels(Reference(i).input) : dead(i, channel)
      BY ReferenceValues
    <3>4. DeterminedAlone(f, i)
      BY <1>4, <2>1, <2>3, <3>1 DEF DeterminedAlone, Settings, Channels, Divisible
    <3>5. Determined(f, i) <=> ~(out = "nan" \/ in = "nan" \/ in = "0")
      BY <1>4, <2>1, <2>3, <3>3, <3>4 DEF Determined
    <3> HIDE DEF in, out
    <3>6. ratio(out, in) \in Doubles /\ (ratio(out, in) = "nan" <=> ~Determined(f, i))
      BY <3>3, <3>5, RatioKind
    <3>7. "+" \in Doubles
      BY DEF Doubles
    <3>8. /\ times(ratio(out, in), "+") \in Doubles
          /\ times(ratio(out, in), "+") = "nan" <=> ~Determined(f, i)
      BY <3>6, <3>7, TimesKind
    <3>9. measure(f, i).value = sign_filter(f.modifier, times(ratio(out, in), "+"))
      BY <1>1, <2>3, <3>1, <3>2 DEF measure_with, finished, Reading
    <3> QED
      BY <3>8, <3>9, SignFilterKind
  <2> QED
    BY <2>2, <2>3
<1> QED
  BY <1>3, <1>4

\* What the status says of the value.
LEMMA StatusOf ==
  ASSUME NEW i \in InstrumentState, NEW f \in Functions
  PROVE  is_valid(measure(f, i))
            <=> /\ Determined(f, i) \/ (f = Plain("TIME", "none", "none") /\ measuring(i))
                /\ InRange(f, i)
<1> DEFINE in == reference_value(Reference(i).input, i)
           out == reference_value(Reference(i).output, i)
           early == unavailable(f, i) \/ undefined(f, i)
           unchecked == f = Plain("TIME", "none", "none") /\ measuring(i)
           r == measure(f, i)
<1>1. r = measure_with(f, i, in, out)
  BY DEF measure
<1>2. /\ f = Function(f.quantity, f.tail, f.modifier, f.line)
      /\ f.quantity \in DOMAIN Tails /\ f.line \in BOOLEAN
      /\ f.modifier \in {"none", "HAR", "MIN", "MAX"} \union Accumulators
  BY FunctionShape
<1>3. early <=> ~(/\ Implemented(f, i) /\ Taken(f, i)
                  /\ f.tail = "EFF" => i.setup.efficiency # "unset")
  BY <1>2, EarlyReturns
<1>4. r.value = "nan" <=> ~Determined(f, i)
  BY ValueOf
<1>5. CASE early
  <2>1. r.status \in {{"NotAvailable"}, {"Undefined"}} /\ r.value = "nan"
    BY <1>1, <1>5 DEF measure_with, Reading
  <2>2. ~unchecked
    <3> SUFFICES ASSUME unchecked PROVE ~early
      BY <1>5
    <3>1. /\ f.quantity = "TIME" /\ f.tail = "none" /\ f.modifier = "none" /\ ~f.line
      BY DEF Plain, Function
    <3>2. "none" \in Tails["TIME"] /\ "none" \notin Accumulators
      BY DEF Tails, Accumulators
    <3> QED
      BY <1>3, <3>1, <3>2 DEF Implemented, Taken
  <2> QED
    BY <1>4, <2>1, <2>2 DEF is_valid
<1>6. CASE ~early /\ f.quantity \in {"FREQ", "TIME"}
  <2>1. r = Reading(computed(f, i, in, out), {})
    BY <1>1, <1>6 DEF measure_with
  <2>2. is_valid(r) /\ InRange(f, i)
    BY <1>6, <2>1 DEF is_valid, Reading, InRange
  <2>3. Determined(f, i) \/ unchecked
    <3> SUFFICES ASSUME ~unchecked PROVE Determined(f, i)
      OBVIOUS
    <3>1. /\ f.tail \in Tails[f.quantity] /\ f.modifier = "none" /\ ~f.line
          /\ f.quantity = "TIME" => measuring(i)
      BY <1>3, <1>6 DEF Implemented, Taken
    <3>2. Tails["FREQ"] = {"none"} /\ Tails["TIME"] = {"none", "REL"}
      BY DEF Tails
    <3>3. f.quantity = "TIME" => f.tail = "REL"
      <4> SUFFICES ASSUME f.quantity = "TIME", f.tail = "none" PROVE FALSE
        BY <3>1, <3>2
      <4>1. f = Function("TIME", "none", "none", FALSE)
        BY <1>2, <3>1
      <4> QED
        BY <3>1, <4>1 DEF Plain
    <3>4. computed(f, i, in, out) = "+"
      BY <1>6, <3>1, <3>2, <3>3 DEF computed
    <3> QED
      BY <1>4, <2>1, <3>4 DEF Reading
  <2> QED
    BY <2>2, <2>3
<1>7. CASE ~early /\ f.quantity \notin {"FREQ", "TIME"}
  <2> DEFINE w == sign_filter(f.modifier, times(computed(f, i, in, out), "+"))
  <2>1. r = finished(f, i, w)
    BY <1>1, <1>7 DEF measure_with
  <2>2. r.value = w
    BY <2>1 DEF finished, Reading
  <2>3. r.status = capacitive_status(f, i)
                      \union (IF w = "nan" THEN {"Undefined"} ELSE range_status(f, i))
    BY <2>1 DEF finished, Reading
  <2>4. ~unchecked
    BY <1>7 DEF Plain, Function
  <2> HIDE DEF w
  <2>5. is_valid(r) <=> w # "nan" /\ InRange(f, i)
    BY <2>3, RangeBits DEF is_valid, capacitive_status
  <2> QED
    BY <1>4, <2>2, <2>4, <2>5
<1> QED
  BY <1>5, <1>6, <1>7

\* Every function, load, range and setting a client can bring about: a reading
\* is a number exactly when the signal and the settings determine it, and is
\* trusted only then, but for TIME with a NaN for an averaging time (measure(),
\* Access::number(), Reading::is_valid()).
THEOREM ReadingsAreHonest == StatusSpec => []ReadingsTellTheirInputs
<1>1. StatusInit => inst \in InstrumentState
  <2> SUFFICES ASSUME StatusInit PROVE inst \in InstrumentState
    OBVIOUS
  <2>1. PICK present \in BOOLEAN :
           inst = FreshInstrument([signal |-> present, load |-> "resistive", dead |-> "none"])
    BY DEF StatusInit
  <2> QED
    BY <2>1, FreshInstrumentType DEF Loads, DeadChannels
<1>2. inst \in InstrumentState /\ [StatusNext]_statVars => (inst \in InstrumentState)'
  BY InstrumentStep DEF statVars, statusVars
<1>3. inst \in InstrumentState => ReadingsTellTheirInputs
  <2> SUFFICES ASSUME inst \in InstrumentState, NEW f \in Functions
               PROVE  /\ measure(f, inst).value \in {"-", "0", "+"} <=> Determined(f, inst)
                      /\ is_valid(measure(f, inst))
                            <=> /\ \/ Determined(f, inst)
                                   \/ f = Plain("TIME", "none", "none") /\ measuring(inst)
                                /\ InRange(f, inst)
    BY DEF ReadingsTellTheirInputs
  <2> QED
    BY ValueOf, StatusOf DEF Doubles
<1> QED
  BY <1>1, <1>2, <1>3, PTL DEF StatusSpec
=============================================================================
