---------------------- MODULE InstrumentMethodsProofs ----------------------
(***************************************************************************)
(* The command handlers and the methods above them, for every usage, every *)
(* length of a line, any number of responses that wait and every capacity  *)
(* of the error queue.  Whatever a command is, it runs in one of three     *)
(* ways: it is a query and answers, it is no query and does not, or it     *)
(* fails and an error is queued (Ran).  That, handler by handler, is what  *)
(* keeps a session in step.  PrepareInv says what prepare() has reached by *)
(* each of its steps, Tolerated how a setter with good arguments can end,  *)
(* Worded and TextInv what a prepared session that reads text relies on.   *)
(***************************************************************************)
EXTENDS InstrumentMethods, ErrorQueueProofs

Responded(c) == c.query /\ line' = [next_command(c) EXCEPT !.answered = @ + 1]
Accepted(c) == ~c.query /\ line' = next_command(c)
Failed(c) == errors' # <<>> /\ line' = [next_command(c) EXCEPT !.failed = "command"]
Ran(c) == Responded(c) \/ Accepted(c) \/ Failed(c)

\* Values and status values are text; every setting that takes keywords holds
\* one of its own.
TextFormats == Is("data_format", "ASC") /\ Is("status_format", "ASC")
Worded == \A x \in DOMAIN fresh : x[1] \in KeywordFields => Setting(x) \in Vocabulary(x[1])

\* What every command keeps of the settings.
Kept(c) ==
    /\ FormatsCoupled => FormatsCoupled'
    /\ Worded => Worded'
    /\ TextFormats /\ ~chooses_binary(c) => TextFormats'

\* A command that ran, took a step of the error queue and kept the settings in
\* order.
Orderly(c) ==
    /\ Ran(c)
    /\ [Next]_errorQueueVars
    /\ Kept(c)

\* A value that a setting other than the formats may take.
Storable(x, value) ==
    /\ x \notin FormatSettings
    /\ x[1] \in KeywordFields => value \in Vocabulary(x[1])

\* A setting after some settings have changed.
LEMMA SettingChanged ==
  ASSUME NEW changes, state' = Changed(state, changes), NEW x
  PROVE  Setting(x)' = IF x \in DOMAIN changes THEN changes[x] ELSE Setting(x)
<1> DEFINE all == [y \in DOMAIN changes \union DOMAIN state |->
                      IF y \in DOMAIN changes THEN changes[y] ELSE state[y]]
           away == {y \in DOMAIN all : all[y] # fresh[y]}
<1>1. state' = [y \in away |-> all[y]]
  BY DEF Changed
<1>2. Setting(x)' = IF x \in away THEN all[x] ELSE fresh[x]
  BY <1>1 DEF Setting
<1>3. Setting(x) = IF x \in DOMAIN state THEN state[x] ELSE fresh[x]
  BY DEF Setting
<1>4. CASE x \in DOMAIN changes
  BY <1>2, <1>4
<1>5. CASE x \notin DOMAIN changes /\ x \in DOMAIN state
  BY <1>2, <1>3, <1>5
<1>6. CASE x \notin DOMAIN changes /\ x \notin DOMAIN state
  BY <1>2, <1>3, <1>6
<1> QED
  BY <1>4, <1>5, <1>6

\* Changes to keywords of their own keep the settings worded.
LEMMA WordedChanges ==
  ASSUME NEW changes, state' = Changed(state, changes), Worded,
         \A x \in DOMAIN changes : x[1] \in KeywordFields => changes[x] \in Vocabulary(x[1])
  PROVE  Worded'
<1> SUFFICES ASSUME NEW x \in DOMAIN fresh, x[1] \in KeywordFields
             PROVE  Setting(x)' \in Vocabulary(x[1])
  BY DEF Worded
<1>1. Setting(x)' = IF x \in DOMAIN changes THEN changes[x] ELSE Setting(x)
  BY SettingChanged
<1> QED
  BY <1>1 DEF Worded

\* Changes that are storable keep the settings in order.
LEMMA OtherSettings ==
  ASSUME NEW c, NEW changes, state' = Changed(state, changes),
         \A x \in DOMAIN changes : Storable(x, changes[x])
  PROVE  Kept(c)
<1>1. \A x \in FormatSettings : x \notin DOMAIN changes
  BY DEF Storable
<1>2. \A x \in FormatSettings : Setting(x)' = Setting(x)
  BY <1>1, SettingChanged
<1>3. /\ Setting(<<"data_format", 1>>)' = Setting(<<"data_format", 1>>)
      /\ Setting(<<"status_format", 1>>)' = Setting(<<"status_format", 1>>)
  BY <1>2 DEF FormatSettings
<1>4. Worded => Worded'
  BY WordedChanges DEF Storable
<1> QED
  BY <1>3, <1>4 DEF Kept, FormatsCoupled, TextFormats, Is

\* So does a change of one setting,
LEMMA OtherSetting ==
  ASSUME NEW c, NEW x, NEW value, Storable(x, value), state' = Changed(state, Put(x, value))
  PROVE  Kept(c)
<1>1. \A y \in DOMAIN Put(x, value) : y = x /\ Put(x, value)[y] = value
  BY DEF Put
<1> QED
  BY <1>1, OtherSettings

\* and of two.
LEMMA OtherTwoSettings ==
  ASSUME NEW c, NEW x, NEW v, NEW y, NEW w, Storable(x, v), Storable(y, w),
         state' = Changed(state, PutBoth(x, v, y, w))
  PROVE  Kept(c)
<1>1. \A z \in DOMAIN PutBoth(x, v, y, w) :
          \/ z = x /\ PutBoth(x, v, y, w)[z] = v
          \/ z = y /\ PutBoth(x, v, y, w)[z] = w
  BY DEF PutBoth
<1> QED
  BY <1>1, OtherSettings

\* Nothing changes.
LEMMA SameSettings ==
  ASSUME UNCHANGED state
  PROVE  /\ \A c : Kept(c)
         /\ FormatsCoupled' = FormatsCoupled /\ Worded' = Worded /\ TextFormats' = TextFormats
<1>1. \A x : Setting(x)' = Setting(x)
  BY DEF Setting
<1>2. FormatsCoupled' = FormatsCoupled /\ TextFormats' = TextFormats
  BY <1>1 DEF FormatsCoupled, TextFormats, Is
<1>3. Worded' = Worded
  BY <1>1 DEF Worded
<1> QED
  BY <1>2, <1>3 DEF Kept

\* After *RST both formats are text, and every keyword is the first of its own.
LEMMA FreshSettings ==
  ASSUME state = FreshState
  PROVE  FormatsCoupled /\ Worded /\ TextFormats
<1>1. \A x : Setting(x) = fresh[x]
  BY DEF FreshState, Setting
<1>2. Worded
  BY <1>1, KeywordRowsAssumption DEF Worded
<1>3. \A x \in FormatSettings : Setting(x) = "ASC"
  BY <1>1, FormatRowsAssumption
<1> QED
  BY <1>2, <1>3 DEF FormatsCoupled, TextFormats, Is, FormatSettings

\* The fields that a handler with code of its own writes to take any value.
LEMMA OwnStorable ==
  ASSUME NEW f \in OwnFields, NEW n, NEW value
  PROVE  Storable(<<f, n>>, value)
<1>1. f \notin KeywordFields
  BY KeywordRowsAssumption
<1>2. f # "data_format" /\ f # "status_format"
  BY DEF OwnFields
<1> QED
  BY <1>1, <1>2 DEF Storable, FormatSettings

-----------------------------------------------------------------------------
(* The three ways a command runs.                                          *)

\* A query answers.
LEMMA Responds ==
  ASSUME NEW c, c.query, respond(c)
  PROVE  Orderly(c)
<1>1. UNCHANGED <<errorQueueVars, state>> /\ Responded(c)
  BY DEF respond, respond_with, Responded
<1> QED
  BY <1>1, SameSettings DEF Orderly, Ran

\* A query answers and changes another setting.
LEMMA RespondsWith ==
  ASSUME NEW c, c.query, NEW x, NEW value, Storable(x, value),
         respond_with(c, Changed(state, Put(x, value)))
  PROVE  Orderly(c)
<1>1. UNCHANGED errorQueueVars /\ state' = Changed(state, Put(x, value)) /\ Responded(c)
  BY DEF respond_with, Responded
<1> QED
  BY <1>1, OtherSetting DEF Orderly, Ran

\* A command is carried out and changes no setting,
LEMMA AcceptsOnly ==
  ASSUME NEW c, ~c.query, accept(c, state)
  PROVE  Orderly(c)
<1>1. UNCHANGED <<errorQueueVars, state>> /\ Accepted(c)
  BY DEF accept, Accepted
<1> QED
  BY <1>1, SameSettings DEF Orderly, Ran

\* other settings,
LEMMA AcceptsChanges ==
  ASSUME NEW c, ~c.query, NEW changes, \A x \in DOMAIN changes : Storable(x, changes[x]),
         accept(c, Changed(state, changes))
  PROVE  Orderly(c)
<1>1. UNCHANGED errorQueueVars /\ state' = Changed(state, changes) /\ Accepted(c)
  BY DEF accept, Accepted
<1> QED
  BY <1>1, OtherSettings DEF Orderly, Ran

\* one of them,
LEMMA AcceptsPut ==
  ASSUME NEW c, ~c.query, NEW x, NEW value, Storable(x, value),
         accept(c, Changed(state, Put(x, value)))
  PROVE  Orderly(c)
<1>1. UNCHANGED errorQueueVars /\ state' = Changed(state, Put(x, value)) /\ Accepted(c)
  BY DEF accept, Accepted
<1> QED
  BY <1>1, OtherSetting DEF Orderly, Ran

\* or two.
LEMMA AcceptsPutBoth ==
  ASSUME NEW c, ~c.query, NEW x, NEW v, NEW y, NEW w, Storable(x, v), Storable(y, w),
         accept(c, Changed(state, PutBoth(x, v, y, w)))
  PROVE  Orderly(c)
<1>1. UNCHANGED errorQueueVars /\ state' = Changed(state, PutBoth(x, v, y, w)) /\ Accepted(c)
  BY DEF accept, Accepted
<1> QED
  BY <1>1, OtherTwoSettings DEF Orderly, Ran

\* push_error() leaves an error in the queue, a full one included.
LEMMA PushLeavesError ==
  ASSUME Inv, NEW code \in Codes, push_error(code)
  PROVE  errors' # <<>>
<1>1. /\ errors \in Seq(Entry) /\ Capacity \in Nat \ {0} /\ raised \in Nat
  BY ErrorQueueAssumption DEF Inv, TypeOK
<1>2. CASE Len(errors) >= Capacity
  <2>1. errors' = [errors EXCEPT ![Len(errors)] = [code |-> QueueOverflow, stamp |-> raised + 1]]
    BY <1>2 DEF push_error
  <2>2. DOMAIN errors' = 1 .. Len(errors) /\ Len(errors) \in Nat /\ Len(errors) >= 1
    BY <1>1, <1>2, <2>1
  <2>3. 1 \in DOMAIN errors'
    BY <2>2
  <2> QED
    BY <2>3
<1>3. CASE ~(Len(errors) >= Capacity)
  <2>1. errors' = Append(errors, [code |-> code, stamp |-> raised + 1])
    BY <1>3 DEF push_error
  <2> QED
    BY <1>1, <2>1
<1> QED
  BY <1>2, <1>3

\* A command fails.
LEMMA FailsWithError ==
  ASSUME Inv, NEW c, NEW code \in Codes, fail(c, code)
  PROVE  Orderly(c)
<1>1. push_error(code) /\ UNCHANGED state
  BY DEF fail
<1>2. Failed(c)
  BY <1>1, PushLeavesError DEF fail, Failed
<1> QED
  BY <1>1, <1>2, SameSettings DEF Orderly, Ran, Next

-----------------------------------------------------------------------------
(* Access.                                                                 *)

\* The codes the handlers fail with are codes of the queue.
LEMMA FailureCodes ==
  /\ kMissingParameter \in Codes /\ kUndefinedHeader \in Codes /\ kSettingsConflict \in Codes
  /\ kDataOutOfRange \in Codes /\ kIllegalParameterValue \in Codes
  BY SimulatorCommandsAssumption

\* The query, the missing and the unreadable parameter.
LEMMA ParameterOrderly ==
  ASSUME Inv, NEW c, parameter(c)
  PROVE  Orderly(c)
  BY Responds, FailsWithError, FailureCodes DEF parameter

\* A parameter is stored.
LEMMA StoreOrderly ==
  ASSUME NEW c, NEW x, NEW those, \A v \in those : Storable(x, v), store(c, x, those)
  PROVE  Orderly(c)
  BY AcceptsPut DEF store

\* A number,
LEMMA NumberOrderly ==
  ASSUME Inv, NEW c, NEW x, NEW in_range, \A v : Storable(x, v), number(c, x, in_range)
  PROVE  Orderly(c)
  BY ParameterOrderly, StoreOrderly, FailsWithError, FailureCodes DEF number

\* an integer,
LEMMA IntegerOrderly ==
  ASSUME Inv, NEW c, NEW x, \A v : Storable(x, v), integer(c, x)
  PROVE  Orderly(c)
  BY ParameterOrderly, AcceptsPut, FailsWithError, FailureCodes DEF integer

\* a date or a time,
LEMMA DateTimeOrderly ==
  ASSUME Inv, NEW c, NEW x, \A v : Storable(x, v), date_time(c, x)
  PROVE  Orderly(c)
  BY ParameterOrderly, StoreOrderly, AcceptsPut, FailsWithError, FailureCodes DEF date_time

\* a keyword or a list.
LEMMA WordOrderly ==
  ASSUME Inv, NEW c, NEW x, NEW those, \A v \in those : Storable(x, v), word(c, x, those)
  PROVE  Orderly(c)
  BY ParameterOrderly, StoreOrderly DEF word

\* One call on an Access helper.
LEMMA AccessOrderly ==
  ASSUME Inv, NEW c, NEW shapes \in ShapeTables, c.key \in DOMAIN shapes, NEW n,
         access(c, shapes[c.key], n)
  PROVE  Orderly(c)
<1> DEFINE shape == shapes[c.key]
           x == <<shape.field, n>>
<1>1. /\ shape.kind \in {"number", "integer", "boolean", "keyword", "list", "text"} =>
            shape.field \notin {"data_format", "status_format"}
      /\ shape.kind = "event" => DOMAIN shape.changes \intersect FormatSettings = {}
  BY FormatRowsAssumption
<1>2. /\ shape.kind \in {"number", "integer", "boolean", "list", "text"} =>
            shape.field \notin KeywordFields
      /\ shape.kind = "keyword" => shape.args \ {"none", "bad"} \subseteq Vocabulary(shape.field)
      /\ shape.kind = "event" => \A y \in DOMAIN shape.changes : y[1] \notin KeywordFields
  BY KeywordRowsAssumption
<1>3. access(c, shape, n)
  OBVIOUS
<1> HIDE DEF shape
<1>4. shape.kind \in {"number", "integer", "boolean", "list", "text"} => \A v : Storable(x, v)
  BY <1>1, <1>2 DEF Storable, FormatSettings
<1>5. shape.kind = "keyword" => \A v \in shape.args \ {"none", "bad"} : Storable(x, v)
  BY <1>1, <1>2 DEF Storable, FormatSettings
<1>6. shape.kind = "event" => \A y \in DOMAIN shape.changes : Storable(y, shape.changes[y])
  BY <1>1, <1>2 DEF Storable
<1> HIDE DEF x
<1>7. CASE shape.kind = "query" /\ query_only(c, respond(c))
  BY <1>7, Responds, FailsWithError, FailureCodes DEF query_only
<1>8. CASE shape.kind = "event" /\ command_only(c, accept(c, Changed(state, shape.changes)))
  BY <1>6, <1>8, AcceptsChanges, FailsWithError, FailureCodes DEF command_only
<1>9. CASE shape.kind = "number" /\ number(c, x, {"in"})
  BY <1>4, <1>9, NumberOrderly
<1>10. CASE shape.kind = "integer" /\ integer(c, x)
  BY <1>4, <1>10, IntegerOrderly
<1>11. CASE /\ shape.kind \in {"boolean", "keyword", "list", "text"}
            /\ word(c, x, shape.args \ {"none", "bad"})
  BY <1>4, <1>5, <1>11, WordOrderly
<1> QED
  BY <1>3, <1>7, <1>8, <1>9, <1>10, <1>11 DEF access, x

-----------------------------------------------------------------------------
(* The handlers.                                                           *)

Lines == [length : Nat, done : Nat, asked : Nat, answered : Nat,
          failed : {"no", "command", "header"}]

\* The line with one more command.
LEMMA NextCommandType ==
  ASSUME line \in Lines, NEW c
  PROVE  /\ next_command(c) \in Lines
         /\ next_command(c).asked =
               (IF line_ended THEN 0 ELSE line.asked) + (IF c.query THEN 1 ELSE 0)
         /\ next_command(c).answered = IF line_ended THEN 0 ELSE line.answered
         /\ next_command(c).failed = IF line_ended THEN "no" ELSE line.failed
         /\ line_ended => next_command(c).done = 1 /\ next_command(c).length = 1
<1> DEFINE begun == IF line_ended THEN [NoLine EXCEPT !.length = 1] ELSE line
           asks == IF c.query THEN 1 ELSE 0
<1>1. begun \in Lines /\ asks \in Nat
  BY DEF NoLine, Lines
<1>2. /\ begun.asked = IF line_ended THEN 0 ELSE line.asked
      /\ begun.answered = IF line_ended THEN 0 ELSE line.answered
      /\ begun.failed = IF line_ended THEN "no" ELSE line.failed
      /\ line_ended => begun.done = 0 /\ begun.length = 1
  BY DEF NoLine
<1>3. next_command(c) = [begun EXCEPT !.done = @ + 1, !.asked = @ + asks]
  BY DEF next_command
<1> HIDE DEF begun, asks
<1>4. /\ next_command(c) \in Lines
      /\ next_command(c).asked = begun.asked + asks
      /\ next_command(c).answered = begun.answered
      /\ next_command(c).failed = begun.failed
      /\ next_command(c).done = begun.done + 1
      /\ next_command(c).length = begun.length
  <2>1. /\ begun.done \in Nat /\ begun.asked \in Nat
        /\ begun.done + 1 \in Nat /\ begun.asked + asks \in Nat
    BY <1>1 DEF Lines
  <2>2. [begun EXCEPT !.done = begun.done + 1, !.asked = begun.asked + asks] \in Lines
    BY <1>1, <2>1 DEF Lines
  <2>3. next_command(c) = [begun EXCEPT !.done = begun.done + 1, !.asked = begun.asked + asks]
    BY <1>3
  <2> QED
    BY <1>1, <2>2, <2>3 DEF Lines
<1>5. CASE line_ended
  BY <1>2, <1>4, <1>5 DEF asks
<1>6. CASE ~line_ended
  BY <1>2, <1>4, <1>6 DEF asks
<1> QED
  BY <1>5, <1>6

\* A command that acts on the error queue or the register and answers as it
\* should.
LEMMA StatusOrderly ==
  ASSUME line \in Lines, NEW c, NEW answered, UNCHANGED state, [Next]_errorQueueVars,
         line' = [next_command(c) EXCEPT !.answered = @ + (IF answered THEN 1 ELSE 0)],
         c.query <=> answered, answered \in BOOLEAN
  PROVE  Orderly(c)
<1>1. CASE answered
  <2>1. Responded(c)
    BY <1>1 DEF Responded
  <2> QED
    BY <2>1, SameSettings DEF Orderly, Ran
<1>2. CASE ~answered
  <2>1. line' = next_command(c)
    BY <1>2, NextCommandType DEF Lines
  <2> QED
    BY <1>2, <2>1, SameSettings DEF Orderly, Ran, Accepted
<1> QED
  BY <1>1, <1>2

\* handle_common().
LEMMA CommonOrderly ==
  ASSUME Inv, line \in Lines, NEW c, c.key \in DOMAIN CommonShapes, handle_common(c)
  PROVE  Orderly(c)
<1>1. CASE access(c, CommonShapes[c.key], 1)
  BY <1>1, AccessOrderly DEF ShapeTables
<1>2. CASE command_only(c, ResetCommand(c))
  <2>1. CASE ~c.query /\ ResetCommand(c)
    <3>1. [Next]_errorQueueVars /\ Accepted(c) /\ state' = FreshState
      BY <2>1 DEF ResetCommand, Next, Accepted
    <3>2. \A x : Setting(x)' = fresh[x]
      BY <3>1 DEF Setting, FreshState
    <3>3. Worded'
      BY <3>2, KeywordRowsAssumption DEF Worded
    <3>4. FormatsCoupled' /\ TextFormats'
      BY <3>2, FormatRowsAssumption DEF FormatsCoupled, TextFormats, Is, FormatSettings
    <3> QED
      BY <3>1, <3>3, <3>4 DEF Orderly, Ran, Kept
  <2> QED
    BY <1>2, <2>1, FailsWithError, FailureCodes DEF command_only
<1>3. CASE command_only(c, status_command(c, clear_status, FALSE))
  BY <1>3, StatusOrderly, FailsWithError, FailureCodes DEF command_only, status_command, Next
<1>4. CASE c.query /\ respond(c)
  BY <1>4, Responds
<1>5. CASE ~c.query /\ status_command(c, OperationCompleteCommand, FALSE)
  BY <1>5, StatusOrderly DEF status_command, Next
<1>6. CASE query_only(c, status_command(c, EventStatusQuery, TRUE))
  BY <1>6, StatusOrderly, FailsWithError, FailureCodes DEF query_only, status_command, Next
<1>7. CASE command_only(c, SaveCommand(c))
  <2>1. \A v : Storable(<<"saved_setups", 1>>, v)
    BY OwnStorable DEF OwnFields
  <2> QED
    BY <1>7, <2>1, ParameterOrderly, AcceptsPut, FailsWithError, FailureCodes
    DEF command_only, SaveCommand, With
<1>8. CASE command_only(c, RecallCommand(c))
  BY <1>8, ParameterOrderly, AcceptsOnly, FailsWithError, FailureCodes
  DEF command_only, RecallCommand
<1> QED
  BY <1>1, <1>2, <1>3, <1>4, <1>5, <1>6, <1>7, <1>8 DEF handle_common

\* handle_input().
LEMMA InputOrderly ==
  ASSUME Inv, NEW c, c.key \in DOMAIN InputShapes, handle_input(c)
  PROVE  Orderly(c)
<1>1. CASE access(c, InputShapes[c.key], suffix(c))
  BY <1>1, AccessOrderly DEF ShapeTables
<1> QED
  BY <1>1, FailsWithError, FailureCodes DEF handle_input

\* handle_sense(): the ranges,
LEMMA RangeOrderly ==
  ASSUME Inv, NEW c, c.key \in DOMAIN RangeShapes, sense_range(c)
  PROVE  Orderly(c)
<1>1. CASE access(c, RangeShapes[c.key], suffix(c))
  BY <1>1, AccessOrderly DEF ShapeTables
<1>2. ASSUME NEW range, NEW autorange, \A v : Storable(range, v), \A v : Storable(autorange, v),
             RangeCommand(c, range, autorange)
      PROVE  Orderly(c)
  BY <1>2, ParameterOrderly, AcceptsPutBoth, FailsWithError, FailureCodes DEF RangeCommand
<1>3. /\ \A v : Storable(<<"voltage.range", suffix(c)>>, v)
      /\ \A v : Storable(<<"voltage.autorange", suffix(c)>>, v)
      /\ \A v : Storable(<<"current.range", suffix(c)>>, v)
      /\ \A v : Storable(<<"current.autorange", suffix(c)>>, v)
  BY OwnStorable DEF OwnFields
<1> QED
  BY <1>1, <1>2, <1>3, FailsWithError, FailureCodes DEF sense_range

\* the functions and the data,
LEMMA FunctionOrderly ==
  ASSUME Inv, NEW c, c.key \in DOMAIN SenseShapes, sense_function(c)
  PROVE  Orderly(c)
<1>0. (\A v : Storable(<<"functions", 1>>, v)) /\ \A v : Storable(<<"concurrent", 1>>, v)
  BY OwnStorable DEF OwnFields
<1>1. CASE access(c, SenseShapes[c.key], 1)
  BY <1>1, AccessOrderly DEF ShapeTables
<1>2. CASE FunctionCommand(c)
  BY <1>0, <1>2, WordOrderly, FailsWithError, FailureCodes DEF FunctionCommand
<1>3. CASE ConcurrentCommand(c)
  BY <1>0, <1>3, ParameterOrderly, StoreOrderly, AcceptsPutBoth DEF ConcurrentCommand
<1>4. CASE query_only(c, DataQuery(c))
  BY <1>0, <1>4, Responds, RespondsWith, FailsWithError, FailureCodes
  DEF query_only, DataQuery, With
<1> QED
  BY <1>1, <1>2, <1>3, <1>4 DEF sense_function

\* and the sweeps.
LEMMA SweepOrderly ==
  ASSUME Inv, NEW c, c.key \in DOMAIN SweepShapes, sense_sweep(c)
  PROVE  Orderly(c)
<1>1. CASE access(c, SweepShapes[c.key], suffix(c))
  BY <1>1, AccessOrderly DEF ShapeTables
<1>2. CASE number(c, <<"sweep.time", suffix(c)>>, {"in", "MAX"})
  <2>1. \A v : Storable(<<"sweep.time", suffix(c)>>, v)
    BY OwnStorable DEF OwnFields
  <2> QED
    BY <1>2, <2>1, NumberOrderly
<1> QED
  BY <1>1, <1>2, FailsWithError, FailureCodes DEF sense_sweep

\* handle_sync().
LEMMA SyncOrderly ==
  ASSUME Inv, NEW c, c.key \in DOMAIN SyncShapes, handle_sync(c)
  PROVE  Orderly(c)
<1>1. CASE access(c, SyncShapes[c.key], 1)
  BY <1>1, AccessOrderly DEF ShapeTables
<1>2. \A v : Storable(<<"sync_level", 1>>, v)
  BY OwnStorable DEF OwnFields
<1> QED
  BY <1>1, <1>2, NumberOrderly DEF handle_sync

\* handle_acquisition() and handle_trigger().
LEMMA TriggerOrderly ==
  ASSUME Inv, NEW c,
         \/ c.key \in DOMAIN AcquisitionShapes /\ handle_acquisition(c)
         \/ c.key \in DOMAIN TriggerShapes /\ handle_trigger(c)
  PROVE  Orderly(c)
<1>1. CASE c.key \in DOMAIN AcquisitionShapes /\ access(c, AcquisitionShapes[c.key], 1)
  BY <1>1, AccessOrderly DEF ShapeTables
<1>2. CASE command_only(c, SequenceCommand(c))
  <2>1. \A v : Storable(<<"sweep.enabled", suffix(c)>>, v)
    BY OwnStorable DEF OwnFields
  <2> QED
    BY <1>2, <2>1, AcceptsPut, FailsWithError, FailureCodes DEF command_only, SequenceCommand
<1>3. CASE c.key \in DOMAIN TriggerShapes /\ access(c, TriggerShapes[c.key], 1)
  BY <1>3, AccessOrderly DEF ShapeTables
<1>4. CASE command_only(c, IgnoredTime(c))
  BY <1>4, AcceptsOnly, FailsWithError, FailureCodes DEF command_only, IgnoredTime
<1> QED
  BY <1>1, <1>2, <1>3, <1>4 DEF handle_acquisition, handle_trigger

\* handle_calculate().
LEMMA CalculateOrderly ==
  ASSUME Inv, NEW c, c.key \in DOMAIN CalculateShapes, handle_calculate(c)
  PROVE  Orderly(c)
<1>0. /\ \A v : Storable(<<"transform_cycles", 1>>, v)
      /\ \A v : Storable(<<"integral_running", 1>>, v)
      /\ \A v : Storable(<<"efficiency", 1>>, v)
  BY OwnStorable DEF OwnFields
<1>1. CASE access(c, CalculateShapes[c.key], 1)
  BY <1>1, AccessOrderly DEF ShapeTables
<1>2. CASE calculate_transform(c)
  <2>1. CASE command_only(c, TransformOnce(c))
    BY <2>1, ParameterOrderly, AcceptsOnly, FailsWithError, FailureCodes
    DEF command_only, TransformOnce
  <2>2. CASE CyclesCommand(c)
    BY <1>0, <2>2, IntegerOrderly, FailsWithError, FailureCodes DEF CyclesCommand
  <2>3. CASE query_only(c, WindowedQuery(c))
    BY <2>3, Responds, FailsWithError, FailureCodes DEF query_only, WindowedQuery
  <2>4. CASE query_only(c, ThdQuery(c))
    BY <2>4, Responds, FailsWithError, FailureCodes DEF query_only, ThdQuery
  <2> QED
    BY <1>2, <2>1, <2>2, <2>3, <2>4 DEF calculate_transform
<1>3. CASE command_only(c, IntegralStart(c))
  BY <1>0, <1>3, AcceptsPut, FailsWithError, FailureCodes DEF command_only, IntegralStart, With
<1>4. CASE command_only(c, IgnoredTime(c))
  BY <1>4, AcceptsOnly, FailsWithError, FailureCodes DEF command_only, IgnoredTime
<1>5. CASE EfficiencyReference(c)
  BY <1>0, <1>5, WordOrderly, FailsWithError, FailureCodes DEF EfficiencyReference
<1> QED
  BY <1>1, <1>2, <1>3, <1>4, <1>5 DEF handle_calculate

\* handle_trace().
LEMMA TraceOrderly ==
  ASSUME Inv, NEW c, c.key \in DOMAIN TraceShapes, handle_trace(c)
  PROVE  Orderly(c)
<1>1. CASE access(c, TraceShapes[c.key], 1)
  BY <1>1, AccessOrderly DEF ShapeTables
<1>2. CASE query_only(c, TraceQuery(c))
  BY <1>2, Responds, FailsWithError, FailureCodes DEF query_only, TraceQuery, WindowedQuery
<1> QED
  BY <1>1, <1>2 DEF handle_trace

\* handle_format(): the format that is set takes the other one with it.
LEMMA FormatOrderly ==
  ASSUME Inv, NEW c, c.key \in DOMAIN FormatShapes, handle_format(c)
  PROVE  Orderly(c)
<1> DEFINE data == <<"data_format", 1>>
           status == <<"status_format", 1>>
<1>0. data # status
  OBVIOUS
<1>1. CASE access(c, FormatShapes[c.key], 1)
  BY <1>1, AccessOrderly DEF ShapeTables
<1>2. CASE parameter(c)
  BY <1>2, ParameterOrderly
<1>3. ASSUME NEW own \in {data, status}, NEW other \in {data, status}, own # other,
             NEW is_data, ~c.query, c.key \in {"FORM", "FORM:STAT"}, c.arg \in Formats,
             accept(c, Changed(state, PutBoth(own, c.arg, other,
                                   coupled_format(Setting(other), c.arg, is_data))))
      PROVE  Orderly(c)
  <2> DEFINE coupled == coupled_format(Setting(other), c.arg, is_data)
             changes == PutBoth(own, c.arg, other, coupled)
  <2>1. /\ UNCHANGED errorQueueVars /\ Accepted(c) /\ state' = Changed(state, changes)
    BY <1>3 DEF accept, Accepted
  <2>2. /\ DOMAIN changes = {own, other}
        /\ changes[own] = c.arg /\ changes[other] = coupled
    BY <1>3 DEF PutBoth
  <2>3. c.arg = "ASC" <=> coupled = "ASC"
    BY DEF coupled_format
  <2>4. coupled \in Formats \union {Setting(other)}
    BY DEF coupled_format, Formats
  <2> HIDE DEF changes, coupled
  <2>5. Setting(own)' = c.arg /\ Setting(other)' = coupled
    BY <2>1, <2>2, SettingChanged
  <2>6. FormatsCoupled'
    BY <1>3, <2>3, <2>5 DEF FormatsCoupled, Is
  <2>7. Worded => Worded'
    <3>1. own \in DOMAIN fresh /\ other \in DOMAIN fresh
      BY KeywordRowsAssumption DEF FormatSettings
    <3>2. Formats \subseteq Vocabulary(own[1]) /\ Formats \subseteq Vocabulary(other[1])
      BY KeywordRowsAssumption
    <3>3. Worded => (other[1] \in KeywordFields => coupled \in Vocabulary(other[1]))
      BY <2>4, <3>1, <3>2 DEF Worded
    <3> QED
      BY <1>3, <2>1, <2>2, <3>2, <3>3, WordedChanges
  <2>8. ~chooses_binary(c) => TextFormats'
    BY <1>3, <2>3, <2>5 DEF chooses_binary, Formats, TextFormats, Is
  <2> QED
    BY <2>1, <2>6, <2>7, <2>8 DEF Orderly, Ran, Kept
<1>4. CASE c.key \in {"FORM", "FORM:STAT"} /\ FormatCommand(c)
  BY <1>0, <1>2, <1>3, <1>4 DEF FormatCommand
<1> QED
  BY <1>1, <1>4 DEF handle_format

\* handle_system() and the handlers around it.
LEMMA SystemOrderly ==
  ASSUME Inv, line \in Lines, NEW c, c.key \in DOMAIN SystemShapes, handle_system(c)
  PROVE  Orderly(c)
<1>0. (\A v : Storable(<<"date", 1>>, v)) /\ \A v : Storable(<<"time", 1>>, v)
  BY OwnStorable DEF OwnFields
<1>1. CASE access(c, SystemShapes[c.key], 1)
  BY <1>1, AccessOrderly DEF ShapeTables
<1>2. CASE query_only(c, status_command(c, SystErr \/ NoErrorLeft, TRUE))
  BY <1>2, StatusOrderly, FailsWithError, FailureCodes
  DEF query_only, status_command, NoErrorLeft, Next
<1>3. CASE query_only(c, status_command(c, SystErrAll \/ NoErrorLeft, TRUE))
  BY <1>3, StatusOrderly, FailsWithError, FailureCodes
  DEF query_only, status_command, NoErrorLeft, Next
<1>4. CASE date_time(c, <<"date", 1>>) \/ date_time(c, <<"time", 1>>)
  BY <1>0, <1>4, DateTimeOrderly
<1> QED
  BY <1>1, <1>2, <1>3, <1>4 DEF handle_system

\* Every command is orderly: it answers if it is a query, and otherwise it is
\* carried out in silence, or it fails and says so.
LEMMA ExecuteOrderly ==
  ASSUME Inv, line \in Lines, NEW c, execute(c)
  PROVE  Orderly(c)
<1>1. CASE c.key \in DOMAIN RouteShapes /\ handle_route(c)
  BY <1>1, AccessOrderly DEF handle_route, ShapeTables
<1>2. CASE c.key \in DOMAIN DisplayOutputShapes /\ handle_display_output(c)
  <2>1. CASE access(c, DisplayOutputShapes[c.key], 1)
    BY <1>2, <2>1, AccessOrderly DEF ShapeTables
  <2> QED
    BY <1>2, <2>1, FailsWithError, FailureCodes DEF handle_display_output
<1>3. CASE c.key \in DOMAIN StatusShapes /\ handle_status(c)
  BY <1>3, AccessOrderly DEF handle_status, ShapeTables
<1>4. CASE c.key \in DOMAIN TimerShapes /\ handle_timer(c)
  <2>1. CASE access(c, TimerShapes[c.key], 1)
    BY <1>4, <2>1, AccessOrderly DEF ShapeTables
  <2> QED
    BY <1>4, <2>1, FailsWithError, FailureCodes DEF handle_timer
<1> QED
  BY <1>1, <1>2, <1>3, <1>4, CommonOrderly, InputOrderly, RangeOrderly, FunctionOrderly,
     SweepOrderly, SyncOrderly, TriggerOrderly, CalculateOrderly, TraceOrderly, FormatOrderly,
     SystemOrderly DEF execute

-----------------------------------------------------------------------------
(* handle_line().                                                          *)

\* A line that has not ended has an answer for every query so far; one that
\* failed has left an error.  A command that is a line of its own answers once
\* if it is a query, or leaves an error, and does not answer otherwise.
LEMMA LineAfter ==
  ASSUME line \in Lines, AnsweredOrExplained, NEW c, Ran(c)
  PROVE  /\ line' \in Lines /\ AnsweredOrExplained'
         /\ line_ended => /\ line_ended'
                          /\ c.query => line'.answered = 1 \/ errors' # <<>>
                          /\ ~c.query => line'.answered = 0
<1> DEFINE next == next_command(c)
<1>1. /\ next \in Lines
      /\ next.asked = (IF line_ended THEN 0 ELSE line.asked) + (IF c.query THEN 1 ELSE 0)
      /\ next.answered = IF line_ended THEN 0 ELSE line.answered
      /\ next.failed = IF line_ended THEN "no" ELSE line.failed
      /\ line_ended => next.done = 1 /\ next.length = 1
  BY NextCommandType
<1> HIDE DEF next
<1>2. /\ next.asked \in Nat /\ next.answered \in Nat
      /\ next.asked = next.answered + (IF c.query THEN 1 ELSE 0)
  <2>1. CASE line_ended
    BY <1>1, <2>1 DEF Lines
  <2>2. CASE ~line_ended
    <3>1. line.answered = line.asked /\ line.asked \in Nat
      BY <2>2 DEF line_ended, AnsweredOrExplained, Lines
    <3> QED
      BY <1>1, <2>2, <3>1 DEF Lines
  <2> QED
    BY <2>1, <2>2
<1>3. CASE Responded(c)
  <2>1. line' = [next EXCEPT !.answered = next.answered + 1] /\ c.query
    BY <1>3 DEF Responded, next
  <2>2. /\ line' \in Lines /\ line'.answered = next.answered + 1 /\ line'.asked = next.asked
        /\ line'.done = next.done /\ line'.length = next.length
    BY <1>1, <1>2, <2>1 DEF Lines
  <2>3. AnsweredOrExplained'
    BY <1>2, <2>1, <2>2 DEF AnsweredOrExplained
  <2> QED
    BY <1>1, <2>1, <2>2, <2>3 DEF line_ended
<1>4. CASE Accepted(c)
  <2>1. line' = next /\ ~c.query
    BY <1>4 DEF Accepted, next
  <2>2. AnsweredOrExplained'
    BY <1>2, <2>1 DEF AnsweredOrExplained
  <2> QED
    BY <1>1, <2>1, <2>2 DEF line_ended
<1>5. CASE Failed(c)
  <2>1. line' = [next EXCEPT !.failed = "command"] /\ errors' # <<>>
    BY <1>5 DEF Failed, next
  <2>2. line' \in Lines /\ line'.answered = next.answered /\ line'.failed = "command"
    BY <1>1, <2>1 DEF Lines
  <2>3. AnsweredOrExplained' /\ line_ended'
    BY <2>1, <2>2 DEF AnsweredOrExplained, line_ended
  <2> QED
    BY <1>1, <2>1, <2>2, <2>3
<1> QED
  BY <1>3, <1>4, <1>5 DEF Ran

\* What handle_line() keeps, for every client.
CommandInv ==
    /\ Inv
    /\ line \in Lines
    /\ AnsweredOrExplained
    /\ FormatsCoupled
    /\ Worded

\* A fresh simulator.
LEMMA CommandInitInv == CommandInit => CommandInv
<1> SUFFICES ASSUME CommandInit PROVE CommandInv
  OBVIOUS
<1>1. Inv
  BY InitInv DEF CommandInit
<1>2. line \in Lines /\ AnsweredOrExplained
  BY DEF CommandInit, NoLine, Lines, AnsweredOrExplained
<1>3. FormatsCoupled /\ Worded
  BY FreshSettings DEF CommandInit
<1> QED
  BY <1>1, <1>2, <1>3 DEF CommandInv

\* A command runs.
LEMMA ExecuteInv ==
  ASSUME CommandInv, NEW c, execute(c)
  PROVE  /\ CommandInv'
         /\ line_ended => /\ line_ended'
                          /\ c.query => line'.answered = 1 \/ errors' # <<>>
                          /\ ~c.query => line'.answered = 0
<1>1. Orderly(c)
  BY ExecuteOrderly DEF CommandInv
<1>2. Inv' /\ FormatsCoupled' /\ Worded'
  BY <1>1, NextInv DEF CommandInv, Orderly, Kept
<1> QED
  BY <1>1, <1>2, LineAfter DEF CommandInv, Orderly

\* A line begins.
LEMMA NewLineInv ==
  ASSUME CommandInv, NEW n \in Nat, NewLine(n)
  PROVE  CommandInv'
<1>1. UNCHANGED <<errorQueueVars, state>> /\ line' = [NoLine EXCEPT !.length = n]
  BY DEF NewLine
<1>2. line' \in Lines /\ AnsweredOrExplained'
  BY <1>1 DEF NoLine, Lines, AnsweredOrExplained
<1>3. Inv' /\ FormatsCoupled' /\ Worded'
  BY <1>1, NextInv, SameSettings DEF CommandInv
<1> QED
  BY <1>2, <1>3 DEF CommandInv

\* A header that nobody knows fails like a command.
LEMMA UndefinedHeaderInv ==
  ASSUME CommandInv, NEW c, UndefinedHeader(c)
  PROVE  CommandInv'
<1>1. push_error(kUndefinedHeader) /\ UNCHANGED state
  BY DEF UndefinedHeader
<1>2. errors' # <<>> /\ Inv'
  BY <1>1, FailureCodes, PushLeavesError, PushInv DEF CommandInv
<1>3. line' = [next_command(c) EXCEPT !.failed = "header"] /\ next_command(c) \in Lines
  BY NextCommandType DEF CommandInv, UndefinedHeader
<1>4. line' \in Lines /\ line'.failed = "header"
  BY <1>3 DEF Lines
<1>5. AnsweredOrExplained' /\ FormatsCoupled' /\ Worded'
  BY <1>1, <1>2, <1>4, SameSettings DEF CommandInv, AnsweredOrExplained
<1> QED
  BY <1>2, <1>4, <1>5 DEF CommandInv

\* Nothing of the simulator changes.
LEMMA CommandSame ==
  ASSUME CommandInv, UNCHANGED commandVars
  PROVE  CommandInv'
<1>1. Inv' /\ FormatsCoupled' /\ Worded'
  BY NextInv, SameSettings DEF commandVars, CommandInv
<1>2. line' \in Lines /\ AnsweredOrExplained'
  BY DEF commandVars, errorQueueVars, CommandInv, AnsweredOrExplained
<1> QED
  BY <1>1, <1>2 DEF CommandInv

\* The invariant of handle_line() is inductive.
LEMMA CommandNextInv == CommandInv /\ [CommandNext]_commandVars => CommandInv'
<1> SUFFICES ASSUME CommandInv, [CommandNext]_commandVars PROVE CommandInv'
  OBVIOUS
<1>1. CASE \E n \in 2 .. MaxLine : NewLine(n)
  BY <1>1, NewLineInv, SimulatorCommandsAssumption
<1>2. CASE \E k \in Usages[usage].keys : \E c \in Commands(k) : execute(c)
  BY <1>2, ExecuteInv
<1>3. CASE \E asks \in BOOLEAN : UndefinedHeader([query |-> asks])
  BY <1>3, UndefinedHeaderInv
<1>4. CASE UNCHANGED commandVars
  BY <1>4, CommandSame
<1> QED
  BY <1>1, <1>2, <1>3, <1>4 DEF CommandNext, NextCommand

-----------------------------------------------------------------------------
(* The session.                                                            *)

Steps == {"other", "open", "clear", "format", "concurrent", "drain"}

\* Before a session opens nothing waits for it; while it is open every command
\* is a line of its own.
SessionOrder ==
    /\ step \in Steps
    /\ step = "other" => responses = <<>> /\ outcome = Outcome("none") /\ disturbed = FALSE
    /\ step # "other" => line_ended

ResponsesQueue == \E S : responses \in Seq(S)

MethodsInv ==
    /\ CommandInv
    /\ SessionOrder
    /\ ResponsesQueue
    /\ disturbed \in BOOLEAN
    /\ InStep
    /\ TimeoutExplained

\* A session that has not begun.
LEMMA MethodsInitInv == MethodsInit => MethodsInv
<1> SUFFICES ASSUME MethodsInit PROVE MethodsInv
  OBVIOUS
<1>1. CommandInv
  BY CommandInitInv DEF MethodsInit
<1>2. SessionOrder /\ disturbed \in BOOLEAN
  BY DEF MethodsInit, SessionOrder, Steps
<1>3. responses \in Seq({})
  BY DEF MethodsInit
<1>4. InStep /\ TimeoutExplained
  BY DEF MethodsInit, InStep, TimeoutExplained, Outcome
<1> QED
  BY <1>1, <1>2, <1>3, <1>4 DEF MethodsInv, ResponsesQueue

\* A response more in the queue, and its first one read.
LEMMA QueueTypes ==
  ASSUME ResponsesQueue, NEW form
  PROVE  /\ Append(responses, form) # <<>>
         /\ \E S : Append(responses, form) \in Seq(S)
         /\ \E S : Tail(Append(responses, form)) \in Seq(S)
         /\ responses = <<>> => Tail(Append(responses, form)) = <<>>
<1>1. PICK S : responses \in Seq(S)
  BY DEF ResponsesQueue
<1> DEFINE T == S \union {form}
           q == Append(responses, form)
<1>2. responses \in Seq(T) /\ Len(responses) \in Nat
  BY <1>1
<1> HIDE DEF T
<1>3. form \in T
  BY DEF T
<1>4. q \in Seq(T) /\ Len(q) = Len(responses) + 1
  BY <1>2, <1>3
<1>5. q # <<>>
  BY <1>2, <1>4
<1>6. Tail(q) \in Seq(T)
  BY <1>4, <1>5
<1>7. ASSUME responses = <<>> PROVE Tail(q) = <<>>
  BY <1>7
<1> QED
  BY <1>4, <1>5, <1>6, <1>7

\* write(): what waits after a command of an open session.
LEMMA WaitingAfter ==
  ASSUME ResponsesQueue, NEW c, NEW q \in waiting(c)
  PROVE  \/ q = responses /\ line'.answered = 0
         \/ /\ line'.answered # 0 /\ q # <<>>
            /\ \E S : q \in Seq(S)
            /\ \E S : Tail(q) \in Seq(S)
            /\ responses = <<>> => Tail(q) = <<>>
<1>1. CASE line'.answered = 0
  BY <1>1 DEF waiting
<1>2. CASE line'.answered # 0
  <2>1. PICK form \in answers(c) : q = Append(responses, form)
    BY <1>2 DEF waiting
  <2> QED
    BY <1>2, <2>1, QueueTypes
<1> QED
  BY <1>1, <1>2

\* send() keeps the session in step unless it sends a query.
LEMMA SendInv ==
  ASSUME MethodsInv, step # "other", NEW x, execute(x.command), send(x)
  PROVE  ResponsesQueue' /\ disturbed' \in BOOLEAN /\ InStep' /\ TimeoutExplained'
<1>1. ~x.command.query => line'.answered = 0
  BY ExecuteInv DEF MethodsInv, SessionOrder
<1>2. /\ responses' \in waiting(x.command)
      /\ disturbed' = (disturbed \/ x.command.query)
      /\ outcome'.own = TRUE /\ outcome'.kind \in {"rejected", "sent"}
  BY DEF send, Outcome
<1>3. ResponsesQueue /\ (disturbed \/ responses = <<>>)
  BY DEF MethodsInv, InStep
<1>4. \/ responses' = responses
      \/ line'.answered # 0 /\ \E S : responses' \in Seq(S)
  BY <1>2, <1>3, WaitingAfter
<1>5. ResponsesQueue'
  BY <1>3, <1>4 DEF ResponsesQueue
<1>6. disturbed' \in BOOLEAN
  BY <1>2
<1>7. InStep'
  BY <1>1, <1>2, <1>3, <1>4 DEF InStep
<1>8. TimeoutExplained'
  BY <1>2 DEF TimeoutExplained
<1> QED
  BY <1>5, <1>6, <1>7, <1>8

\* query() reads the answer to its own command in a session that is in step,
\* and times out on a sound link only when the command failed.
LEMMA QueryInv ==
  ASSUME MethodsInv, step # "other", NEW x, x.command.query, execute(x.command), query(x)
  PROVE  ResponsesQueue' /\ disturbed' \in BOOLEAN /\ InStep' /\ TimeoutExplained'
<1>1. line'.answered = 1 \/ errors' # <<>>
  BY ExecuteInv DEF MethodsInv, SessionOrder
<1>2. ResponsesQueue /\ (disturbed \/ responses = <<>>)
  BY DEF MethodsInv, InStep
<1>3. disturbed' = (disturbed \/ x.fault # "none")
  BY DEF query
<1>4. disturbed' \in BOOLEAN
  BY <1>3
<1>5. PICK q \in waiting(x.command) :
          \/ /\ x.fault # "none"
             /\ responses' = q
             /\ outcome' = [Outcome(IF x.fault = "fail_reads" THEN "ConnectionError"
                                    ELSE "TimeoutError") EXCEPT !.fault = TRUE]
          \/ /\ x.fault = "none" /\ q = <<>>
             /\ responses' = q
             /\ outcome' = Outcome("TimeoutError")
          \/ /\ x.fault = "none" /\ q # <<>>
             /\ responses' = Tail(q)
             /\ \E kind \in parse(x.command.key, x.parser, Head(q)) :
                   outcome' = [Outcome(kind) EXCEPT !.own = (responses = <<>>)]
  BY DEF query
<1>6. \/ q = responses /\ line'.answered = 0
      \/ /\ line'.answered # 0 /\ q # <<>>
         /\ \E S : q \in Seq(S)
         /\ \E S : Tail(q) \in Seq(S)
         /\ responses = <<>> => Tail(q) = <<>>
  BY <1>2, WaitingAfter
<1>7. \E S : q \in Seq(S)
  BY <1>2, <1>6 DEF ResponsesQueue
<1>8. CASE x.fault # "none"
  <2>1. responses' = q /\ outcome'.fault = TRUE
    BY <1>5, <1>8 DEF Outcome
  <2> QED
    BY <1>3, <1>4, <1>7, <1>8, <2>1 DEF ResponsesQueue, InStep, TimeoutExplained
<1>9. CASE x.fault = "none" /\ q = <<>>
  <2>1. responses' = <<>> /\ outcome'.own = TRUE
    BY <1>5, <1>9 DEF Outcome
  <2>2. errors' # <<>>
    BY <1>1, <1>6, <1>9
  <2>3. responses' \in Seq({})
    BY <2>1
  <2> QED
    BY <1>4, <2>1, <2>2, <2>3 DEF ResponsesQueue, InStep, TimeoutExplained
<1>10. CASE x.fault = "none" /\ q # <<>>
  <2>1. PICK kind \in parse(x.command.key, x.parser, Head(q)) :
            outcome' = [Outcome(kind) EXCEPT !.own = (responses = <<>>)]
    BY <1>5, <1>10
  <2>2. kind \in {"value", "ProtocolError"}
    BY <2>1 DEF parse
  <2>3. /\ responses' = Tail(q) /\ outcome'.kind = kind
        /\ responses = <<>> => outcome'.own
    BY <1>5, <1>10, <2>1 DEF Outcome
  <2>4. ResponsesQueue'
    <3>1. \E S : Tail(q) \in Seq(S)
      <4>1. CASE line'.answered # 0
        BY <1>6, <4>1
      <4>2. CASE q = responses
        <5>1. PICK S : q \in Seq(S)
          BY <1>7
        <5>2. Tail(q) \in Seq(S)
          BY <1>10, <5>1
        <5> QED
          BY <5>2
      <4> QED
        BY <1>6, <4>1, <4>2
    <3> QED
      BY <2>3, <3>1 DEF ResponsesQueue
  <2>5. InStep'
    BY <1>2, <1>3, <1>6, <1>10, <2>3 DEF InStep
  <2>6. TimeoutExplained'
    BY <2>2, <2>3 DEF TimeoutExplained
  <2> QED
    BY <1>4, <2>4, <2>5, <2>6
<1> QED
  BY <1>5, <1>8, <1>9, <1>10

\* What is read is the answer to a query.
LEMMA ReadsAreQueries ==
  ASSUME step \in Steps \ {"other"}, NEW x \in exchanges
  PROVE  /\ x.parser # "none" => x.command.query
         /\ step = "drain" => x.command.query
<1>1. ASSUME NEW c, c.query, NEW p, NEW f, x = Asked(c, p, f) PROVE x.command.query
  BY <1>1 DEF Asked
<1>2. ASSUME NEW c, NEW valid, x = Sent(c, valid) PROVE x.parser = "none"
  BY <1>2 DEF Sent
<1>3. CASE step = "open"
  <2>1. PICK k \in Called : x \in CallSetter(k) \union CallGetter(k) \union CallRaw(k)
    BY <1>3 DEF exchanges
  <2>2. ASSUME NEW commands, \A c \in commands : c.query, NEW parser,
               x \in AskedEach(commands, parser)
        PROVE  x.command.query
    <3>1. PICK c \in commands : x \in {Asked(c, parser, f) : f \in ReadFaults}
      BY <2>2 DEF AskedEach
    <3> QED
      BY <1>1, <2>2, <3>1
  <2>3. CASE x \in CallSetter(k)
    BY <1>2, <1>3, <2>3 DEF CallSetter
  <2>4. CASE x \in CallGetter(k)
    <3>1. \A c \in MethodCommands(k, TRUE, Methods[k].asks) : c.query
      BY DEF MethodCommands, Command
    <3> QED
      BY <1>3, <2>2, <2>4, <3>1 DEF CallGetter
  <2>5. CASE x \in CallRaw(k)
    <3>1. CASE x \in {Sent(c, FALSE) : c \in {c \in Commands(k) : ~c.query \/ Faulty}}
      BY <1>2, <1>3, <3>1
    <3>2. CASE x \in AskedEach({c \in Commands(k) : c.query}, "text")
      BY <1>3, <2>2, <3>2
    <3> QED
      BY <2>5, <3>1, <3>2 DEF CallRaw
  <2> QED
    BY <2>1, <2>3, <2>4, <2>5
<1>4. CASE step = "drain"
  BY <1>1, <1>4 DEF exchanges, Command
<1>5. CASE step \in {"clear", "format", "concurrent"}
  BY <1>2, <1>5 DEF exchanges
<1> QED
  BY <1>3, <1>4, <1>5 DEF Steps

\* The simulator handles a command when it is written, and what the client
\* makes of it keeps the session in step.
LEMMA ExchangeInv ==
  ASSUME MethodsInv, Exchange
  PROVE  MethodsInv'
<1>1. PICK x \in exchanges :
          /\ execute(x.command)
          /\ \/ step = "other" /\ UNCHANGED <<step, responses, outcome, text, disturbed>>
             \/ Call(x)
             \/ PrepareSend(x)
             \/ PrepareDrain(x)
  BY DEF Exchange
<1>2. CommandInv' /\ (line_ended => line_ended')
  BY <1>1, ExecuteInv DEF MethodsInv
<1>3. CASE step = "other" /\ UNCHANGED <<step, responses, outcome, text, disturbed>>
  <2>1. SessionOrder' /\ ResponsesQueue' /\ disturbed' \in BOOLEAN /\ InStep'
    BY <1>3 DEF MethodsInv, SessionOrder, ResponsesQueue, InStep
  <2>2. TimeoutExplained'
    BY <1>3 DEF MethodsInv, SessionOrder, TimeoutExplained, Outcome
  <2> QED
    BY <1>2, <2>1, <2>2 DEF MethodsInv
<1>4. CASE Call(x)
  <2>1. step = "open" /\ step' = "open"
    BY <1>4 DEF Call, may_call
  <2>2. SessionOrder'
    BY <1>2, <2>1 DEF MethodsInv, SessionOrder, Steps
  <2>3. x.parser # "none" => x.command.query
    BY <1>1, <2>1, ReadsAreQueries DEF Steps
  <2>4. ResponsesQueue' /\ disturbed' \in BOOLEAN /\ InStep' /\ TimeoutExplained'
    BY <1>1, <1>4, <2>1, <2>3, SendInv, QueryInv DEF Call
  <2> QED
    BY <1>2, <2>2, <2>4 DEF MethodsInv
<1>5. CASE PrepareSend(x)
  <2>1. step \in {"clear", "format", "concurrent"} /\ step' \in Steps \ {"other"}
    BY <1>5 DEF PrepareSend, prepare_commands, after, Steps
  <2>2. SessionOrder'
    BY <1>2, <2>1 DEF MethodsInv, SessionOrder
  <2>3. ResponsesQueue' /\ disturbed' \in BOOLEAN /\ InStep' /\ TimeoutExplained'
    BY <1>1, <1>5, <2>1, SendInv DEF PrepareSend
  <2> QED
    BY <1>2, <2>2, <2>3 DEF MethodsInv
<1>6. CASE PrepareDrain(x)
  <2>1. step = "drain" /\ step' \in {"drain", "open"}
    BY <1>6 DEF PrepareDrain
  <2>2. SessionOrder'
    BY <1>2, <2>1 DEF MethodsInv, SessionOrder, Steps
  <2>3. x.command.query
    BY <1>1, <2>1, ReadsAreQueries DEF Steps
  <2>4. ResponsesQueue' /\ disturbed' \in BOOLEAN /\ InStep' /\ TimeoutExplained'
    BY <1>1, <1>6, <2>1, <2>3, QueryInv DEF PrepareDrain
  <2> QED
    BY <1>2, <2>2, <2>4 DEF MethodsInv
<1> QED
  BY <1>1, <1>3, <1>4, <1>5, <1>6

\* The other client begins a line, or sends a header nobody knows.
LEMMA OtherClientInv ==
  ASSUME MethodsInv, OtherClient
  PROVE  MethodsInv'
<1>1. CommandInv'
  <2>1. CASE \E n \in 2 .. MaxLine : NewLine(n)
    <3> PICK n \in 2 .. MaxLine : NewLine(n)
      BY <2>1
    <3>1. n \in Nat
      BY SimulatorCommandsAssumption
    <3> QED
      BY <3>1, NewLineInv DEF MethodsInv
  <2>2. CASE \E asks \in BOOLEAN : UndefinedHeader([query |-> asks])
    BY <2>2, UndefinedHeaderInv DEF MethodsInv
  <2> QED
    BY <2>1, <2>2 DEF OtherClient
<1>2. step = "other" /\ UNCHANGED <<step, responses, outcome, disturbed>>
  BY DEF OtherClient
<1>3. SessionOrder' /\ ResponsesQueue' /\ disturbed' \in BOOLEAN /\ InStep'
  BY <1>2 DEF MethodsInv, SessionOrder, ResponsesQueue, InStep
<1>4. TimeoutExplained'
  BY <1>2 DEF MethodsInv, SessionOrder, TimeoutExplained, Outcome
<1> QED
  BY <1>1, <1>3, <1>4 DEF MethodsInv

\* The session opens, with no response waiting and no line under way.
LEMMA OpenInv ==
  ASSUME MethodsInv, open
  PROVE  MethodsInv'
<1>1. /\ step = "other" /\ step' = "open" /\ line' = NoLine
      /\ UNCHANGED <<errorQueueVars, state, responses, outcome, disturbed>>
  BY DEF open
<1>2. line' \in Lines /\ line_ended' /\ AnsweredOrExplained'
  BY <1>1 DEF NoLine, Lines, line_ended, AnsweredOrExplained
<1>3. Inv' /\ FormatsCoupled' /\ Worded'
  BY <1>1, NextInv, SameSettings DEF MethodsInv, CommandInv
<1>4. SessionOrder' /\ ResponsesQueue' /\ disturbed' \in BOOLEAN /\ InStep'
  BY <1>1, <1>2 DEF MethodsInv, SessionOrder, Steps, ResponsesQueue, InStep
<1>5. TimeoutExplained'
  BY <1>1 DEF MethodsInv, SessionOrder, TimeoutExplained, Outcome
<1> QED
  BY <1>2, <1>3, <1>4, <1>5 DEF MethodsInv, CommandInv

\* close() empties the responses.
LEMMA CloseInv ==
  ASSUME MethodsInv, close
  PROVE  MethodsInv'
<1>1. /\ step' = "other" /\ responses' = <<>> /\ outcome' = Outcome("none")
      /\ disturbed' = FALSE /\ UNCHANGED commandVars
  BY DEF close
<1>2. CommandInv'
  BY <1>1, CommandSame DEF MethodsInv
<1>3. responses' \in Seq({})
  BY <1>1
<1>4. SessionOrder' /\ disturbed' \in BOOLEAN /\ InStep' /\ TimeoutExplained'
  BY <1>1 DEF SessionOrder, Steps, InStep, TimeoutExplained, Outcome
<1> QED
  BY <1>2, <1>3, <1>4 DEF MethodsInv, ResponsesQueue

\* A call that sends nothing: its outcome is not a timeout.
LEMMA NothingSentInv ==
  ASSUME MethodsInv, step # "other", step' \in Steps \ {"other"},
         UNCHANGED <<commandVars, responses, disturbed>>,
         outcome' = outcome \/ (outcome'.own /\ outcome'.kind # "TimeoutError")
  PROVE  MethodsInv'
<1>1. CommandInv' /\ UNCHANGED <<line, errors>>
  BY CommandSame DEF MethodsInv, commandVars, errorQueueVars
<1>2. SessionOrder' /\ ResponsesQueue' /\ disturbed' \in BOOLEAN
  BY <1>1 DEF MethodsInv, SessionOrder, line_ended, ResponsesQueue
<1>3. InStep' /\ TimeoutExplained'
  BY <1>1 DEF MethodsInv, InStep, TimeoutExplained
<1> QED
  BY <1>1, <1>2, <1>3 DEF MethodsInv

\* The invariant of a session is inductive.
LEMMA MethodsNextInv == MethodsInv /\ [MethodsNext]_methodVars => MethodsInv'
<1> SUFFICES ASSUME MethodsInv, [MethodsNext]_methodVars PROVE MethodsInv'
  OBVIOUS
<1>1. CASE \E k \in Called : Refuse(k)
  <2>1. /\ step = "open" /\ step' = "open" /\ UNCHANGED <<commandVars, responses, disturbed>>
        /\ outcome'.own /\ outcome'.kind # "TimeoutError"
    BY <1>1 DEF Refuse, may_call, Outcome
  <2> QED
    BY <2>1, NothingSentInv DEF Steps
<1>2. CASE WriteFails \/ PrepareWriteFails
  <2>1. step # "other" /\ step' = "open" /\ fail_write
    BY <1>2 DEF WriteFails, PrepareWriteFails, may_call, prepare_commands
  <2>2. UNCHANGED <<commandVars, responses, disturbed>>
    BY <2>1 DEF fail_write
  <2>3. outcome'.own /\ outcome'.kind # "TimeoutError"
    BY <2>1 DEF fail_write, Outcome
  <2> QED
    BY <2>1, <2>2, <2>3, NothingSentInv DEF Steps
<1>3. CASE Prepare
  <2>1. /\ step # "other" /\ step' \in Steps \ {"other"}
        /\ UNCHANGED <<commandVars, responses, disturbed>> /\ outcome' = outcome
    BY <1>3 DEF Prepare, may_call, Steps
  <2> QED
    BY <2>1, NothingSentInv
<1>4. CASE UNCHANGED methodVars
  <2>1. CommandInv' /\ UNCHANGED <<line, errors, step, responses, outcome, disturbed>>
    BY <1>4, CommandSame DEF MethodsInv, methodVars, commandVars, errorQueueVars
  <2> QED
    BY <2>1 DEF MethodsInv, SessionOrder, line_ended, ResponsesQueue, InStep, TimeoutExplained
<1> QED
  BY <1>1, <1>2, <1>3, <1>4, ExchangeInv, OtherClientInv, OpenInv, CloseInv DEF MethodsNext

-----------------------------------------------------------------------------
(* prepare().  What it has reached by each of its steps holds until it     *)
(* returns, because no other client runs between them.                     *)

PrepareInv ==
    /\ text \in BOOLEAN
    /\ step \in {"concurrent", "drain"} => TextFormats
    /\ step = "drain" => Is("concurrent", "ON")

\* The commands of prepare() are handled by code of their own.
LEMMA PrepareCommands ==
  ASSUME NEW c, c.suffix = 0, c.key \in {"*CLS", "FORM", "FUNC:CONC", "SYST:ERR"}, execute(c)
  PROVE  \/ c.key = "*CLS"
         \/ c.key = "FORM" /\ FormatCommand(c)
         \/ c.key = "FUNC:CONC" /\ ConcurrentCommand(c)
         \/ /\ c.key = "SYST:ERR"
            /\ query_only(c, status_command(c, SystErr \/ NoErrorLeft, TRUE))
<1>1. ASSUME NEW shapes \in ShapeTables, c.key \in DOMAIN shapes, NEW n,
             access(c, shapes[c.key], n)
      PROVE  FALSE
  BY <1>1, PrepareRowsAssumption DEF access
<1>2. suffix(c) \in Channels /\ suffix(c) \in Phases /\ suffix(c) \in Blocks
  BY DEF suffix, Channels, Phases, Blocks
<1>3. /\ ~(c.key \in DOMAIN RouteShapes /\ handle_route(c))
      /\ ~(c.key \in DOMAIN InputShapes /\ handle_input(c))
      /\ ~(c.key \in DOMAIN RangeShapes /\ sense_range(c))
      /\ ~(c.key \in DOMAIN SweepShapes /\ sense_sweep(c))
  BY <1>1, <1>2 DEF handle_route, handle_input, sense_range, sense_sweep, ShapeTables
<1>4. /\ ~(c.key \in DOMAIN SyncShapes /\ handle_sync(c))
      /\ ~(c.key \in DOMAIN AcquisitionShapes /\ handle_acquisition(c))
      /\ ~(c.key \in DOMAIN TriggerShapes /\ handle_trigger(c))
      /\ ~(c.key \in DOMAIN CalculateShapes /\ handle_calculate(c))
  BY <1>1 DEF handle_sync, handle_acquisition, handle_trigger, handle_calculate,
              calculate_transform, ShapeTables
<1>5. /\ ~(c.key \in DOMAIN TraceShapes /\ handle_trace(c))
      /\ ~(c.key \in DOMAIN DisplayOutputShapes /\ handle_display_output(c))
      /\ ~(c.key \in DOMAIN StatusShapes /\ handle_status(c))
      /\ ~(c.key \in DOMAIN TimerShapes /\ handle_timer(c))
  BY <1>1 DEF handle_trace, handle_display_output, handle_status, handle_timer, ShapeTables
<1>6. /\ c.key \in DOMAIN CommonShapes /\ handle_common(c) => c.key = "*CLS"
      /\ c.key \in DOMAIN FormatShapes /\ handle_format(c) => c.key = "FORM" /\ FormatCommand(c)
      /\ c.key \in DOMAIN SenseShapes /\ sense_function(c) =>
            c.key = "FUNC:CONC" /\ ConcurrentCommand(c)
  BY <1>1 DEF handle_common, handle_format, sense_function, ShapeTables
<1>7. c.key \in DOMAIN SystemShapes /\ handle_system(c) =>
          /\ c.key = "SYST:ERR"
          /\ query_only(c, status_command(c, SystErr \/ NoErrorLeft, TRUE))
  BY <1>1 DEF handle_system, ShapeTables
<1> QED
  BY <1>3, <1>4, <1>5, <1>6, <1>7 DEF execute

\* FORM ASC makes both formats text, whatever they were.
LEMMA FormatAscii ==
  ASSUME NEW c, c.key = "FORM", ~c.query, c.arg = "ASC", FormatCommand(c)
  PROVE  TextFormats'
<1> DEFINE data == <<"data_format", 1>>
           status == <<"status_format", 1>>
           coupled == coupled_format(Setting(status), "ASC", TRUE)
           changes == PutBoth(data, "ASC", status, coupled)
<1>1. data # status
  OBVIOUS
<1>2. coupled = "ASC"
  BY DEF coupled_format
<1>3. state' = Changed(state, changes)
  BY DEF FormatCommand, parameter, accept
<1>4. /\ data \in DOMAIN changes /\ changes[data] = "ASC"
      /\ status \in DOMAIN changes /\ changes[status] = "ASC"
  BY <1>1, <1>2 DEF PutBoth
<1> HIDE DEF changes, coupled
<1>5. Setting(data)' = "ASC" /\ Setting(status)' = "ASC"
  BY <1>3, <1>4, SettingChanged
<1> QED
  BY <1>5 DEF TextFormats, Is

\* FUNC:CONC ON leaves the formats alone.
LEMMA ConcurrentOn ==
  ASSUME NEW c, ~c.query, c.arg = "ON", ConcurrentCommand(c)
  PROVE  Is("concurrent", "ON")' /\ (TextFormats => TextFormats')
<1> DEFINE changes == Put(<<"concurrent", 1>>, "ON")
<1>1. state' = Changed(state, changes)
  BY DEF ConcurrentCommand, parameter, store, accept
<1>2. DOMAIN changes = {<<"concurrent", 1>>} /\ changes[<<"concurrent", 1>>] = "ON"
  BY DEF Put
<1> HIDE DEF changes
<1>3. /\ Setting(<<"concurrent", 1>>)' = "ON"
      /\ Setting(<<"data_format", 1>>)' = Setting(<<"data_format", 1>>)
      /\ Setting(<<"status_format", 1>>)' = Setting(<<"status_format", 1>>)
  BY <1>1, <1>2, SettingChanged
<1> QED
  BY <1>3 DEF TextFormats, Is

\* SYST:ERR? changes no setting, and leaves an empty queue as it is.
LEMMA ErrorQuery ==
  ASSUME NEW c, query_only(c, status_command(c, SystErr \/ NoErrorLeft, TRUE)), c.query
  PROVE  UNCHANGED state /\ (errors = <<>> => errors' = <<>>)
  BY DEF query_only, status_command, SystErr, NoErrorLeft, errorQueueVars

\* What holds of the settings holds while they stay.
LEMMA SamePrepared ==
  ASSUME UNCHANGED state
  PROVE  TextFormats' = TextFormats /\ Is("concurrent", "ON")' = Is("concurrent", "ON")
  BY DEF TextFormats, Is, Setting

\* The exchange that prepare() has reached.
LEMMA PrepareExchange ==
  ASSUME NEW x \in exchanges, step \in {"clear", "format", "concurrent", "drain"},
         execute(x.command)
  PROVE  /\ step = "format" => TextFormats'
         /\ step = "concurrent" => Is("concurrent", "ON")' /\ (TextFormats => TextFormats')
         /\ step = "drain" => UNCHANGED state /\ (errors = <<>> => errors' = <<>>)
<1>1. CASE step = "format"
  <2>1. x.command = Command("FORM", 0, FALSE, "ASC")
    <3>1. x = Sent(prepare_commands[step], TRUE)
      BY <1>1 DEF exchanges
    <3> QED
      BY <1>1, <3>1 DEF Sent, prepare_commands
  <2>2. /\ x.command.key = "FORM" /\ x.command.suffix = 0
        /\ ~x.command.query /\ x.command.arg = "ASC"
    BY <2>1 DEF Command
  <2> QED
    BY <1>1, <2>2, PrepareCommands, FormatAscii
<1>2. CASE step = "concurrent"
  <2>1. x.command = Command("FUNC:CONC", 0, FALSE, "ON")
    <3>1. x = Sent(prepare_commands[step], TRUE)
      BY <1>2 DEF exchanges
    <3> QED
      BY <1>2, <3>1 DEF Sent, prepare_commands
  <2>2. /\ x.command.key = "FUNC:CONC" /\ x.command.suffix = 0
        /\ ~x.command.query /\ x.command.arg = "ON"
    BY <2>1 DEF Command
  <2> QED
    BY <1>2, <2>2, PrepareCommands, ConcurrentOn
<1>3. CASE step = "drain"
  <2>1. x.command = Command("SYST:ERR", 0, TRUE, "none")
    <3>1. \E f : x = Asked(Command("SYST:ERR", 0, TRUE, "none"), "errors", f)
      BY <1>3 DEF exchanges
    <3> QED
      BY <3>1 DEF Asked
  <2>2. x.command.key = "SYST:ERR" /\ x.command.suffix = 0 /\ x.command.query
    BY <2>1 DEF Command
  <2> QED
    BY <1>3, <2>2, PrepareCommands, ErrorQuery
<1> QED
  BY <1>1, <1>2, <1>3

\* Each step of prepare() keeps what those before it reached, and it returns
\* only when all of them are done and the error queue was found empty.
LEMMA PrepareNextInv ==
  ASSUME MethodsInv, PrepareInv, [MethodsNext]_methodVars
  PROVE  /\ PrepareInv'
         /\ ~text /\ text' => TextFormats' /\ Is("concurrent", "ON")' /\ (errors' = <<>> \/ disturbed)
<1>1. ASSUME step' \in {"other", "open", "clear", "format"}, text' \in BOOLEAN, text' => text
      PROVE  /\ PrepareInv'
             /\ ~text /\ text' =>
                    TextFormats' /\ Is("concurrent", "ON")' /\ (errors' = <<>> \/ disturbed)
  BY <1>1 DEF PrepareInv
<1>2. CASE OtherClient \/ open \/ close
  <2>1. step' \in {"other", "open"} /\ (text' = text \/ text' = FALSE)
    BY <1>2 DEF OtherClient, open, close
  <2>2. text' \in BOOLEAN /\ (text' => text)
    <3>1. CASE text' = text
      BY <3>1 DEF PrepareInv
    <3>2. CASE text' = FALSE
      BY <3>2
    <3> QED
      BY <2>1, <3>1, <3>2
  <2> QED
    BY <1>1, <2>1, <2>2
<1>3. CASE (\E k \in Called : Refuse(k)) \/ WriteFails \/ PrepareWriteFails \/ Prepare
  <2>1. step' \in {"open", "clear"} /\ (text' = text \/ text' = FALSE)
    BY <1>3 DEF Refuse, WriteFails, PrepareWriteFails, Prepare, may_call, fail_write
  <2>2. text' \in BOOLEAN /\ (text' => text)
    <3>1. CASE text' = text
      BY <3>1 DEF PrepareInv
    <3>2. CASE text' = FALSE
      BY <3>2
    <3> QED
      BY <2>1, <3>1, <3>2
  <2> QED
    BY <1>1, <2>1, <2>2
<1>4. CASE UNCHANGED methodVars
  <2>1. UNCHANGED <<step, text, state>>
    BY <1>4 DEF methodVars, commandVars
  <2> QED
    BY <2>1, SamePrepared DEF PrepareInv
<1>5. CASE Exchange
  <2>1. PICK x \in exchanges :
            /\ execute(x.command)
            /\ \/ step = "other" /\ UNCHANGED <<step, responses, outcome, text, disturbed>>
               \/ Call(x)
               \/ PrepareSend(x)
               \/ PrepareDrain(x)
    BY <1>5 DEF Exchange
  <2>2. CASE step = "other" /\ UNCHANGED <<step, responses, outcome, text, disturbed>>
    BY <1>1, <2>2 DEF PrepareInv
  <2>3. CASE Call(x)
    <3>1. step' = "open" /\ (text' = text \/ text' = (text /\ ~chooses_binary(x.command)))
      BY <2>3 DEF Call, may_call, send
    <3> QED
      BY <1>1, <3>1 DEF PrepareInv
  <2>4. CASE PrepareSend(x)
    <3>1. /\ step \in {"clear", "format", "concurrent"} /\ step' = after[step]
          /\ text' = (text /\ ~chooses_binary(x.command))
      BY <2>4 DEF PrepareSend, send, prepare_commands
    <3>2. /\ step = "clear" => step' = "format"
          /\ step = "format" => step' = "concurrent" /\ TextFormats'
          /\ step = "concurrent" => step' = "drain" /\ Is("concurrent", "ON")' /\ TextFormats'
      BY <2>1, <3>1, PrepareExchange DEF after, PrepareInv
    <3> QED
      BY <3>1, <3>2 DEF PrepareInv
  <2>5. CASE PrepareDrain(x)
    <3>1. step = "drain" /\ UNCHANGED state /\ (errors = <<>> => errors' = <<>>)
      BY <2>1, <2>5, PrepareExchange DEF PrepareDrain
    <3>2. TextFormats' /\ Is("concurrent", "ON")'
      BY <3>1, SamePrepared DEF PrepareInv
    <3>3. /\ step' \in {"open", "drain"}
          /\ text' = text \/ (text' = TRUE /\ (responses = <<>> => errors = <<>>))
      BY <2>5, <3>1 DEF PrepareDrain
    <3>4. responses = <<>> \/ disturbed
      BY DEF MethodsInv, InStep
    <3>5. PrepareInv'
      BY <3>2, <3>3 DEF PrepareInv
    <3>6. text' /\ ~text => errors' = <<>> \/ disturbed
      BY <3>1, <3>3, <3>4
    <3> QED
      BY <3>2, <3>5, <3>6
  <2> QED
    BY <2>1, <2>2, <2>3, <2>4, <2>5
<1> QED
  BY <1>2, <1>3, <1>4, <1>5 DEF MethodsNext

-----------------------------------------------------------------------------
(* A prepared session.  As long as it chooses no binary format the formats *)
(* stay text, and what a getter reads is the answer to its own query, in a *)
(* form that its row of the table allows.                                  *)

TextInv ==
    /\ text => step = "open" /\ TextFormats
    /\ TextSession

\* In every state the simulator can be in, the answer to a query is one that
\* the parser of its method reads.
LEMMA AnswersReadable ==
  ASSUME NEW c, NEW parser, Readable(c, parser), TextFormats, Worded, NEW form \in answers(c)
  PROVE  parse(c.key, parser, form) = {"value"}
<1> DEFINE shape == Shapes[c.key]
           read == reads(c.key, parser)
           data == {"DATA", "DATA:STAT", "CALC:DATA", "TRAC", "TRAC:STAT"}
           special == {"*OPC", "SYST:ERR", "SYST:ERR:ALL", "SYST:DATE", "SYST:TIME"}
           now == Setting(<<shape.field, suffix(c)>>)
<1>1. CASE parser \in {"text", "strings"}
  BY <1>1 DEF parse
<1>2. CASE parser \notin {"text", "strings"}
  <2>1. /\ c.key \in AllKeys \ (TextAnswers \union {"FUNC"}) /\ shape.kind # "list"
        /\ c.key = "*OPC" => "1" \in read
        /\ c.key \in {"SYST:ERR", "SYST:ERR:ALL"} => {"error", "no error"} \subseteq read
        /\ c.key \in {"SYST:DATE", "SYST:TIME"} => "date" \in read
        /\ c.key \in KeywordKeys => /\ <<shape.field, suffix(c)>> \in DOMAIN fresh
                                    /\ Vocabulary(shape.field) \subseteq read
        /\ c.key \notin KeywordKeys \union special => "number" \in read
        /\ c.key \in data => {"number", "nothing"} \subseteq read
    BY <1>2 DEF Readable
  <2>2. /\ shape.kind = "keyword" \/ c.key \in {"FORM", "FORM:STAT"} <=> c.key \in KeywordKeys
        /\ c.key \in KeywordKeys => shape.field \in KeywordFields
    BY <2>1 DEF KeywordKeys, KeywordFields
  <2>3. c.key \in KeywordKeys => now \in read
    BY <2>1, <2>2 DEF Worded
  <2>4. measurement_response(c) \in {"number", "nothing"}
    BY DEF measurement_response, TextFormats
  <2>5. \/ c.key \in {"DATA", "DATA:STAT"} /\ form = measurement_response(c)
        \/ c.key \in {"CALC:DATA", "TRAC", "TRAC:STAT"} /\ form \in {"number", "nothing"}
        \/ c.key \in {"SYST:ERR", "SYST:ERR:ALL"} /\ form \in {"error", "no error"}
        \/ c.key \in {"SYST:DATE", "SYST:TIME"} /\ form = "date"
        \/ c.key = "*OPC" /\ form = "1"
        \/ c.key \in KeywordKeys /\ form = now
        \/ c.key \notin KeywordKeys \union special /\ form = "number"
    BY <2>1, <2>2 DEF answers
  <2> HIDE DEF read, now, shape
  <2>6. form \in read
    BY <2>1, <2>3, <2>4, <2>5
  <2> QED
    BY <2>6 DEF parse, read
<1> QED
  BY <1>1, <1>2

\* What a call of a session that is open reads is readable.
LEMMA ReadsReadable ==
  ASSUME step = "open", NEW x \in exchanges, x.parser # "none", TextFormats, Worded,
         NEW form \in answers(x.command)
  PROVE  parse(x.command.key, x.parser, form) = {"value"}
<1>1. PICK k \in Called : x \in CallSetter(k) \union CallGetter(k) \union CallRaw(k)
  BY DEF exchanges
<1>2. ASSUME NEW commands, NEW parser, x \in AskedEach(commands, parser)
      PROVE  x.command \in commands /\ x.parser = parser
  <2>1. PICK c \in commands : x \in {Asked(c, parser, f) : f \in ReadFaults}
    BY <1>2 DEF AskedEach
  <2> QED
    BY <2>1 DEF Asked
<1>3. ASSUME NEW c, NEW valid, x = Sent(c, valid) PROVE FALSE
  BY <1>3 DEF Sent
<1>4. CASE x \in CallSetter(k)
  BY <1>3, <1>4 DEF CallSetter
<1>5. CASE x \in CallGetter(k)
  <2>1. x.command \in MethodCommands(k, TRUE, Methods[k].asks) /\ x.parser = Methods[k].parser
    BY <1>2, <1>5 DEF CallGetter
  <2>2. Readable(x.command, x.parser)
    BY <2>1, GetterRowsAssumption DEF Called
  <2> QED
    BY <2>2, AnswersReadable
<1>6. CASE x \in CallRaw(k)
  <2>1. CASE x \in {Sent(c, FALSE) : c \in {c \in Commands(k) : ~c.query \/ Faulty}}
    BY <1>3, <2>1
  <2>2. CASE x \in AskedEach({c \in Commands(k) : c.query}, "text")
    BY <1>2, <2>2 DEF parse
  <2> QED
    BY <1>6, <2>1, <2>2 DEF CallRaw
<1> QED
  BY <1>1, <1>4, <1>5, <1>6

\* A getter of a prepared session that is in step does not meet an answer its
\* parser cannot read.
LEMMA QueryReadable ==
  ASSUME step = "open", NEW x \in exchanges, x.parser # "none", TextFormats, Worded,
         InStep, query(x), ~disturbed'
  PROVE  outcome'.kind # "ProtocolError"
<1>1. x.fault = "none" /\ responses = <<>>
  BY DEF query, InStep
<1>2. PICK q \in waiting(x.command) :
          \/ q = <<>> /\ outcome' = Outcome("TimeoutError")
          \/ /\ q # <<>>
             /\ \E kind \in parse(x.command.key, x.parser, Head(q)) :
                   outcome' = [Outcome(kind) EXCEPT !.own = (responses = <<>>)]
  BY <1>1 DEF query
<1>3. CASE q = <<>> /\ outcome' = Outcome("TimeoutError")
  BY <1>3 DEF Outcome
<1>4. CASE q # <<>>
  <2>1. PICK form \in answers(x.command) : q = Append(<<>>, form)
    BY <1>1, <1>4 DEF waiting
  <2>2. Head(q) = form
    BY <2>1
  <2>3. parse(x.command.key, x.parser, Head(q)) = {"value"}
    BY <2>2, ReadsReadable
  <2>4. outcome' = [Outcome("value") EXCEPT !.own = (responses = <<>>)]
    BY <1>2, <1>4, <2>3
  <2> QED
    BY <2>4 DEF Outcome
<1> QED
  BY <1>2, <1>3, <1>4

\* TextInv is inductive beside what prepare() reaches.
LEMMA TextNextInv ==
  ASSUME MethodsInv, PrepareInv, TextInv, [MethodsNext]_methodVars
  PROVE  TextInv'
<1>1. text \in BOOLEAN /\ text' \in BOOLEAN
  BY PrepareNextInv DEF PrepareInv
<1>2. ASSUME ~text' PROVE TextInv'
  BY <1>2 DEF TextInv, TextSession
<1>3. CASE OtherClient \/ open \/ close \/ PrepareWriteFails \/ Prepare
  <2>1. text' = FALSE \/ (text' = text /\ step # "open")
    BY <1>3 DEF OtherClient, open, close, PrepareWriteFails, Prepare, fail_write, prepare_commands
  <2> QED
    BY <1>2, <2>1 DEF TextInv
<1>4. CASE (\E k \in Called : Refuse(k)) \/ WriteFails
  <2>1. /\ UNCHANGED <<step, text, state>>
        /\ \/ outcome' = Outcome("invalid_argument")
           \/ outcome' = [Outcome("ConnectionError") EXCEPT !.fault = TRUE]
    BY <1>4 DEF Refuse, WriteFails, fail_write, commandVars
  <2>2. outcome'.kind # "ProtocolError"
    BY <2>1 DEF Outcome
  <2> QED
    BY <2>1, <2>2, SameSettings DEF TextInv, TextSession
<1>5. CASE UNCHANGED methodVars
  <2>1. UNCHANGED <<step, text, state, outcome, disturbed>>
    BY <1>5 DEF methodVars, commandVars
  <2> QED
    BY <2>1, SameSettings DEF TextInv, TextSession
<1>6. CASE Exchange
  <2>1. PICK x \in exchanges :
            /\ execute(x.command)
            /\ \/ step = "other" /\ UNCHANGED <<step, responses, outcome, text, disturbed>>
               \/ Call(x)
               \/ PrepareSend(x)
               \/ PrepareDrain(x)
    BY <1>6 DEF Exchange
  <2>2. CASE step = "other" /\ UNCHANGED <<step, responses, outcome, text, disturbed>>
    BY <1>2, <2>2 DEF TextInv
  <2>3. CASE Call(x)
    <3>1. step = "open" /\ step' = "open"
      BY <2>3 DEF Call, may_call
    <3>2. text' => text /\ ~chooses_binary(x.command)
      <4>1. x.parser # "none" => x.command.query
        BY <2>1, <3>1, ReadsAreQueries DEF Steps
      <4> QED
        BY <2>3, <4>1 DEF Call, send, chooses_binary
    <3>3. text' => TextFormats'
      BY <2>1, <3>2, ExecuteOrderly DEF MethodsInv, CommandInv, Orderly, Kept, TextInv
    <3>4. text' /\ ~disturbed' => outcome'.kind # "ProtocolError"
      <4>1. CASE send(x)
        BY <4>1 DEF send, Outcome
      <4>2. CASE x.parser # "none" /\ query(x)
        BY <2>1, <3>1, <3>2, <4>2, QueryReadable DEF MethodsInv, CommandInv, TextInv
      <4> QED
        BY <2>3, <4>1, <4>2 DEF Call
    <3> QED
      BY <3>1, <3>3, <3>4 DEF TextInv, TextSession
  <2>4. CASE PrepareSend(x)
    <3>1. step # "open" /\ (text' => text)
      BY <2>4 DEF PrepareSend, send, prepare_commands
    <3> QED
      BY <1>2, <3>1 DEF TextInv
  <2>5. CASE PrepareDrain(x)
    <3>1. step = "drain" /\ (text' = text \/ (step' = "open" /\ outcome'.kind = "value"))
      BY <2>5 DEF PrepareDrain
    <3>2. ~text
      BY <3>1 DEF TextInv
    <3>3. text' => TextFormats'
      BY <3>2, PrepareNextInv
    <3> QED
      BY <1>1, <3>1, <3>2, <3>3 DEF TextInv, TextSession
  <2> QED
    BY <2>1, <2>2, <2>3, <2>4, <2>5
<1> QED
  BY <1>3, <1>4, <1>5, <1>6 DEF MethodsNext

-----------------------------------------------------------------------------
(* Setters whose arguments are in the documented ranges: the handler       *)
(* carries them out or finds a conflict of settings.                       *)

NewestIsConflict ==
    errors # <<>> => errors[Len(errors)].code \in {kSettingsConflict, QueueOverflow}
Tolerated == line'.failed = "no" \/ NewestIsConflict'

\* A command that is answered or carried out has not failed,
LEMMA AcceptTolerated ==
  ASSUME line \in Lines, line_ended, NEW c,
         \/ line' = next_command(c)
         \/ \E n : line' = [next_command(c) EXCEPT !.answered = n]
  PROVE  Tolerated
<1>1. next_command(c) \in Lines /\ next_command(c).failed = "no"
  BY NextCommandType
<1> QED
  BY <1>1 DEF Lines, Tolerated

\* and one that fails with a conflict leaves it, or the overflow error, as the
\* newest entry.
LEMMA ConflictTolerated ==
  ASSUME Inv, NEW c, fail(c, kSettingsConflict)
  PROVE  Tolerated
<1>1. errors \in Seq(Entry) /\ Capacity \in Nat \ {0} /\ raised \in Nat
  BY ErrorQueueAssumption DEF Inv, TypeOK
<1>2. push_error(kSettingsConflict)
  BY DEF fail
<1>3. CASE Len(errors) >= Capacity
  <2> DEFINE overflow == [code |-> QueueOverflow, stamp |-> raised + 1]
  <2>1. errors' = [errors EXCEPT ![Len(errors)] = overflow]
    BY <1>2, <1>3 DEF push_error
  <2>2. /\ Len(errors) \in Nat /\ Len(errors) >= 1 /\ overflow \in Entry
        /\ overflow.code = QueueOverflow
    BY <1>1, <1>3 DEF Entry
  <2> HIDE DEF overflow
  <2>3. Len(errors') = Len(errors) /\ errors'[Len(errors)] = overflow
    BY <1>1, <2>1, <2>2
  <2> QED
    BY <2>2, <2>3 DEF Tolerated, NewestIsConflict
<1>4. CASE ~(Len(errors) >= Capacity)
  <2> DEFINE conflict == [code |-> kSettingsConflict, stamp |-> raised + 1]
  <2>1. errors' = Append(errors, conflict)
    BY <1>2, <1>4 DEF push_error
  <2>2. conflict \in Entry /\ conflict.code = kSettingsConflict
    BY <1>1, FailureCodes DEF Entry
  <2> HIDE DEF conflict
  <2>3. errors'[Len(errors')] = conflict
    BY <1>1, <2>1, <2>2
  <2> QED
    BY <2>2, <2>3 DEF Tolerated, NewestIsConflict
<1> QED
  BY <1>3, <1>4

\* One call on an Access helper.
LEMMA AccessTolerated ==
  ASSUME line \in Lines, line_ended, NEW c, ~c.query, Understood(c),
         NEW shapes \in ShapeTables, c.key \in DOMAIN shapes, NEW n, access(c, shapes[c.key], n)
  PROVE  Tolerated
<1>1. /\ shapes[c.key].kind # "query"
      /\ shapes[c.key].kind \in {"number", "integer"} => c.arg = "in"
      /\ shapes[c.key].kind \in {"boolean", "keyword", "list", "text"} =>
            c.arg \notin {"none", "bad"}
  BY DEF Understood
<1>2. line' = next_command(c)
  BY <1>1 DEF access, command_only, number, integer, word, store, parameter, accept
<1> QED
  BY <1>2, AcceptTolerated

\* The handlers whose keys all go through Access once their suffix is checked.
LEMMA PlainTolerated ==
  ASSUME Inv, line \in Lines, line_ended, NEW c, ~c.query, Understood(c),
         \/ c.key \in DOMAIN RouteShapes /\ handle_route(c)
         \/ c.key \in DOMAIN InputShapes /\ handle_input(c)
         \/ c.key \in DOMAIN DisplayOutputShapes /\ handle_display_output(c)
         \/ c.key \in DOMAIN StatusShapes /\ handle_status(c)
         \/ c.key \in DOMAIN TimerShapes /\ handle_timer(c)
  PROVE  Tolerated
<1>1. /\ c.key \in DOMAIN InputShapes => suffix(c) \in Channels
      /\ c.key = "OUTP#:STAT" => suffix(c) = 9
      /\ c.key # "TIM:RES:AUTO"
  BY DEF Understood, suffix
<1>2. CASE c.key \in DOMAIN RouteShapes /\ handle_route(c)
  BY <1>2, AccessTolerated DEF handle_route, ShapeTables
<1>3. CASE c.key \in DOMAIN InputShapes /\ handle_input(c)
  BY <1>1, <1>3, AccessTolerated, ConflictTolerated DEF handle_input, ShapeTables
<1>4. CASE c.key \in DOMAIN DisplayOutputShapes /\ handle_display_output(c)
  BY <1>1, <1>4, AccessTolerated DEF handle_display_output, ShapeTables
<1>5. CASE c.key \in DOMAIN StatusShapes /\ handle_status(c)
  BY <1>5, AccessTolerated DEF handle_status, ShapeTables
<1>6. CASE c.key \in DOMAIN TimerShapes /\ handle_timer(c)
  BY <1>1, <1>6, AccessTolerated DEF handle_timer, ShapeTables
<1> QED
  BY <1>2, <1>3, <1>4, <1>5, <1>6

\* handle_common().
LEMMA CommonTolerated ==
  ASSUME line \in Lines, line_ended, NEW c, ~c.query, Understood(c),
         c.key \in DOMAIN CommonShapes, handle_common(c)
  PROVE  Tolerated
<1>1. c.key # "*ESR" /\ (c.key \in {"*SAV", "*RCL"} => c.arg = "in")
  BY DEF Understood
<1>2. CASE access(c, CommonShapes[c.key], 1)
  BY <1>2, AccessTolerated DEF ShapeTables
<1>3. CASE \/ ResetCommand(c)
           \/ SaveCommand(c) /\ c.arg = "in"
           \/ RecallCommand(c) /\ c.arg = "in"
  <2>1. line' = next_command(c)
    BY <1>3 DEF ResetCommand, SaveCommand, RecallCommand, parameter, accept
  <2> QED
    BY <2>1, AcceptTolerated
<1>4. CASE \E A : line' = [next_command(c) EXCEPT !.answered = A]
  BY <1>4, AcceptTolerated
<1>5. \/ access(c, CommonShapes[c.key], 1)
      \/ ResetCommand(c)
      \/ SaveCommand(c) /\ c.arg = "in"
      \/ RecallCommand(c) /\ c.arg = "in"
      \/ status_command(c, clear_status, FALSE)
      \/ status_command(c, OperationCompleteCommand, FALSE)
  BY <1>1 DEF handle_common, command_only
<1> QED
  BY <1>2, <1>3, <1>4, <1>5 DEF status_command

\* handle_sense().
LEMMA SenseTolerated ==
  ASSUME Inv, line \in Lines, line_ended, NEW c, ~c.query, Understood(c),
         \/ c.key \in DOMAIN RangeShapes /\ sense_range(c)
         \/ c.key \in DOMAIN SenseShapes /\ sense_function(c)
         \/ c.key \in DOMAIN SweepShapes /\ sense_sweep(c)
  PROVE  Tolerated
<1>1. /\ c.key \in DOMAIN RangeShapes => suffix(c) \in Phases
      /\ c.key \in DOMAIN SweepShapes => suffix(c) \in Blocks
      /\ c.key \in {"VOLT#:RANG", "CURR#:RANG"} => c.arg = "in"
      /\ c.key = "SWE#:TIME" => c.arg \in {"in", "MAX"}
      /\ c.key \in {"FUNC", "FUNC:CONC"} => c.arg \notin {"none", "bad"}
      /\ c.key \notin {"DATA", "DATA:STAT"}
  BY DEF Understood
<1>2. CASE c.key \in DOMAIN RangeShapes /\ sense_range(c)
  <2>1. CASE access(c, RangeShapes[c.key], suffix(c))
    BY <1>2, <2>1, AccessTolerated DEF ShapeTables
  <2>2. ASSUME NEW x, NEW y, RangeCommand(c, x, y), c.arg = "in" PROVE line' = next_command(c)
    BY <2>2 DEF RangeCommand, parameter, accept
  <2> QED
    BY <1>1, <1>2, <2>1, <2>2, AcceptTolerated DEF sense_range
<1>3. CASE c.key \in DOMAIN SenseShapes /\ sense_function(c)
  <2>1. CASE access(c, SenseShapes[c.key], 1)
    BY <1>3, <2>1, AccessTolerated DEF ShapeTables
  <2>2. CASE FunctionCommand(c) /\ c.arg \notin {"none", "bad"}
    <3>1. line' = next_command(c) \/ fail(c, kSettingsConflict)
      BY <2>2 DEF FunctionCommand, word, store, parameter, accept
    <3> QED
      BY <3>1, AcceptTolerated, ConflictTolerated
  <2>3. CASE ConcurrentCommand(c) /\ c.arg \notin {"none", "bad"}
    <3>1. line' = next_command(c)
      BY <2>3 DEF ConcurrentCommand, store, parameter, accept
    <3> QED
      BY <3>1, AcceptTolerated
  <2> QED
    BY <1>1, <1>3, <2>1, <2>2, <2>3 DEF sense_function
<1>4. CASE c.key \in DOMAIN SweepShapes /\ sense_sweep(c)
  <2>1. CASE access(c, SweepShapes[c.key], suffix(c))
    BY <1>4, <2>1, AccessTolerated DEF ShapeTables
  <2>2. CASE number(c, <<"sweep.time", suffix(c)>>, {"in", "MAX"}) /\ c.arg \in {"in", "MAX"}
    <3>1. line' = next_command(c)
      BY <2>2 DEF number, store, parameter, accept
    <3> QED
      BY <3>1, AcceptTolerated
  <2> QED
    BY <1>1, <1>4, <2>1, <2>2 DEF sense_sweep
<1> QED
  BY <1>2, <1>3, <1>4

\* handle_sync(), handle_acquisition(), handle_trigger() and handle_trace().
LEMMA TriggerTolerated ==
  ASSUME line \in Lines, line_ended, NEW c, ~c.query, Understood(c),
         \/ c.key \in DOMAIN SyncShapes /\ handle_sync(c)
         \/ c.key \in DOMAIN AcquisitionShapes /\ handle_acquisition(c)
         \/ c.key \in DOMAIN TriggerShapes /\ handle_trigger(c)
         \/ c.key \in DOMAIN TraceShapes /\ handle_trace(c)
  PROVE  Tolerated
<1>1. /\ c.key = "INIT:SEQ#" => suffix(c) \in Blocks
      /\ c.key \in {"SYNC:LEV", "TRIG:STAR:TIME", "TRIG:STOP:TIME"} => c.arg = "in"
      /\ c.key \notin {"TRAC", "TRAC:PRE", "TRAC:STAT"}
  BY DEF Understood
<1>2. CASE c.key \in DOMAIN SyncShapes /\ handle_sync(c)
  <2>1. CASE access(c, SyncShapes[c.key], 1)
    BY <1>2, <2>1, AccessTolerated DEF ShapeTables
  <2>2. ASSUME NEW x, NEW in_range, "in" \in in_range, number(c, x, in_range), c.arg = "in"
        PROVE  Tolerated
    <3>1. line' = next_command(c)
      BY <2>2 DEF number, store, parameter, accept
    <3> QED
      BY <3>1, AcceptTolerated
  <2> QED
    BY <1>1, <1>2, <2>1, <2>2 DEF handle_sync
<1>3. CASE c.key \in DOMAIN AcquisitionShapes /\ handle_acquisition(c)
  <2>1. CASE access(c, AcquisitionShapes[c.key], 1)
    BY <1>3, <2>1, AccessTolerated DEF ShapeTables
  <2>2. CASE command_only(c, SequenceCommand(c)) /\ suffix(c) \in Blocks
    <3>1. line' = next_command(c)
      BY <2>2 DEF command_only, SequenceCommand, accept
    <3> QED
      BY <3>1, AcceptTolerated
  <2> QED
    BY <1>1, <1>3, <2>1, <2>2 DEF handle_acquisition
<1>4. CASE c.key \in DOMAIN TriggerShapes /\ handle_trigger(c)
  <2>1. CASE access(c, TriggerShapes[c.key], 1)
    BY <1>4, <2>1, AccessTolerated DEF ShapeTables
  <2>2. CASE command_only(c, IgnoredTime(c)) /\ c.arg = "in"
    <3>1. line' = next_command(c)
      BY <2>2 DEF command_only, IgnoredTime, accept
    <3> QED
      BY <3>1, AcceptTolerated
  <2> QED
    BY <1>1, <1>4, <2>1, <2>2 DEF handle_trigger
<1>5. CASE c.key \in DOMAIN TraceShapes /\ handle_trace(c)
  BY <1>1, <1>5, AccessTolerated DEF handle_trace, ShapeTables
<1> QED
  BY <1>2, <1>3, <1>4, <1>5

\* handle_calculate().
LEMMA CalculateTolerated ==
  ASSUME Inv, line \in Lines, line_ended, NEW c, ~c.query, Understood(c),
         c.key \in DOMAIN CalculateShapes, handle_calculate(c)
  PROVE  Tolerated
<1>1. /\ c.key = "CALC:TRAN:FREQ:STAT" => c.arg = "ONCE"
      /\ c.key \in {"CALC:TRAN:FREQ:CYCL", "CALC:INT:STAR:TIME", "CALC:INT:STOP:TIME"} =>
            c.arg = "in"
      /\ c.key = "CALC:POW#:EFF:REF" => c.suffix \in {0, 460} /\ c.arg = "in"
      /\ c.key \notin {"CALC:DATA", "CALC:DATA:THD"}
  BY DEF Understood
<1>2. CASE access(c, CalculateShapes[c.key], 1)
  BY <1>2, AccessTolerated DEF ShapeTables
<1>3. CASE calculate_transform(c)
  <2>1. CASE c.arg = "ONCE" /\ command_only(c, TransformOnce(c))
    <3>1. line' = next_command(c)
      BY <2>1 DEF command_only, TransformOnce, parameter, accept
    <3> QED
      BY <3>1, AcceptTolerated
  <2>2. CASE c.arg = "in" /\ CyclesCommand(c)
    <3>1. line' = next_command(c)
      BY <2>2 DEF CyclesCommand, integer, parameter, accept
    <3> QED
      BY <3>1, AcceptTolerated
  <2> QED
    BY <1>1, <1>3, <2>1, <2>2 DEF calculate_transform
<1>4. CASE command_only(c, IntegralStart(c))
  <2>1. line' = next_command(c) \/ fail(c, kSettingsConflict)
    BY <1>4 DEF command_only, IntegralStart, accept
  <2> QED
    BY <2>1, AcceptTolerated, ConflictTolerated
<1>5. CASE c.arg = "in" /\ command_only(c, IgnoredTime(c))
  <2>1. line' = next_command(c)
    BY <1>5 DEF command_only, IgnoredTime, accept
  <2> QED
    BY <2>1, AcceptTolerated
<1>6. CASE c.suffix \in {0, 460} /\ c.arg = "in" /\ EfficiencyReference(c)
  <2>1. line' = next_command(c)
    BY <1>6 DEF EfficiencyReference, word, store, parameter, accept
  <2> QED
    BY <2>1, AcceptTolerated
<1> QED
  BY <1>1, <1>2, <1>3, <1>4, <1>5, <1>6 DEF handle_calculate

\* handle_format() and handle_system().
LEMMA SystemTolerated ==
  ASSUME line \in Lines, line_ended, NEW c, ~c.query, Understood(c),
         \/ c.key \in DOMAIN FormatShapes /\ handle_format(c)
         \/ c.key \in DOMAIN SystemShapes /\ handle_system(c)
  PROVE  Tolerated
<1>1. /\ c.key \in {"FORM", "FORM:STAT"} => c.arg \notin {"none", "bad"}
      /\ c.key \in {"SYST:DATE", "SYST:TIME"} => c.arg = "in"
      /\ c.key \notin {"SYST:ERR", "SYST:ERR:ALL"}
  BY DEF Understood
<1>2. CASE c.key \in DOMAIN FormatShapes /\ handle_format(c)
  <2>1. CASE access(c, FormatShapes[c.key], 1)
    BY <1>2, <2>1, AccessTolerated DEF ShapeTables
  <2>2. CASE c.arg \notin {"none", "bad"} /\ FormatCommand(c)
    <3>1. line' = next_command(c)
      BY <2>2 DEF FormatCommand, parameter, accept
    <3> QED
      BY <3>1, AcceptTolerated
  <2> QED
    BY <1>1, <1>2, <2>1, <2>2 DEF handle_format
<1>3. CASE c.key \in DOMAIN SystemShapes /\ handle_system(c)
  <2>1. CASE access(c, SystemShapes[c.key], 1)
    BY <1>3, <2>1, AccessTolerated DEF ShapeTables
  <2>2. ASSUME NEW x, c.arg = "in", date_time(c, x) PROVE Tolerated
    <3>1. line' = next_command(c)
      BY <2>2 DEF date_time, store, parameter, accept
    <3> QED
      BY <3>1, AcceptTolerated
  <2> QED
    BY <1>1, <1>3, <2>1, <2>2 DEF handle_system
<1> QED
  BY <1>2, <1>3

\* Whatever the settings are, such a command is carried out or conflicts.
LEMMA ExecuteTolerated ==
  ASSUME Inv, line \in Lines, line_ended, NEW c, ~c.query, Understood(c), execute(c)
  PROVE  Tolerated
  BY PlainTolerated, CommonTolerated, SenseTolerated, TriggerTolerated, CalculateTolerated,
     SystemTolerated DEF execute

\* An exchange that counts as valid sends such a command.
LEMMA ValidUnderstood ==
  ASSUME step \in Steps \ {"other"}, NEW x \in exchanges, x.valid, x.parser = "none"
  PROVE  ~x.command.query /\ Understood(x.command)
<1>1. CASE step = "open"
  <2>1. PICK k \in Called : x \in CallSetter(k) \union CallGetter(k) \union CallRaw(k)
    BY <1>1 DEF exchanges
  <2>2. ASSUME NEW commands, NEW parser, x \in AskedEach(commands, parser)
        PROVE  FALSE
    <3>1. PICK c \in commands : x \in {Asked(c, parser, f) : f \in ReadFaults}
      BY <2>2 DEF AskedEach
    <3>2. x.valid = FALSE
      BY <3>1 DEF Asked
    <3> QED
      BY <3>2
  <2>3. CASE x \in CallSetter(k)
    <3>1. PICK c \in MethodCommands(k, FALSE, Methods[k].sends) :
              x = Sent(c, c.arg \notin Unchecked(k))
      BY <2>3 DEF CallSetter
    <3>2. x.command = c /\ c.arg \notin Unchecked(k)
      BY <3>1 DEF Sent
    <3>3. ~c.query
      BY DEF MethodCommands, Command
    <3> QED
      BY <3>2, <3>3, SetterRowsAssumption DEF Called
  <2>4. CASE x \in CallRaw(k)
    <3>1. CASE x \in {Sent(c, FALSE) : c \in {c \in Commands(k) : ~c.query \/ Faulty}}
      BY <3>1 DEF Sent
    <3> QED
      BY <2>2, <2>4, <3>1 DEF CallRaw
  <2> QED
    BY <2>1, <2>2, <2>3, <2>4 DEF CallGetter
<1>2. CASE step = "drain"
  <2>1. \E f : x = Asked(Command("SYST:ERR", 0, TRUE, "none"), "errors", f)
    BY <1>2 DEF exchanges
  <2> QED
    BY <2>1 DEF Asked
<1>3. CASE step \in {"clear", "format", "concurrent"}
  <2>1. x = Sent(prepare_commands[step], TRUE)
    BY <1>3 DEF exchanges
  <2>2. step \in DOMAIN prepare_commands /\ x.command = prepare_commands[step]
    BY <1>3, <2>1 DEF Sent, prepare_commands
  <2>3. ~x.command.query
    BY <1>3, <2>2 DEF prepare_commands, Command
  <2> QED
    BY <2>2, <2>3, SetterRowsAssumption
<1> QED
  BY <1>1, <1>2, <1>3 DEF Steps

\* A query is never "rejected".
LEMMA QueryNotRejected ==
  ASSUME NEW x, query(x)
  PROVE  outcome'.kind # "rejected"
<1>1. PICK q \in waiting(x.command) :
          \/ outcome' = [Outcome(IF x.fault = "fail_reads" THEN "ConnectionError"
                                 ELSE "TimeoutError") EXCEPT !.fault = TRUE]
          \/ outcome' = Outcome("TimeoutError")
          \/ \E kind \in parse(x.command.key, x.parser, Head(q)) :
                outcome' = [Outcome(kind) EXCEPT !.own = (responses = <<>>)]
  BY DEF query
<1>2. CASE outcome' = [Outcome(IF x.fault = "fail_reads" THEN "ConnectionError"
                               ELSE "TimeoutError") EXCEPT !.fault = TRUE]
  BY <1>2 DEF Outcome
<1>3. CASE outcome' = Outcome("TimeoutError")
  BY <1>3 DEF Outcome
<1>4. CASE \E kind \in parse(x.command.key, x.parser, Head(q)) :
              outcome' = [Outcome(kind) EXCEPT !.own = (responses = <<>>)]
  <2>1. PICK kind \in parse(x.command.key, x.parser, Head(q)) :
            outcome' = [Outcome(kind) EXCEPT !.own = (responses = <<>>)]
    BY <1>4
  <2>2. kind \in {"value", "ProtocolError"}
    BY <2>1 DEF parse
  <2> QED
    BY <2>1, <2>2 DEF Outcome
<1> QED
  BY <1>1, <1>2, <1>3, <1>4

\* RejectedForConflict is inductive beside the invariant of the session.
LEMMA RejectedNextInv ==
  ASSUME MethodsInv, RejectedForConflict, [MethodsNext]_methodVars
  PROVE  RejectedForConflict'
<1>1. ASSUME outcome'.kind # "rejected" PROVE RejectedForConflict'
  BY <1>1 DEF RejectedForConflict
<1>2. step = "other" => outcome.kind # "rejected"
  BY DEF MethodsInv, SessionOrder, Outcome
<1>3. CASE OtherClient \/ open \/ close
  <2>1. (outcome' = outcome /\ step = "other") \/ outcome' = Outcome("none")
    BY <1>3 DEF OtherClient, open, close
  <2> QED
    BY <1>1, <1>2, <2>1 DEF Outcome
<1>4. CASE (\E k \in Called : Refuse(k)) \/ WriteFails \/ PrepareWriteFails
  <2>1. \/ outcome' = Outcome("invalid_argument")
        \/ outcome' = [Outcome("ConnectionError") EXCEPT !.fault = TRUE]
    BY <1>4 DEF Refuse, WriteFails, PrepareWriteFails, fail_write
  <2> QED
    BY <1>1, <2>1 DEF Outcome
<1>5. CASE Prepare \/ UNCHANGED methodVars
  <2>1. UNCHANGED <<outcome, errors>>
    BY <1>5 DEF Prepare, methodVars, commandVars, errorQueueVars
  <2> QED
    BY <2>1 DEF RejectedForConflict
<1>6. CASE Exchange
  <2>1. PICK x \in exchanges :
            /\ execute(x.command)
            /\ \/ step = "other" /\ UNCHANGED <<step, responses, outcome, text, disturbed>>
               \/ Call(x)
               \/ PrepareSend(x)
               \/ PrepareDrain(x)
    BY <1>6 DEF Exchange
  <2>2. CASE step = "other" /\ UNCHANGED <<step, responses, outcome, text, disturbed>>
    BY <1>1, <1>2, <2>2
  <2>3. ASSUME send(x), step \in Steps \ {"other"}, x.parser = "none" PROVE RejectedForConflict'
    <3>1. CASE x.valid /\ line'.failed # "no"
      <4>1. ~x.command.query /\ Understood(x.command)
        BY <2>3, <3>1, ValidUnderstood
      <4>2. Inv /\ line \in Lines /\ line_ended
        BY <2>3 DEF MethodsInv, CommandInv, SessionOrder
      <4>3. NewestIsConflict'
        BY <2>1, <3>1, <4>1, <4>2, ExecuteTolerated DEF Tolerated
      <4> QED
        BY <4>3 DEF RejectedForConflict, NewestIsConflict
    <3>2. CASE ~(x.valid /\ line'.failed # "no")
      <4>1. outcome' = Outcome("sent")
        BY <2>3, <3>2 DEF send
      <4> QED
        BY <1>1, <4>1 DEF Outcome
    <3> QED
      BY <3>1, <3>2
  <2>4. CASE Call(x)
    <3>1. step \in Steps \ {"other"} /\ ((x.parser = "none" /\ send(x)) \/ query(x))
      BY <2>4 DEF Call, may_call, Steps
    <3> QED
      BY <1>1, <2>3, <3>1, QueryNotRejected
  <2>5. CASE PrepareSend(x)
    <3>1. step \in {"clear", "format", "concurrent"} /\ send(x)
      BY <2>5 DEF PrepareSend, prepare_commands
    <3>2. x = Sent(prepare_commands[step], TRUE)
      BY <2>1, <3>1 DEF exchanges
    <3>3. step \in Steps \ {"other"} /\ x.parser = "none"
      BY <3>1, <3>2 DEF Steps, Sent
    <3> QED
      BY <2>3, <3>1, <3>3
  <2>6. CASE PrepareDrain(x)
    BY <1>1, <2>6, QueryNotRejected DEF PrepareDrain
  <2> QED
    BY <2>1, <2>2, <2>4, <2>5, <2>6
<1> QED
  BY <1>3, <1>4, <1>5, <1>6 DEF MethodsNext

-----------------------------------------------------------------------------
(* The theorems.                                                           *)

\* Every query of a line is answered, or the line failed and the error queue
\* tells why, for every command of the table, every sequence of lines of any
\* length and every capacity of the queue (handle_line(), execute()).
THEOREM LinesAnsweredOrExplained == CommandSpec => []AnsweredOrExplained
<1>1. CommandInv => AnsweredOrExplained
  BY DEF CommandInv
<1> QED
  BY <1>1, CommandInitInv, CommandNextInv, PTL DEF CommandSpec

\* The two formats are both text or both binary after every sequence of
\* commands (handle_format()).
THEOREM FormatsStayCoupled == CommandSpec => []FormatsCoupled
<1>1. CommandInv => FormatsCoupled
  BY DEF CommandInv
<1> QED
  BY <1>1, CommandInitInv, CommandNextInv, PTL DEF CommandSpec

\* Both hold as well under a client of this library and the one before it.
THEOREM SessionKeepsCommands == MethodsSpec => [](AnsweredOrExplained /\ FormatsCoupled)
<1>1. MethodsInv => AnsweredOrExplained /\ FormatsCoupled
  BY DEF MethodsInv, CommandInv
<1> QED
  BY <1>1, MethodsInitInv, MethodsNextInv, PTL DEF MethodsSpec

\* Only a read that failed or a query sent with write() puts a session of
\* SimulatorTransport out of step: otherwise every getter reads the answer to
\* its own query, for any number of calls (query(), SimulatorTransport).
THEOREM SessionInStep == MethodsSpec => []InStep
<1>1. MethodsInv => InStep
  BY DEF MethodsInv
<1> QED
  BY <1>1, MethodsInitInv, MethodsNextInv, PTL DEF MethodsSpec

\* A getter that times out on a sound link finds the reason in the error
\* queue, whatever was sent before it (query(), handle_line()).
THEOREM TimeoutHasReason == MethodsSpec => []TimeoutExplained
<1>1. MethodsInv => TimeoutExplained
  BY DEF MethodsInv
<1> QED
  BY <1>1, MethodsInitInv, MethodsNextInv, PTL DEF MethodsSpec

\* Once prepare() returns, both formats are text, more than one function can be
\* measured and no error is left, whatever an earlier client did and however
\* its calls failed; only a session that is out of step cannot rely on the
\* last (prepare(), read_all_errors()).
THEOREM PreparedSessionIsText == MethodsSpec => PreparedForText
<1>1. MethodsInit => PrepareInv
  BY DEF MethodsInit, PrepareInv
<1>2. MethodsInv /\ PrepareInv /\ [MethodsNext]_methodVars => PrepareInv'
  BY PrepareNextInv
<1>3. MethodsInv /\ PrepareInv /\ [MethodsNext]_methodVars =>
          [~text /\ text' => /\ (Is("data_format", "ASC") /\ Is("status_format", "ASC"))'
                             /\ Is("concurrent", "ON")'
                             /\ errors' = <<>> \/ disturbed]_methodVars
  BY PrepareNextInv DEF TextFormats
<1> QED
  BY <1>1, <1>2, <1>3, MethodsInitInv, MethodsNextInv, PTL DEF MethodsSpec, PreparedForText

\* A setter whose arguments are in the documented ranges is turned down for a
\* conflict of settings at most, in every state of the simulator and for every
\* capacity of its queue, which may hold the overflow error in its place (the
\* setters of NormaInstrument against the handlers).
THEOREM SettersConflictAtMost == MethodsSpec => []RejectedForConflict
<1>1. MethodsInit => RejectedForConflict
  BY DEF MethodsInit, RejectedForConflict, Outcome
<1>2. MethodsInv /\ RejectedForConflict /\ [MethodsNext]_methodVars => RejectedForConflict'
  BY RejectedNextInv
<1> QED
  BY <1>1, <1>2, MethodsInitInv, MethodsNextInv, PTL DEF MethodsSpec

\* After prepare() no getter of NormaInstrument meets an answer its parser
\* cannot read, in any state the simulator can be in and for any number of
\* calls, until the session chooses a binary format or a read fails (the
\* getters and their parsers against the handlers' answers).
THEOREM PreparedGettersRead == MethodsSpec => []TextSession
<1>1. MethodsInit => PrepareInv /\ TextInv
  BY DEF MethodsInit, PrepareInv, TextInv, TextSession
<1>2. MethodsInv /\ PrepareInv /\ TextInv /\ [MethodsNext]_methodVars => PrepareInv' /\ TextInv'
  BY PrepareNextInv, TextNextInv
<1>3. TextInv => TextSession
  BY DEF TextInv
<1> QED
  BY <1>1, <1>2, <1>3, MethodsInitInv, MethodsNextInv, PTL DEF MethodsSpec

-----------------------------------------------------------------------------
(* The error queue beneath the commands.                                   *)

\* Whatever a command does to the queue is a step of ErrorQueue.
LEMMA HeaderQueueStep ==
  ASSUME NEW c, UndefinedHeader(c)
  PROVE  [Next]_errorQueueVars
  BY FailureCodes DEF UndefinedHeader, Next

\* A command line, however many commands it has and wherever it fails, uses
\* the queue as ErrorQueue says (handle_line(), execute(), fail()).
THEOREM CommandsKeepQueue == CommandSpec => Spec
<1>1. CommandInit => Init
  BY DEF CommandInit
<1>2. CommandInv /\ [CommandNext]_commandVars => [Next]_errorQueueVars
  <2> SUFFICES ASSUME CommandInv, [CommandNext]_commandVars PROVE [Next]_errorQueueVars
    OBVIOUS
  <2>1. CASE \E n \in 2 .. MaxLine : NewLine(n)
    BY <2>1 DEF NewLine
  <2>2. CASE \E k \in Usages[usage].keys : \E c \in Commands(k) : execute(c)
    BY <2>2, ExecuteOrderly DEF CommandInv, Orderly
  <2>3. CASE \E asks \in BOOLEAN : UndefinedHeader([query |-> asks])
    BY <2>3, HeaderQueueStep
  <2>4. CASE UNCHANGED commandVars
    BY <2>4 DEF commandVars
  <2> QED
    BY <2>1, <2>2, <2>3, <2>4 DEF CommandNext, NextCommand
<1> QED
  BY <1>1, <1>2, CommandInitInv, CommandNextInv, PTL DEF CommandSpec, Spec

\* So does a session: its methods, prepare() and the client before it reach
\* the queue only through commands (NormaInstrument, SimulatorTransport).
THEOREM SessionKeepsQueue == MethodsSpec => Spec
<1>1. MethodsInit => Init
  BY DEF MethodsInit, CommandInit
<1>2. MethodsInv /\ [MethodsNext]_methodVars => [Next]_errorQueueVars
  <2> SUFFICES ASSUME MethodsInv, [MethodsNext]_methodVars PROVE [Next]_errorQueueVars
    OBVIOUS
  <2>1. CASE Exchange
    BY <2>1, ExecuteOrderly DEF Exchange, MethodsInv, CommandInv, Orderly
  <2>2. CASE OtherClient
    BY <2>2, HeaderQueueStep DEF OtherClient, NewLine
  <2>3. CASE open \/ close \/ Prepare \/ \E k \in Called : Refuse(k)
    BY <2>3 DEF open, close, Prepare, Refuse, commandVars
  <2>4. CASE WriteFails \/ PrepareWriteFails
    BY <2>4 DEF WriteFails, PrepareWriteFails, fail_write, commandVars
  <2>5. CASE UNCHANGED methodVars
    BY <2>5 DEF methodVars, commandVars
  <2> QED
    BY <2>1, <2>2, <2>3, <2>4, <2>5 DEF MethodsNext
<1> QED
  BY <1>1, <1>2, MethodsInitInv, MethodsNextInv, PTL DEF MethodsSpec, Spec
=============================================================================
