------------------------ MODULE DesktopSessionProofs ------------------------
(***************************************************************************)
(* The gate and the handles of the desktop session, and the rows of its    *)
(* table, for any number of reads under way, any function lists and any    *)
(* number of clicks.  The gate's queue is what serialises the calls:       *)
(* GateInv says that it holds every method that waits for the gate or has  *)
(* it, once, and that only its head is past WaitAsync().  From that,       *)
(* HandlesOwned says who works with which handle, and HandlesNumbered that *)
(* a connect command finds a handle nobody has used, UiInv when the UI     *)
(* thread is in a method.                                                  *)
(***************************************************************************)
EXTENDS DesktopSession, WellFoundedInduction, TLAPS

Places == {"idle", "waiting", "native", "back", "resume"}
Live == {"open", "dead"}

GateTypes ==
    /\ gate \in Seq(Methods)
    /\ pc \in [Methods -> Places]

HandleTypes ==
    /\ instrument \in Handles \union {0}
    /\ link \in [Handles -> {"none", "open", "dead", "disposed"}]
    /\ held \in [Methods -> Handles \union {0}]
    /\ result \in [Methods -> {"none", "ok", "failed"}]
    /\ clicks \in 0 .. MaxClicks

ReadTypes ==
    /\ names \in [Readers -> Functions \union {None}]
    /\ values \in [Readers -> Functions \union {None}]
    /\ disturbed \in [Readers -> BOOLEAN]
    /\ functions \in Functions

\* In the gate is every method between its WaitAsync() and its Release(), once,
\* and only its head has got further than WaitAsync().
GateInv ==
    /\ \A m \in Methods : pc[m] \in {"waiting", "native", "back"} =>
          \E i \in 1 .. Len(gate) : gate[i] = m
    /\ \A i \in 1 .. Len(gate) : pc[gate[i]] \in {"waiting", "native", "back"}
    /\ \A i, j \in 1 .. Len(gate) : gate[i] = gate[j] => i = j
    /\ \A m \in Methods : pc[m] \in {"native", "back"} => gate # <<>> /\ gate[1] = m

\* Handles are numbered in the order of the clicks that asked for them: the one
\* a connect command still has to make is free.
HandlesNumbered ==
    /\ \A h \in Handles : link[h] # "none" => h <= clicks
    /\ pc["connect"] \in {"waiting", "native"} =>
          /\ clicks > 0
          /\ \A h \in Handles : link[h] # "none" => h < clicks

\* Who works with which handle.
HandlesOwned ==
    /\ instrument # 0 => link[instrument] \in Live
    /\ \A m \in {"send"} \union Readers : pc[m] = "native" =>
          instrument # 0 /\ held[m] = instrument
    /\ pc["disconnect"] = "native" =>
          /\ instrument = 0
          /\ held["disconnect"] # 0 /\ link[held["disconnect"]] \in Live
    /\ pc["connect"] = "native" => instrument = 0
    /\ pc["connect"] = "back" /\ result["connect"] = "ok" =>
          /\ instrument = 0
          /\ held["connect"] # 0 /\ link[held["connect"]] \in Live
    /\ NoHandleLeaks

\* A read whose function list has not changed has the names, and the values, of
\* the present list.
ReadsUndisturbed ==
    \A r \in Readers :
        /\ names[r] # None => disturbed[r] \/ names[r] = functions
        /\ values[r] # None => names[r] # None /\ (disturbed[r] \/ names[r] = values[r])

CallsInv == GateTypes /\ GateInv
HandlesInv == HandleTypes /\ HandlesNumbered /\ HandlesOwned
ReadsInv == ReadTypes /\ ReadsUndisturbed /\ UndisturbedRows
SessionInv == CallsInv /\ HandlesInv /\ ReadsInv

\* The methods are different from each other.
LEMMA MethodNames ==
  /\ {"connect", "disconnect", "send"} \subseteq Methods
  /\ Readers \subseteq Methods
  /\ Polls \subseteq Readers /\ "once" \in Readers
  /\ \A r \in Readers : r \notin {"connect", "disconnect", "send"}
  BY DesktopAssumption DEF Methods, Readers

\* A session that has just been made.
LEMMA DesktopInitInv == DesktopInit => SessionInv
<1> SUFFICES ASSUME DesktopInit PROVE SessionInv
  OBVIOUS
<1> USE DesktopAssumption, MethodNames
<1>1. GateTypes /\ HandleTypes /\ ReadTypes
  BY DEF DesktopInit, GateTypes, HandleTypes, ReadTypes, Places
<1>2. GateInv
  BY DEF DesktopInit, GateInv
<1>3. HandlesNumbered /\ HandlesOwned
  BY DEF DesktopInit, HandlesNumbered, HandlesOwned, NoHandleLeaks
<1>4. ReadsUndisturbed /\ UndisturbedRows
  BY DEF DesktopInit, ReadsUndisturbed, UndisturbedRows, NoRows
<1> QED
  BY <1>1, <1>2, <1>3, <1>4 DEF SessionInv, CallsInv, HandlesInv, ReadsInv

-----------------------------------------------------------------------------
(* The gate.                                                               *)

\* What a method does with the gate: it asks for it, it goes on to its native
\* call as the head of the queue, the call completes, the gate is released,
\* and the method ends.
Moves(m, place) == pc' = [pc EXCEPT ![m] = place]
HasGate(m) == pc[m] = "back" \/ (pc[m] = "waiting" /\ Head(gate) = m)

AsksForGate(m) == pc[m] \in {"idle", "resume"} /\ Moves(m, "waiting") /\ gate' = Append(gate, m)
CallsNative(m) == pc[m] = "waiting" /\ HasGate(m) /\ Moves(m, "native") /\ UNCHANGED gate
NativeReturns(m) == pc[m] = "native" /\ Moves(m, "back") /\ UNCHANGED gate
ReleasesGate(m) == HasGate(m) /\ Moves(m, "resume") /\ Release
MethodEnds(m) == pc[m] = "resume" /\ Moves(m, "idle") /\ UNCHANGED gate

GateStep(m) ==
    \/ AsksForGate(m)
    \/ CallsNative(m)
    \/ NativeReturns(m)
    \/ ReleasesGate(m)
    \/ MethodEnds(m)

\* The calls of InvokeAsync().
LEMMA InvokingGate ==
  ASSUME NEW m \in Methods, Invoking(m)
  PROVE  GateStep(m)
<1>1. CASE NotConnected(m)
  BY <1>1 DEF NotConnected, Granted, Goes, GateStep, ReleasesGate, HasGate, Moves
<1>2. CASE Invoke(m)
  BY <1>2 DEF Invoke, Granted, Yields, sessionVars, GateStep, CallsNative, HasGate, Moves
<1>3. CASE CallFails(m)
  BY <1>3 DEF CallFails, Completes, GateStep, NativeReturns, Moves
<1>4. CASE EndInvoke(m)
  BY <1>4 DEF EndInvoke, Back, Goes, GateStep, ReleasesGate, HasGate, Moves
<1> QED
  BY <1>1, <1>2, <1>3, <1>4 DEF Invoking

\* WaitAsync().
LEMMA WaitsGate ==
  ASSUME NEW m \in Methods, pc[m] \in {"idle", "resume"}, Waits(m)
  PROVE  GateStep(m)
  BY DEF Waits, Goes, Yields, GateStep, AsksForGate, Moves

\* Every step of the session is one of these for some method, or leaves the
\* gate and the methods alone.
LEMMA GateSteps ==
  ASSUME [DesktopNext]_vars
  PROVE  (\E m \in Methods : GateStep(m)) \/ UNCHANGED <<gate, pc>>
<1> USE MethodNames
<1>1. ASSUME NEW r \in Readers, ReadStep(r) PROVE GateStep(r)
  <2>1. CASE Invoking(r)
    BY <2>1, InvokingGate
  <2>2. CASE QueryFunctions(r) \/ ReadData(r)
    BY <2>2 DEF QueryFunctions, ReadData, CallReturns, Completes, sessionVars, GateStep,
                NativeReturns, Moves
  <2>3. CASE ReadGoesOn(r)
    BY <2>3, WaitsGate DEF ReadGoesOn
  <2>4. CASE ReadFails(r) \/ ReadShows(r)
    BY <2>4 DEF ReadFails, ReadShows, Ends, Yields, sessionVars, GateStep, MethodEnds, Moves
  <2> QED
    BY <1>1, <2>1, <2>2, <2>3, <2>4 DEF ReadStep
<1>2. ASSUME NEW m \in Methods, CommandEnds(m) PROVE GateStep(m)
  BY <1>2 DEF CommandEnds, Ends, Yields, sessionVars, GateStep, MethodEnds, Moves
<1>3. CASE SendStep
  <2>1. CASE ConsoleCall
    BY <2>1 DEF ConsoleCall, CallReturns, Completes, sessionVars, GateStep, NativeReturns, Moves
  <2> QED
    BY <1>2, <1>3, <2>1, InvokingGate DEF SendStep
<1>4. CASE ConnectStep
  <2>1. CASE BeginConnect
    BY <2>1 DEF BeginConnect, Granted, Goes, Yields, GateStep, CallsNative, ReleasesGate,
                HasGate, Moves
  <2>2. CASE ConnectCall
    BY <2>2 DEF ConnectCall, Completes, GateStep, NativeReturns, Moves
  <2>3. CASE EndConnect
    BY <2>3 DEF EndConnect, Back, Goes, GateStep, ReleasesGate, HasGate, Moves
  <2> QED
    BY <1>2, <1>4, <2>1, <2>2, <2>3 DEF ConnectStep
<1>5. CASE DisconnectStep
  <2>1. CASE BeginDisconnect
    BY <2>1 DEF BeginDisconnect, Granted, Goes, Yields, GateStep, CallsNative, ReleasesGate,
                HasGate, Moves
  <2>2. CASE DisposeCall
    BY <2>2 DEF DisposeCall, Completes, GateStep, NativeReturns, Moves
  <2>3. CASE EndDisconnect
    BY <2>3 DEF EndDisconnect, Back, Goes, GateStep, ReleasesGate, HasGate, Moves
  <2> QED
    BY <1>2, <1>5, <2>1, <2>2, <2>3 DEF DisconnectStep
<1>6. CASE \E p \in Polls : PollTick(p)
  BY <1>6, WaitsGate DEF PollTick, BeginRead
<1>7. CASE UserStep
  BY <1>7, WaitsGate DEF UserStep, ReadOnce, BeginRead, SetPolling, sessionVars, ConnectCommand,
                         DisconnectCommand, SendCommand, Execute
<1>8. CASE UNCHANGED vars
  BY <1>8 DEF vars, sessionVars
<1> QED
  BY <1>1, <1>3, <1>4, <1>5, <1>6, <1>7, <1>8 DEF DesktopNext

\* The holder of the gate is its head, and nobody else is past WaitAsync().
LEMMA HolderAlone ==
  ASSUME CallsInv, NEW m \in Methods, HasGate(m) \/ pc[m] = "native"
  PROVE  /\ Len(gate) > 0 /\ gate[1] = m
         /\ \A k \in Methods \ {m} : pc[k] \notin {"native", "back"}
<1>1. gate # <<>> /\ gate[1] = m
  <2>1. CASE pc[m] \in {"native", "back"}
    BY <2>1 DEF CallsInv, GateInv
  <2>2. CASE pc[m] = "waiting" /\ Head(gate) = m
    BY <2>2 DEF CallsInv, GateInv, GateTypes
  <2> QED
    BY <2>1, <2>2 DEF HasGate
<1>2. Len(gate) > 0
  BY <1>1 DEF CallsInv, GateTypes
<1> QED
  BY <1>1, <1>2 DEF CallsInv, GateInv

\* The gate keeps its order under each of these steps.
LEMMA GateStepInv ==
  ASSUME CallsInv, NEW m \in Methods, GateStep(m)
  PROVE  CallsInv'
<1>1. /\ gate \in Seq(Methods) /\ Len(gate) \in Nat /\ pc \in [Methods -> Places]
      /\ \A i \in 1 .. Len(gate) : gate[i] \in Methods
  BY DEF CallsInv, GateTypes
<1>2. CASE AsksForGate(m)
  <2>1. /\ gate' \in Seq(Methods) /\ Len(gate') = Len(gate) + 1 /\ gate'[Len(gate) + 1] = m
        /\ \A i \in 1 .. Len(gate) : gate'[i] = gate[i]
    BY <1>1, <1>2 DEF AsksForGate
  <2>2. /\ pc' \in [Methods -> Places] /\ pc'[m] = "waiting" /\ pc[m] \in {"idle", "resume"}
        /\ \A k \in Methods \ {m} : pc'[k] = pc[k]
    BY <1>1, <1>2 DEF AsksForGate, Moves, Places
  <2>3. \A i \in 1 .. Len(gate) : gate[i] # m
    BY <2>2 DEF CallsInv, GateInv
  <2>4. ASSUME NEW k \in Methods, pc'[k] \in {"waiting", "native", "back"}
        PROVE  \E i \in 1 .. Len(gate') : gate'[i] = k
    <3>1. CASE k = m
      BY <1>1, <2>1, <3>1
    <3>2. CASE k # m
      <4>1. PICK i \in 1 .. Len(gate) : gate[i] = k
        BY <2>2, <2>4, <3>2 DEF CallsInv, GateInv
      <4> QED
        BY <1>1, <2>1, <4>1
    <3> QED
      BY <3>1, <3>2
  <2>5. ASSUME NEW i \in 1 .. Len(gate')
        PROVE  pc'[gate'[i]] \in {"waiting", "native", "back"}
    BY <1>1, <2>1, <2>2, <2>3 DEF CallsInv, GateInv
  <2>6. ASSUME NEW i \in 1 .. Len(gate'), NEW j \in 1 .. Len(gate'), gate'[i] = gate'[j]
        PROVE  i = j
    BY <1>1, <2>1, <2>3, <2>6 DEF CallsInv, GateInv
  <2>7. ASSUME NEW k \in Methods, pc'[k] \in {"native", "back"}
        PROVE  gate' # <<>> /\ gate'[1] = k
    <3>1. gate # <<>> /\ gate[1] = k
      BY <2>2, <2>7 DEF CallsInv, GateInv
    <3>2. 1 \in 1 .. Len(gate)
      BY <1>1, <3>1
    <3>3. Len(gate') # 0
      BY <1>1, <2>1
    <3> QED
      BY <2>1, <3>1, <3>2, <3>3
  <2> QED
    BY <2>1, <2>2, <2>4, <2>5, <2>6, <2>7 DEF CallsInv, GateTypes, GateInv
<1>3. CASE CallsNative(m) \/ NativeReturns(m)
  <2>1. /\ gate' = gate /\ pc' \in [Methods -> Places] /\ pc'[m] \in {"native", "back"}
        /\ \A k \in Methods \ {m} : pc'[k] = pc[k]
    BY <1>1, <1>3 DEF CallsNative, NativeReturns, Moves, Places
  <2>2. /\ Len(gate) > 0 /\ gate[1] = m
    BY <1>3, HolderAlone DEF CallsNative, NativeReturns
  <2>3. gate # <<>>
    BY <1>1, <2>2
  <2>4. ASSUME NEW k \in Methods, pc'[k] \in {"waiting", "native", "back"}
        PROVE  \E i \in 1 .. Len(gate) : gate[i] = k
    <3>1. CASE k = m
      BY <1>1, <2>2, <3>1
    <3>2. CASE k # m
      BY <2>1, <2>4, <3>2 DEF CallsInv, GateInv
    <3> QED
      BY <3>1, <3>2
  <2>5. ASSUME NEW k \in Methods, pc'[k] \in {"native", "back"}
        PROVE  gate # <<>> /\ gate[1] = k
    BY <2>1, <2>2, <2>3, <2>5 DEF CallsInv, GateInv
  <2> QED
    BY <1>1, <2>1, <2>4, <2>5 DEF CallsInv, GateTypes, GateInv
<1>4. CASE ReleasesGate(m)
  <2>1. /\ Len(gate) > 0 /\ gate[1] = m
        /\ \A k \in Methods \ {m} : pc[k] \notin {"native", "back"}
    BY <1>4, HolderAlone DEF ReleasesGate
  <2>2. /\ gate' \in Seq(Methods) /\ Len(gate') = Len(gate) - 1
        /\ \A i \in 1 .. Len(gate') : gate'[i] = gate[i + 1]
    <3>1. gate # <<>>
      BY <1>1, <2>1
    <3> QED
      BY <1>1, <1>4, <3>1 DEF ReleasesGate, Release
  <2>3. /\ pc' \in [Methods -> Places] /\ pc'[m] = "resume"
        /\ \A k \in Methods \ {m} : pc'[k] = pc[k]
    BY <1>1, <1>4 DEF ReleasesGate, Moves, Places
  <2>4. ASSUME NEW k \in Methods, pc'[k] \in {"waiting", "native", "back"}
        PROVE  \E i \in 1 .. Len(gate') : gate'[i] = k
    <3>1. k # m /\ pc[k] \in {"waiting", "native", "back"}
      BY <2>3, <2>4
    <3>2. PICK i \in 1 .. Len(gate) : gate[i] = k
      BY <3>1 DEF CallsInv, GateInv
    <3>3. i # 1
      BY <2>1, <3>1, <3>2
    <3>4. i - 1 \in 1 .. Len(gate') /\ (i - 1) + 1 = i
      BY <1>1, <2>2, <3>3
    <3> QED
      BY <2>2, <3>2, <3>4
  <2>5. ASSUME NEW i \in 1 .. Len(gate')
        PROVE  pc'[gate'[i]] \in {"waiting", "native", "back"}
    <3>1. i + 1 \in 1 .. Len(gate) /\ i + 1 # 1
      BY <1>1, <2>2
    <3>2. gate[i + 1] # m /\ gate[i + 1] \in Methods
      BY <1>1, <2>1, <3>1 DEF CallsInv, GateInv
    <3> QED
      BY <2>2, <2>3, <3>1, <3>2 DEF CallsInv, GateInv
  <2>6. ASSUME NEW i \in 1 .. Len(gate'), NEW j \in 1 .. Len(gate'), gate'[i] = gate'[j]
        PROVE  i = j
    <3>1. i + 1 \in 1 .. Len(gate) /\ j + 1 \in 1 .. Len(gate)
      BY <1>1, <2>2
    <3>2. i + 1 = j + 1
      BY <2>2, <2>6, <3>1 DEF CallsInv, GateInv
    <3> QED
      BY <3>2
  <2>7. \A k \in Methods : pc'[k] \notin {"native", "back"}
    BY <2>1, <2>3
  <2> QED
    BY <2>2, <2>3, <2>4, <2>5, <2>6, <2>7 DEF CallsInv, GateTypes, GateInv
<1>5. CASE MethodEnds(m)
  <2>1. /\ gate' = gate /\ pc' \in [Methods -> Places] /\ pc'[m] = "idle" /\ pc[m] = "resume"
        /\ \A k \in Methods \ {m} : pc'[k] = pc[k]
    BY <1>1, <1>5 DEF MethodEnds, Moves, Places
  <2>2. \A i \in 1 .. Len(gate) : gate[i] # m
    BY <2>1 DEF CallsInv, GateInv
  <2> QED
    BY <1>1, <2>1, <2>2 DEF CallsInv, GateTypes, GateInv
<1> QED
  BY <1>2, <1>3, <1>4, <1>5 DEF GateStep

-----------------------------------------------------------------------------
(* The handles.                                                            *)

\* A connect command that is on the thread pool finds a handle that was never
\* used: there are fewer of the used ones than clicks.
LEMMA NewHandleFree ==
  ASSUME HandleTypes, HandlesNumbered, pc["connect"] = "native"
  PROVE  NewHandle \in Handles /\ NewHandle <= clicks /\ link[NewHandle] = "none"
<1> USE DesktopAssumption
<1> DEFINE free == {h \in Handles : link[h] = "none"}
           less == OpToRel(<, Nat)
<1>1. clicks \in free /\ free \subseteq Nat
  BY DEF HandleTypes, HandlesNumbered, Handles
<1>2. PICK h \in free : \A g \in free : <<g, h>> \notin less
  <2>1. IsWellFoundedOn(less, Nat)
    BY NatLessThanWellFounded
  <2>2. free # {}
    BY <1>1
  <2> HIDE DEF free, less
  <2> QED
    BY <1>1, <2>1, <2>2, WFMin
<1>3. h \in Handles /\ link[h] = "none" /\ \A g \in 1 .. (h - 1) : link[g] # "none"
  <2>1. ASSUME NEW g \in 1 .. (h - 1), link[g] = "none" PROVE FALSE
    <3>1. g \in free /\ g \in Nat /\ h \in Nat /\ g < h
      BY <1>1, <2>1 DEF Handles
    <3>2. <<g, h>> \in less
      BY <3>1 DEF OpToRel
    <3> QED
      BY <1>2, <3>1, <3>2
  <2> QED
    BY <2>1
<1>4. /\ NewHandle \in Handles /\ link[NewHandle] = "none"
      /\ \A g \in 1 .. (NewHandle - 1) : link[g] # "none"
  <2> HIDE DEF free, less
  <2> QED
    BY <1>3 DEF NewHandle
<1>5. NewHandle <= clicks
  <2>1. ASSUME clicks < NewHandle PROVE FALSE
    <3>1. clicks \in 1 .. (NewHandle - 1)
      BY <1>1, <1>4, <2>1 DEF Handles
    <3> QED
      BY <1>1, <1>4, <3>1
  <2> QED
    BY <1>1, <1>4, <2>1 DEF Handles
<1> QED
  BY <1>4, <1>5

\* A method goes on without touching a handle, its own included.
Quiet(m, place) ==
    /\ pc[m] # "native"
    /\ m = "connect" => pc[m] # "back" \/ result[m] # "ok"
    /\ Moves(m, place)
    /\ UNCHANGED <<instrument, link>>
    /\ held' \in [Methods -> Handles \union {0}]
    /\ result' \in [Methods -> {"none", "ok", "failed"}]
    /\ \A k \in Methods \ {m} : held'[k] = held[k] /\ result'[k] = result[k]
    /\ clicks' \in 0 .. MaxClicks /\ clicks' >= clicks
    /\ m = "connect" /\ place = "waiting" => clicks' > clicks

\* Every handle stays with whom it was.
LEMMA QuietHandles ==
  ASSUME CallsInv, HandlesInv, NEW m \in Methods, NEW place \in {"idle", "waiting", "resume"},
         Quiet(m, place)
  PROVE  HandlesInv'
<1> USE MethodNames
<1>1. /\ pc'[m] = place /\ \A k \in Methods \ {m} : pc'[k] = pc[k]
      /\ UNCHANGED <<instrument, link>>
      /\ \A k \in Methods : pc'[k] \in {"native", "back"} =>
            k # m /\ pc'[k] = pc[k] /\ held'[k] = held[k] /\ result'[k] = result[k]
  BY DEF CallsInv, GateTypes, Quiet, Moves
<1>2. HandleTypes'
  BY <1>1 DEF HandlesInv, HandleTypes, Quiet
<1>3. HandlesNumbered'
  <2>1. clicks \in Nat /\ clicks' \in Nat /\ clicks' >= clicks
    BY DesktopAssumption DEF HandlesInv, HandleTypes, Quiet
  <2>2. \A h \in Handles : h \in Nat
    BY DesktopAssumption DEF Handles
  <2>3. CASE pc'["connect"] \in {"waiting", "native"} /\ m # "connect"
    BY <1>1, <2>1, <2>2, <2>3 DEF HandlesInv, HandlesNumbered
  <2>4. CASE pc'["connect"] \in {"waiting", "native"} /\ m = "connect"
    <3>1. clicks' > clicks
      BY <1>1, <2>4 DEF Quiet
    <3> QED
      BY <1>1, <2>1, <2>2, <3>1 DEF HandlesInv, HandlesNumbered
  <2>5. CASE pc'["connect"] \notin {"waiting", "native"}
    BY <1>1, <2>1, <2>2, <2>5 DEF HandlesInv, HandlesNumbered
  <2> QED
    BY <2>3, <2>4, <2>5
<1>4. HandlesOwned'
  <2>1. NoHandleLeaks'
    <3>1. m = "connect" => ~(pc[m] = "back" /\ result[m] = "ok")
      BY DEF Quiet
    <3>2. m = "disconnect" => pc[m] # "native"
      BY DEF Quiet
    <3> QED
      BY <1>1, <3>1, <3>2 DEF HandlesInv, HandlesOwned, NoHandleLeaks
  <2> QED
    BY <1>1, <2>1 DEF HandlesInv, HandlesOwned
<1> QED
  BY <1>2, <1>3, <1>4 DEF HandlesInv

\* The steps that are quiet: those of InvokeAsync() around its call,
LEMMA InvokingQuiet ==
  ASSUME HandlesInv, NEW m \in {"send"} \union Readers, NotConnected(m) \/ EndInvoke(m)
  PROVE  Quiet(m, "resume")
  BY MethodNames, DesktopAssumption
  DEF NotConnected, EndInvoke, Granted, Back, Goes, Throws, Release, locals, Quiet, Moves,
      HandlesInv, HandleTypes

\* the ends of the commands,
LEMMA EndsQuiet ==
  ASSUME HandlesInv, NEW m \in Methods, CommandEnds(m)
  PROVE  Quiet(m, "idle")
  BY DesktopAssumption
  DEF CommandEnds, Ends, Yields, sessionVars, Quiet, Moves, HandlesInv, HandleTypes

\* the steps of ReadAsync() on the UI thread,
LEMMA ReadQuiet ==
  ASSUME HandlesInv, NEW r \in Readers, ReadGoesOn(r) \/ ReadFails(r) \/ ReadShows(r) \/ PollTick(r)
  PROVE  \E place \in {"idle", "waiting", "resume"} : Quiet(r, place)
<1> USE MethodNames, DesktopAssumption
<1>1. CASE ReadGoesOn(r) \/ PollTick(r)
  BY <1>1 DEF ReadGoesOn, PollTick, BeginRead, Waits, Goes, Yields, locals, viewVars, Quiet, Moves,
              HandlesInv, HandleTypes
<1>2. CASE ReadFails(r) \/ ReadShows(r)
  BY <1>2 DEF ReadFails, ReadShows, ForgetRead, Ends, Yields, sessionVars, Quiet, Moves,
              HandlesInv, HandleTypes
<1> QED
  BY <1>1, <1>2

\* and what the user starts, setting the poll timer apart.
LEMMA UserQuiet ==
  ASSUME HandlesInv, ReadOnce \/ ConnectCommand \/ DisconnectCommand \/ SendCommand
  PROVE  \E m \in Methods : Quiet(m, "waiting")
<1> USE MethodNames, DesktopAssumption
<1>1. CASE ReadOnce
  <2>1. Quiet("once", "waiting")
    BY <1>1 DEF ReadOnce, Clicks, BeginRead, Waits, Goes, Yields, locals, Quiet, Moves,
                HandlesInv, HandleTypes
  <2> QED
    BY <2>1
<1>2. ASSUME NEW m \in Methods, Execute(m) PROVE Quiet(m, "waiting")
  BY <1>2 DEF Execute, Clicks, Waits, Goes, Yields, Quiet, Moves, HandlesInv, HandleTypes
<1> QED
  BY <1>1, <1>2 DEF ConnectCommand, DisconnectCommand, SendCommand

\* InvokeAsync() hands the session's handle to its action.
LEMMA InvokeHandles ==
  ASSUME CallsInv, HandlesInv, NEW m \in {"send"} \union Readers, Invoke(m)
  PROVE  HandlesInv'
<1> USE MethodNames
<1>1. /\ instrument # 0 /\ held'[m] = instrument /\ pc'[m] = "native" /\ HasGate(m)
      /\ UNCHANGED <<instrument, link, result, clicks>>
      /\ \A k \in Methods \ {m} : pc'[k] = pc[k] /\ held'[k] = held[k]
      /\ held' \in [Methods -> Handles \union {0}]
  BY DEF CallsInv, GateTypes, HandlesInv, HandleTypes, Invoke, Granted, HasGate, Yields, sessionVars
<1>2. \A k \in Methods \ {m} : pc[k] \notin {"native", "back"}
  BY <1>1, HolderAlone
<1>3. HandleTypes' /\ HandlesNumbered'
  BY <1>1, <1>2 DEF HandlesInv, HandleTypes, HandlesNumbered
<1>4. HandlesOwned'
  BY <1>1, <1>2 DEF HandlesInv, HandlesOwned, NoHandleLeaks
<1> QED
  BY <1>3, <1>4 DEF HandlesInv

\* A native call on the session's handle, which may die of it.
LEMMA CallHandles ==
  ASSUME CallsInv, HandlesInv, NEW m \in {"send"} \union Readers,
         CallReturns(m) \/ CallFails(m)
  PROVE  HandlesInv'
<1> USE MethodNames
<1>1. /\ pc[m] = "native" /\ pc'[m] = "back"
      /\ UNCHANGED <<instrument, held, clicks>>
      /\ \A k \in Methods \ {m} : pc'[k] = pc[k] /\ result'[k] = result[k]
      /\ result' \in [Methods -> {"none", "ok", "failed"}]
  BY DEF CallsInv, GateTypes, HandlesInv, HandleTypes, CallReturns, CallFails, Completes, Throws,
         sessionVars
<1>2. \A k \in Methods \ {m} : pc[k] \notin {"native", "back"}
  BY <1>1, HolderAlone
<1>3. instrument # 0 /\ held[m] = instrument /\ instrument \in Handles
  BY <1>1 DEF HandlesInv, HandleTypes, HandlesOwned
<1>4. /\ link' \in [Handles -> {"none", "open", "dead", "disposed"}]
      /\ \A h \in Handles : /\ link'[h] \in Live <=> link[h] \in Live
                            /\ link'[h] = "none" <=> link[h] = "none"
  BY <1>3 DEF HandlesInv, HandleTypes, CallReturns, CallFails, sessionVars, Live
<1>5. HandleTypes' /\ HandlesNumbered'
  BY <1>1, <1>2, <1>4 DEF HandlesInv, HandleTypes, HandlesNumbered
<1>6. NoHandleLeaks'
  <2>1. ASSUME NEW h \in Handles, link'[h] \in Live PROVE h = instrument
    BY <1>1, <1>2, <1>4, <2>1 DEF HandlesInv, HandlesOwned, NoHandleLeaks, Live
  <2> QED
    BY <1>1, <2>1 DEF NoHandleLeaks, Live
<1>7. HandlesOwned'
  BY <1>1, <1>2, <1>3, <1>4, <1>6 DEF HandlesInv, HandlesOwned
<1> QED
  BY <1>5, <1>7 DEF HandlesInv

\* ConnectAsync(): the new handle goes from the command to the session, or is
\* disposed of.
LEMMA ConnectHandles ==
  ASSUME CallsInv, HandlesInv, BeginConnect \/ ConnectCall \/ EndConnect
  PROVE  HandlesInv'
<1> USE MethodNames
<1>0. HasGate("connect") \/ pc["connect"] = "native"
  BY DEF BeginConnect, ConnectCall, EndConnect, Granted, Completes, Back, HasGate
<1>1. \A k \in Methods \ {"connect"} : pc[k] \notin {"native", "back"}
  BY <1>0, HolderAlone
<1>2. ASSUME NEW place \in Places, Moves("connect", place)
      PROVE  pc'["connect"] = place /\ \A k \in Methods \ {"connect"} : pc'[k] = pc[k]
  BY <1>2 DEF CallsInv, GateTypes, Moves
<1>3. CASE BeginConnect
  <2>1. CASE instrument = 0
    <3>1. /\ pc'["connect"] = "native" /\ \A k \in Methods \ {"connect"} : pc'[k] = pc[k]
          /\ pc["connect"] = "waiting" /\ UNCHANGED <<instrument, link, held, result, clicks>>
      BY <1>2, <1>3, <2>1 DEF BeginConnect, Granted, Yields, locals, Moves, Places
    <3>2. HandleTypes' /\ HandlesNumbered'
      BY <3>1 DEF HandlesInv, HandleTypes, HandlesNumbered
    <3>3. HandlesOwned'
      BY <1>1, <2>1, <3>1 DEF HandlesInv, HandlesOwned, NoHandleLeaks
    <3> QED
      BY <3>2, <3>3 DEF HandlesInv
  <2>2. CASE instrument # 0
    <3>1. Quiet("connect", "resume")
      BY <1>3, <2>2, DesktopAssumption
      DEF BeginConnect, Granted, Goes, Throws, Release, Quiet, Moves, HandlesInv, HandleTypes
    <3> QED
      BY <3>1, QuietHandles
  <2> QED
    BY <2>1, <2>2
<1>4. CASE ConnectCall
  <2>1. /\ pc["connect"] = "native" /\ UNCHANGED <<instrument, clicks>>
        /\ pc'["connect"] = "back" /\ \A k \in Methods \ {"connect"} : pc'[k] = pc[k]
    BY <1>2, <1>4 DEF ConnectCall, Completes, Moves, Places
  <2>2. NewHandle \in Handles /\ NewHandle <= clicks /\ link[NewHandle] = "none"
    BY <2>1, NewHandleFree DEF HandlesInv
  <2>3. \A h \in Handles : link[h] \notin Live
    BY <1>1, <2>1, DesktopAssumption DEF HandlesInv, HandlesOwned, NoHandleLeaks, Live, Handles
  <2>4. CASE /\ link' = [link EXCEPT ![NewHandle] = "open"]
             /\ held' = [held EXCEPT !["connect"] = NewHandle]
             /\ result' = [result EXCEPT !["connect"] = "ok"]
    <3>0. NewHandle # 0
      BY <2>2, DesktopAssumption DEF Handles
    <3>1. HandleTypes'
      BY <2>1, <2>2, <2>4 DEF HandlesInv, HandleTypes
    <3>2. HandlesNumbered'
      BY <2>1, <2>2, <2>4 DEF HandlesInv, HandleTypes, HandlesNumbered
    <3>3. held'["connect"] = NewHandle /\ link'[NewHandle] = "open"
      BY <2>2, <2>4 DEF HandlesInv, HandleTypes
    <3>4. NoHandleLeaks'
      <4>1. ASSUME NEW h \in Handles, h # NewHandle PROVE link'[h] \notin Live
        BY <2>2, <2>3, <2>4, <4>1 DEF HandlesInv, HandleTypes
      <4>2. result'["connect"] = "ok"
        BY <2>4 DEF HandlesInv, HandleTypes
      <4> QED
        BY <2>1, <3>3, <4>1, <4>2 DEF NoHandleLeaks, Live
    <3>5. HandlesOwned'
      BY <1>1, <2>1, <2>2, <3>0, <3>3, <3>4 DEF HandlesInv, HandlesOwned, Live
    <3> QED
      BY <3>1, <3>2, <3>5 DEF HandlesInv
  <2>5. CASE (FirstQueryFails \/ UNCHANGED link) /\ Throws("connect")
    <3>1. HandleTypes' /\ result'["connect"] = "failed"
      BY <2>1, <2>2, <2>5 DEF HandlesInv, HandleTypes, FirstQueryFails, Throws
    <3>2. HandlesNumbered'
      BY <2>1, <2>2, <2>5 DEF HandlesInv, HandleTypes, HandlesNumbered, FirstQueryFails
    <3>3. \A h \in Handles : link'[h] \notin Live
      BY <2>2, <2>3, <2>5 DEF HandlesInv, HandleTypes, FirstQueryFails, Live
    <3>4. HandlesOwned'
      BY <1>1, <2>1, <3>1, <3>3 DEF HandlesInv, HandlesOwned, NoHandleLeaks, Live
    <3> QED
      BY <3>1, <3>2, <3>4 DEF HandlesInv
  <2> QED
    BY <1>4, <2>4, <2>5 DEF ConnectCall
<1>5. CASE EndConnect
  <2>1. /\ pc["connect"] = "back" /\ UNCHANGED <<link, held, result, clicks>>
        /\ pc'["connect"] = "resume" /\ \A k \in Methods \ {"connect"} : pc'[k] = pc[k]
    BY <1>2, <1>5 DEF EndConnect, Back, Goes, locals, Moves, Places
  <2>2. CASE result["connect"] = "ok"
    <3>1. instrument' = held["connect"]
      BY <1>5, <2>2 DEF EndConnect
    <3>2. HandleTypes' /\ HandlesNumbered'
      BY <2>1, <3>1 DEF HandlesInv, HandleTypes, HandlesNumbered
    <3>3. NoHandleLeaks'
      BY <1>1, <2>1, <2>2, <3>1 DEF HandlesInv, HandleTypes, HandlesOwned, NoHandleLeaks, Handles
    <3>4. HandlesOwned'
      BY <1>1, <2>1, <2>2, <3>1, <3>3 DEF HandlesInv, HandlesOwned
    <3> QED
      BY <3>2, <3>4 DEF HandlesInv
  <2>3. CASE result["connect"] # "ok"
    <3>1. Quiet("connect", "resume")
      BY <1>5, <2>1, <2>3, DesktopAssumption
      DEF EndConnect, Goes, Quiet, Moves, HandlesInv, HandleTypes
    <3> QED
      BY <3>1, QuietHandles
  <2> QED
    BY <2>2, <2>3
<1> QED
  BY <1>3, <1>4, <1>5

\* DisconnectAsync(): the session's handle goes to the command and is disposed
\* of.
LEMMA DisconnectHandles ==
  ASSUME CallsInv, HandlesInv, BeginDisconnect \/ DisposeCall \/ EndDisconnect
  PROVE  HandlesInv'
<1> USE MethodNames
<1>0. HasGate("disconnect") \/ pc["disconnect"] = "native"
  BY DEF BeginDisconnect, DisposeCall, EndDisconnect, Granted, Completes, Back, HasGate
<1>1. \A k \in Methods \ {"disconnect"} : pc[k] \notin {"native", "back"}
  BY <1>0, HolderAlone
<1>2. ASSUME NEW place \in Places, Moves("disconnect", place)
      PROVE  pc'["disconnect"] = place /\ \A k \in Methods \ {"disconnect"} : pc'[k] = pc[k]
  BY <1>2 DEF CallsInv, GateTypes, Moves
<1>3. CASE BeginDisconnect /\ instrument # 0
  <2>1. /\ pc["disconnect"] = "waiting" /\ pc'["disconnect"] = "native"
        /\ \A k \in Methods \ {"disconnect"} : pc'[k] = pc[k]
        /\ instrument' = 0 /\ UNCHANGED <<link, result, clicks>>
        /\ held' = [held EXCEPT !["disconnect"] = instrument]
    BY <1>2, <1>3 DEF BeginDisconnect, Granted, Yields, Moves, Places
  <2>2. HandleTypes' /\ HandlesNumbered'
    BY <2>1 DEF HandlesInv, HandleTypes, HandlesNumbered
  <2>3. held'["disconnect"] = instrument
    BY <2>1 DEF HandlesInv, HandleTypes
  <2>4. HandlesOwned'
    BY <1>1, <1>3, <2>1, <2>3 DEF HandlesInv, HandlesOwned, NoHandleLeaks
  <2> QED
    BY <2>2, <2>4 DEF HandlesInv
<1>4. CASE DisposeCall
  <2>1. /\ pc["disconnect"] = "native" /\ pc'["disconnect"] = "back"
        /\ \A k \in Methods \ {"disconnect"} : pc'[k] = pc[k]
        /\ UNCHANGED <<instrument, held, result, clicks>>
        /\ link' = [link EXCEPT ![held["disconnect"]] = "disposed"]
    BY <1>2, <1>4 DEF DisposeCall, Completes, locals, Moves, Places
  <2>2. /\ instrument = 0 /\ held["disconnect"] \in Handles
        /\ link[held["disconnect"]] \in Live
    BY <2>1 DEF HandlesInv, HandleTypes, HandlesOwned
  <2>3. HandleTypes'
    BY <2>1 DEF HandlesInv, HandleTypes
  <2>4. HandlesNumbered'
    BY <2>1, <2>2 DEF HandlesInv, HandleTypes, HandlesNumbered, Live
  <2>5. \A h \in Handles : link'[h] \notin Live
    <3>1. \A h \in Handles : link[h] \in Live => h = held["disconnect"]
      BY <1>1, <2>1, <2>2, DesktopAssumption
      DEF HandlesInv, HandlesOwned, NoHandleLeaks, Live, Handles
    <3> QED
      BY <2>1, <2>2, <3>1 DEF HandlesInv, HandleTypes, Live
  <2>6. HandlesOwned'
    BY <1>1, <2>1, <2>2, <2>5 DEF HandlesInv, HandlesOwned, NoHandleLeaks, Live
  <2> QED
    BY <2>3, <2>4, <2>6 DEF HandlesInv
<1>5. CASE EndDisconnect \/ (BeginDisconnect /\ instrument = 0)
  <2>1. Quiet("disconnect", "resume")
    BY <1>5, DesktopAssumption
    DEF EndDisconnect, BeginDisconnect, Granted, Back, Goes, Release, locals, Quiet, Moves,
        HandlesInv, HandleTypes
  <2> QED
    BY <2>1, QuietHandles
<1> QED
  BY <1>3, <1>4, <1>5

\* Every step leaves the handles with their owners.
LEMMA HandlesNext ==
  ASSUME CallsInv, HandlesInv, [DesktopNext]_vars
  PROVE  HandlesInv'
<1> USE MethodNames
<1>1. ASSUME NEW m \in {"send"} \union Readers, Invoking(m) PROVE HandlesInv'
  BY <1>1, InvokingQuiet, QuietHandles, InvokeHandles, CallHandles DEF Invoking
<1>2. ASSUME NEW r \in Readers, ReadStep(r) PROVE HandlesInv'
  BY <1>1, <1>2, ReadQuiet, QuietHandles, CallHandles DEF ReadStep, QueryFunctions, ReadData
<1>3. ASSUME NEW m \in Methods, CommandEnds(m) PROVE HandlesInv'
  BY <1>3, EndsQuiet, QuietHandles
<1>4. CASE SendStep
  BY <1>1, <1>3, <1>4, CallHandles DEF SendStep, ConsoleCall
<1>5. CASE ConnectStep
  BY <1>3, <1>5, ConnectHandles DEF ConnectStep
<1>6. CASE DisconnectStep
  BY <1>3, <1>6, DisconnectHandles DEF DisconnectStep
<1>7. CASE \E p \in Polls : PollTick(p)
  BY <1>7, ReadQuiet, QuietHandles
<1>8. CASE SetPolling \/ UNCHANGED vars
  <2>1. UNCHANGED <<instrument, link, pc, held, result>>
    BY <1>8 DEF SetPolling, vars, sessionVars, locals
  <2>2. clicks' \in 0 .. MaxClicks /\ clicks' >= clicks
    BY <1>8, DesktopAssumption DEF SetPolling, Clicks, vars, HandlesInv, HandleTypes
  <2>3. HandleTypes'
    BY <2>1, <2>2 DEF HandlesInv, HandleTypes
  <2>4. HandlesNumbered'
    BY <2>1, <2>2, DesktopAssumption DEF HandlesInv, HandleTypes, HandlesNumbered, Handles
  <2>5. HandlesOwned'
    BY <2>1 DEF HandlesInv, HandlesOwned, NoHandleLeaks
  <2> QED
    BY <2>3, <2>4, <2>5 DEF HandlesInv
<1>9. CASE ReadOnce \/ ConnectCommand \/ DisconnectCommand \/ SendCommand
  BY <1>9, UserQuiet, QuietHandles
<1> QED
  BY <1>2, <1>4, <1>5, <1>6, <1>7, <1>8, <1>9 DEF DesktopNext, UserStep

-----------------------------------------------------------------------------
(* The rows.                                                               *)

\* A step that touches no read.
LEMMA ReadsKept ==
  ASSUME ReadsInv, UNCHANGED <<names, values, disturbed, functions, Rows>>
  PROVE  ReadsInv'
  BY DEF ReadsInv, ReadTypes, ReadsUndisturbed, UndisturbedRows

\* A read gets the names, then the values, of the list at that moment.
LEMMA AnswerReads ==
  ASSUME ReadsInv, NEW r \in Readers, QueryFunctions(r) \/ ReadData(r)
  PROVE  ReadsInv'
<1>1. CASE QueryFunctions(r)
  <2>1. /\ names[r] = None /\ names' = [names EXCEPT ![r] = functions]
        /\ UNCHANGED <<values, disturbed, functions, Rows>>
    BY <1>1 DEF QueryFunctions, CallReturns, viewVars
  <2>2. ReadTypes' /\ UndisturbedRows'
    BY <2>1 DEF ReadsInv, ReadTypes, UndisturbedRows
  <2>3. ReadsUndisturbed'
    BY <2>1 DEF ReadsInv, ReadTypes, ReadsUndisturbed
  <2> QED
    BY <2>2, <2>3 DEF ReadsInv
<1>2. CASE ReadData(r)
  <2>1. /\ names[r] # None /\ values' = [values EXCEPT ![r] = functions]
        /\ UNCHANGED <<names, disturbed, functions, Rows>>
    BY <1>2 DEF ReadData, CallReturns, viewVars
  <2>2. ReadTypes' /\ UndisturbedRows'
    BY <2>1 DEF ReadsInv, ReadTypes, UndisturbedRows
  <2>3. ReadsUndisturbed'
    BY <2>1 DEF ReadsInv, ReadTypes, ReadsUndisturbed
  <2> QED
    BY <2>2, <2>3 DEF ReadsInv
<1> QED
  BY <1>1, <1>2

\* The console may change the list under every read that has its names.
LEMMA ConsoleReads ==
  ASSUME ReadsInv, ConsoleCall
  PROVE  ReadsInv'
<1>1. /\ functions' \in Functions /\ UNCHANGED <<names, values, Rows>>
      /\ disturbed' = [r \in Readers |-> \/ disturbed[r]
                                         \/ names[r] # None /\ functions' # functions]
  BY DEF ReadsInv, ReadTypes, ConsoleCall, CallReturns, viewVars
<1>2. ReadTypes' /\ UndisturbedRows'
  BY <1>1 DEF ReadsInv, ReadTypes, UndisturbedRows
<1>3. ASSUME NEW r \in Readers
      PROVE  /\ names'[r] # None => disturbed'[r] \/ names'[r] = functions'
             /\ values'[r] # None =>
                   names'[r] # None /\ (disturbed'[r] \/ names'[r] = values'[r])
  BY <1>1 DEF ReadsInv, ReadsUndisturbed
<1> QED
  BY <1>2, <1>3 DEF ReadsInv, ReadsUndisturbed

\* A read ends, and its values may be shown under its names.
LEMMA EndsRead ==
  ASSUME ReadsInv, NEW r \in Readers, ReadFails(r) \/ ReadShows(r)
  PROVE  ReadsInv'
<1>1. /\ names' = [names EXCEPT ![r] = None] /\ values' = [values EXCEPT ![r] = None]
      /\ disturbed' = [disturbed EXCEPT ![r] = FALSE] /\ UNCHANGED functions
  BY DEF ReadFails, ReadShows, ForgetRead
<1>2. ReadTypes'
  BY <1>1 DEF ReadsInv, ReadTypes
<1>3. ReadsUndisturbed'
  BY <1>1 DEF ReadsInv, ReadTypes, ReadsUndisturbed
<1>4. UndisturbedRows'
  <2>1. CASE ReadFails(r)
    BY <2>1 DEF ReadFails, ReadsInv, UndisturbedRows
  <2>2. CASE ReadShows(r)
    BY <2>2 DEF ReadShows, ReadsInv, ReadsUndisturbed, UndisturbedRows
  <2> QED
    BY <2>1, <2>2
<1> QED
  BY <1>2, <1>3, <1>4 DEF ReadsInv

\* Every step keeps the reads to the list they began with, or marks them.
LEMMA ReadsNext ==
  ASSUME ReadsInv, [DesktopNext]_vars
  PROVE  ReadsInv'
<1> USE MethodNames
<1> DEFINE kept == UNCHANGED <<names, values, disturbed, functions, Rows>>
<1>1. ASSUME NEW m, Invoking(m) PROVE kept
  BY <1>1 DEF Invoking, NotConnected, Invoke, CallFails, EndInvoke, Throws, locals, viewVars
<1>2. ASSUME NEW m, CommandEnds(m) PROVE kept
  BY <1>2 DEF CommandEnds, viewVars
<1>3. ASSUME NEW r \in Readers, ReadStep(r) PROVE ReadsInv'
  <2>1. CASE ReadGoesOn(r)
    BY <2>1, ReadsKept DEF ReadGoesOn, locals, viewVars
  <2> QED
    BY <1>1, <1>3, <2>1, ReadsKept, AnswerReads, EndsRead DEF ReadStep
<1>4. CASE SendStep
  BY <1>1, <1>2, <1>4, ReadsKept, ConsoleReads DEF SendStep
<1>5. CASE ConnectStep \/ DisconnectStep
  <2>1. CASE BeginConnect \/ ConnectCall \/ EndConnect
    BY <2>1, ReadsKept DEF BeginConnect, ConnectCall, EndConnect, Throws, locals, viewVars
  <2>2. CASE BeginDisconnect \/ DisposeCall \/ EndDisconnect
    BY <2>2, ReadsKept DEF BeginDisconnect, DisposeCall, EndDisconnect, locals, viewVars
  <2> QED
    BY <1>2, <1>5, <2>1, <2>2, ReadsKept DEF ConnectStep, DisconnectStep
<1>6. CASE (\E p \in Polls : PollTick(p)) \/ UserStep
  <2>1. kept
    BY <1>6 DEF PollTick, BeginRead, UserStep, ReadOnce, SetPolling, ConnectCommand,
                DisconnectCommand, SendCommand, Execute, locals, viewVars
  <2> QED
    BY <2>1, ReadsKept
<1>7. CASE UNCHANGED vars
  BY <1>7, ReadsKept DEF vars, locals, viewVars
<1> QED
  BY <1>3, <1>4, <1>5, <1>6, <1>7 DEF DesktopNext

-----------------------------------------------------------------------------
(* The theorems.                                                           *)

\* The invariant is inductive.
LEMMA DesktopNextInv == SessionInv /\ [DesktopNext]_vars => SessionInv'
<1> SUFFICES ASSUME SessionInv, [DesktopNext]_vars PROVE SessionInv'
  OBVIOUS
<1>1. CallsInv'
  <2>1. ASSUME NEW m \in Methods, GateStep(m) PROVE CallsInv'
    BY <2>1, GateStepInv DEF SessionInv
  <2>2. CASE UNCHANGED <<gate, pc>>
    BY <2>2 DEF SessionInv, CallsInv, GateTypes, GateInv
  <2> QED
    BY <2>1, <2>2, GateSteps
<1>2. HandlesInv'
  BY HandlesNext DEF SessionInv
<1>3. ReadsInv'
  BY ReadsNext DEF SessionInv
<1> QED
  BY <1>1, <1>2, <1>3 DEF SessionInv

\* The native calls of all views come one after the other, and none is made on
\* a handle that has been disposed of, however many reads the poll timer has
\* piled up (InstrumentSession._gate).
THEOREM CallsAreSerialized == DesktopSpec => []SerializedCalls
<1>1. SessionInv => SerializedCalls
  <2> SUFFICES ASSUME SessionInv, NEW m \in Methods, pc[m] = "native"
               PROVE  /\ \A k \in Methods \ {m} : pc[k] # "native"
                      /\ m # "connect" => link[held[m]] \in Live
    BY DEF SerializedCalls, Live
  <2>1. \A k \in Methods \ {m} : pc[k] # "native"
    BY HolderAlone DEF SessionInv
  <2>2. HandlesOwned
    BY DEF SessionInv, HandlesInv
  <2>3. CASE m = "disconnect"
    BY <2>1, <2>2, <2>3 DEF HandlesOwned
  <2>4. CASE m \in {"send"} \union Readers
    <3>1. instrument # 0 /\ held[m] = instrument
      BY <2>2, <2>4 DEF HandlesOwned
    <3> QED
      BY <2>1, <2>2, <3>1 DEF HandlesOwned
  <2> QED
    BY <2>1, <2>3, <2>4 DEF Methods
<1> QED
  BY <1>1, DesktopInitInv, DesktopNextInv, PTL DEF DesktopSpec

\* A handle that is not disposed of is the session's, or on its way to or from
\* it, however connects, disconnects and failures follow each other
\* (ConnectAsync(), DisconnectAsync()).
THEOREM HandlesDoNotLeak == DesktopSpec => []NoHandleLeaks
<1>1. SessionInv => NoHandleLeaks
  BY DEF SessionInv, HandlesInv, HandlesOwned
<1> QED
  BY <1>1, DesktopInitInv, DesktopNextInv, PTL DEF DesktopSpec

\* Values are shown under their own functions unless the list changed during
\* the read, for any number of reads under way (ReadAsync(), ReadDataAsync()).
THEOREM RowsMatchUnlessDisturbed == DesktopSpec => []UndisturbedRows
<1>1. SessionInv => UndisturbedRows
  BY DEF SessionInv, ReadsInv
<1> QED
  BY <1>1, DesktopInitInv, DesktopNextInv, PTL DEF DesktopSpec

-----------------------------------------------------------------------------
(* The UI thread, and why nobody waits for ever on everybody else.         *)

\* A method that is under way can go on: its native call ends by itself, or the
\* UI thread is free for its continuation, or is in it already.  A read that
\* goes on after a call knows how the call ended.
CanGoOn(m) ==
    \/ pc[m] = "native"
    \/ pc[m] = "back" /\ ui = None
    \/ pc[m] = "waiting" /\ gate # <<>> /\ gate[1] = m /\ ui \in {None, m}
    \/ pc[m] = "resume" /\ ui = m /\ (m \in Readers => result[m] \in {"ok", "failed"})

\* As long as some method is under way, one of them can go on: the gate always
\* has a holder that runs, and the UI thread is never in a method that waits
\* for another one.
NobodyStuck == (\E m \in Methods : pc[m] # "idle") => \E m \in Methods : CanGoOn(m)

\* The UI thread is in a method only between its Release() and its next await,
\* or when it found the gate free.
UiInv ==
    /\ ui \in Methods \union {None}
    /\ \A m \in Methods : pc[m] = "resume" => ui = m
    /\ ui # None => \/ pc[ui] = "resume"
                    \/ pc[ui] = "waiting" /\ gate # <<>> /\ gate[1] = ui
    /\ \A r \in Readers : pc[r] \in {"back", "resume"} => result[r] \in {"ok", "failed"}

\* A handle only grows older: what is disposed of stays so, and a dead link is
\* not opened again.
Age == [none |-> 0, open |-> 1, dead |-> 2, disposed |-> 3]
HandlesAge == [][\A h \in Handles : Age[link[h]] <= Age[link'[h]]]_vars

\* What the steps of the gate do with the UI thread and with the result of a
\* method's own call.
OthersResults(m) == \A k \in Methods \ {m} : result'[k] = result[k]

UiAsks(m) ==
    /\ AsksForGate(m)
    /\ pc[m] = "idle" => ui = None
    /\ ui' = IF gate = <<>> THEN m ELSE None
    /\ UNCHANGED result
UiCalls(m) == CallsNative(m) /\ ui \in {None, m} /\ ui' = None /\ UNCHANGED result
UiReturns(m) ==
    /\ NativeReturns(m)
    /\ UNCHANGED ui
    /\ OthersResults(m)
    /\ m \in Readers => result'[m] \in {"ok", "failed"}
UiReleases(m) ==
    /\ ReleasesGate(m)
    /\ ui \in {None, m} /\ ui' = m
    /\ OthersResults(m)
    /\ m \in Readers /\ pc[m] = "back" => result'[m] = result[m]
    /\ m \in Readers /\ pc[m] = "waiting" => result'[m] = "failed"
UiEnds(m) == MethodEnds(m) /\ ui' = None /\ OthersResults(m)

UiStep(m) == UiAsks(m) \/ UiCalls(m) \/ UiReturns(m) \/ UiReleases(m) \/ UiEnds(m)

\* A call that fails sets the method's own result.
LEMMA ThrowsResult ==
  ASSUME HandleTypes, NEW m \in Methods, Throws(m)
  PROVE  OthersResults(m) /\ result'[m] = "failed"
  BY DEF HandleTypes, Throws, OthersResults

\* The calls of InvokeAsync().
LEMMA InvokingUi ==
  ASSUME HandleTypes, NEW m \in Methods, Invoking(m)
  PROVE  UiStep(m)
<1>1. CASE NotConnected(m)
  <2>1. OthersResults(m) /\ result'[m] = "failed"
    BY <1>1, ThrowsResult DEF NotConnected
  <2> QED
    BY <1>1, <2>1 DEF NotConnected, Granted, Goes, UiStep, UiReleases, ReleasesGate, HasGate, Moves
<1>2. CASE Invoke(m)
  BY <1>2 DEF Invoke, Granted, Yields, sessionVars, UiStep, UiCalls, CallsNative, HasGate, Moves
<1>3. CASE CallFails(m)
  <2>1. OthersResults(m) /\ result'[m] = "failed"
    BY <1>3, ThrowsResult DEF CallFails
  <2> QED
    BY <1>3, <2>1 DEF CallFails, Completes, UiStep, UiReturns, NativeReturns, Moves
<1>4. CASE EndInvoke(m)
  BY <1>4 DEF EndInvoke, Back, Goes, locals, UiStep, UiReleases, ReleasesGate, HasGate, Moves,
              OthersResults
<1> QED
  BY <1>1, <1>2, <1>3, <1>4 DEF Invoking

\* A call that returns sets the method's own result.
LEMMA ReturnsUi ==
  ASSUME HandleTypes, NEW m \in Methods, CallReturns(m)
  PROVE  UiStep(m)
<1>1. OthersResults(m) /\ result'[m] = "ok"
  BY DEF CallReturns, HandleTypes, OthersResults
<1> QED
  BY <1>1 DEF CallReturns, Completes, sessionVars, UiStep, UiReturns, NativeReturns, Moves

\* WaitAsync(), at the start of a command or later in it.
LEMMA WaitsUi ==
  ASSUME NEW m \in Methods, (pc[m] = "idle" /\ ui = None) \/ pc[m] = "resume", Waits(m),
         UNCHANGED result
  PROVE  UiStep(m)
  BY DEF Waits, Goes, Yields, UiStep, UiAsks, AsksForGate, Moves

\* The end of a command.
LEMMA EndsUi ==
  ASSUME HandleTypes, NEW m \in Methods, pc[m] = "resume", Ends(m), UNCHANGED gate,
         result' = [result EXCEPT ![m] = "none"]
  PROVE  UiStep(m)
  BY DEF HandleTypes, Ends, Yields, UiStep, UiEnds, MethodEnds, Moves, OthersResults

\* Every step of the session is one of these for some method, or leaves all of
\* it alone.
LEMMA UiSteps ==
  ASSUME HandleTypes, [DesktopNext]_vars
  PROVE  (\E m \in Methods : UiStep(m)) \/ UNCHANGED <<gate, pc, ui, result>>
<1> USE MethodNames
<1>1. ASSUME NEW r \in Readers, ReadStep(r) PROVE UiStep(r)
  <2>1. CASE Invoking(r)
    BY <2>1, InvokingUi
  <2>2. CASE QueryFunctions(r) \/ ReadData(r)
    BY <2>2, ReturnsUi DEF QueryFunctions, ReadData
  <2>3. CASE ReadGoesOn(r)
    BY <2>3, WaitsUi DEF ReadGoesOn, locals
  <2>4. CASE ReadFails(r) \/ ReadShows(r)
    BY <2>4, EndsUi DEF ReadFails, ReadShows, ForgetRead, sessionVars
  <2> QED
    BY <1>1, <2>1, <2>2, <2>3, <2>4 DEF ReadStep
<1>2. ASSUME NEW m \in Methods, CommandEnds(m) PROVE UiStep(m)
  BY <1>2, EndsUi DEF CommandEnds, sessionVars
<1>3. CASE SendStep
  BY <1>2, <1>3, InvokingUi, ReturnsUi DEF SendStep, ConsoleCall
<1>4. CASE ConnectStep
  <2>1. CASE BeginConnect
    <3>1. CASE instrument = 0
      BY <2>1, <3>1 DEF BeginConnect, Granted, Yields, locals, UiStep, UiCalls, CallsNative,
                        HasGate, Moves
    <3>2. CASE instrument # 0
      <4>1. OthersResults("connect")
        BY <2>1, <3>2, ThrowsResult DEF BeginConnect
      <4> QED
        BY <2>1, <3>2, <4>1 DEF BeginConnect, Granted, Goes, UiStep, UiReleases, ReleasesGate,
                                HasGate, Moves
    <3> QED
      BY <3>1, <3>2
  <2>2. CASE ConnectCall
    <3>1. OthersResults("connect")
      BY <2>2, ThrowsResult DEF ConnectCall, HandleTypes, OthersResults
    <3> QED
      BY <2>2, <3>1 DEF ConnectCall, Completes, UiStep, UiReturns, NativeReturns, Moves
  <2>3. CASE EndConnect
    BY <2>3 DEF EndConnect, Back, Goes, locals, UiStep, UiReleases, ReleasesGate, HasGate, Moves,
                OthersResults
  <2> QED
    BY <1>2, <1>4, <2>1, <2>2, <2>3 DEF ConnectStep
<1>5. CASE DisconnectStep
  <2>1. CASE BeginDisconnect
    BY <2>1 DEF BeginDisconnect, Granted, Goes, Yields, UiStep, UiCalls, CallsNative, UiReleases,
                ReleasesGate, HasGate, Moves, OthersResults
  <2>2. CASE DisposeCall
    BY <2>2 DEF DisposeCall, Completes, locals, UiStep, UiReturns, NativeReturns, Moves,
                OthersResults
  <2>3. CASE EndDisconnect
    BY <2>3 DEF EndDisconnect, Back, Goes, locals, UiStep, UiReleases, ReleasesGate, HasGate,
                Moves, OthersResults
  <2> QED
    BY <1>2, <1>5, <2>1, <2>2, <2>3 DEF DisconnectStep
<1>6. CASE \E p \in Polls : PollTick(p)
  BY <1>6, WaitsUi DEF PollTick, BeginRead, locals
<1>7. CASE UserStep
  BY <1>7, WaitsUi DEF UserStep, ReadOnce, BeginRead, SetPolling, sessionVars, locals, Clicks,
                       ConnectCommand, DisconnectCommand, SendCommand, Execute
<1>8. CASE UNCHANGED vars
  BY <1>8 DEF vars, sessionVars, locals
<1> QED
  BY <1>1, <1>3, <1>4, <1>5, <1>6, <1>7, <1>8 DEF DesktopNext

\* The UI thread stays in methods that can go on.
LEMMA UiStepInv ==
  ASSUME CallsInv, UiInv, NEW m \in Methods, UiStep(m)
  PROVE  UiInv'
<1> USE MethodNames
<1>0. /\ gate \in Seq(Methods) /\ pc \in [Methods -> Places] /\ None \notin Methods
      /\ \A k \in Methods \ {m} : pc'[k] = pc[k]
  BY DesktopAssumption DEF CallsInv, GateTypes, UiStep, UiAsks, UiCalls, UiReturns, UiReleases,
        UiEnds, AsksForGate, CallsNative, NativeReturns, ReleasesGate, MethodEnds, Moves,
        Methods, Readers
<1>1. CASE UiAsks(m)
  <2>1. pc'[m] = "waiting" /\ gate' = Append(gate, m) /\ result' = result
        /\ ui \in {None, m}
    BY <1>0, <1>1 DEF UiAsks, AsksForGate, Moves, UiInv
  <2>2. \A k \in Methods : pc'[k] # "resume"
    BY <1>0, <2>1 DEF UiInv
  <2>3. CASE gate = <<>>
    <3>1. gate' # <<>> /\ gate'[1] = m /\ ui' = m
      BY <1>0, <1>1, <2>1, <2>3 DEF UiAsks
    <3> QED
      BY <1>0, <2>1, <2>2, <3>1 DEF UiInv
  <2>4. CASE gate # <<>>
    <3>1. ui' = None
      BY <1>1, <2>4 DEF UiAsks
    <3> QED
      BY <1>0, <2>1, <2>2, <3>1 DEF UiInv
  <2> QED
    BY <2>3, <2>4
<1>2. CASE UiCalls(m)
  <2>1. pc'[m] = "native" /\ result' = result /\ ui' = None /\ ui \in {None, m}
    BY <1>0, <1>2 DEF UiCalls, CallsNative, Moves
  <2>2. \A k \in Methods : pc'[k] # "resume"
    BY <1>0, <2>1 DEF UiInv
  <2> QED
    BY <1>0, <2>1, <2>2 DEF UiInv
<1>3. CASE UiReturns(m)
  <2>1. pc[m] = "native" /\ pc'[m] = "back" /\ gate' = gate /\ ui' = ui
    BY <1>0, <1>3 DEF UiReturns, NativeReturns, Moves
  <2>2. ui # m
    BY <1>0, <2>1 DEF UiInv
  <2>3. \A r \in Readers : pc'[r] \in {"back", "resume"} => result'[r] \in {"ok", "failed"}
    BY <1>0, <1>3, <2>1 DEF UiInv, UiReturns, OthersResults
  <2> QED
    BY <1>0, <2>1, <2>2, <2>3 DEF UiInv
<1>4. CASE UiReleases(m)
  <2>1. /\ pc'[m] = "resume" /\ pc[m] \in {"back", "waiting"} /\ ui' = m /\ ui \in {None, m}
    BY <1>0, <1>4 DEF UiReleases, ReleasesGate, HasGate, Moves
  <2>2. \A k \in Methods : pc'[k] = "resume" => k = m
    BY <1>0, <2>1 DEF UiInv
  <2>3. \A r \in Readers : pc'[r] \in {"back", "resume"} => result'[r] \in {"ok", "failed"}
    BY <1>0, <1>4, <2>1 DEF UiInv, UiReleases, OthersResults
  <2> QED
    BY <1>0, <2>1, <2>2, <2>3 DEF UiInv
<1>5. CASE UiEnds(m)
  <2>1. pc[m] = "resume" /\ pc'[m] = "idle" /\ ui' = None /\ ui = m
    BY <1>0, <1>5 DEF UiEnds, MethodEnds, Moves, UiInv
  <2>2. \A k \in Methods : pc'[k] # "resume"
    BY <1>0, <2>1 DEF UiInv
  <2>3. \A r \in Readers : pc'[r] \in {"back", "resume"} => result'[r] \in {"ok", "failed"}
    BY <1>0, <1>5, <2>1 DEF UiInv, UiEnds, OthersResults
  <2> QED
    BY <1>0, <2>1, <2>2, <2>3 DEF UiInv
<1> QED
  BY <1>1, <1>2, <1>3, <1>4, <1>5 DEF UiStep

\* No command, however many are under way and however they fail, can bring the
\* application to a stop: the gate is passed on and the UI thread is free for
\* whoever has it (InstrumentSession._gate and its finally clauses).
THEOREM SomebodyGoesOn == DesktopSpec => []NobodyStuck
<1>1. DesktopInit => UiInv
  BY MethodNames DEF DesktopInit, UiInv
<1>2. SessionInv /\ UiInv /\ [DesktopNext]_vars => UiInv'
  <2> SUFFICES ASSUME SessionInv, UiInv, [DesktopNext]_vars PROVE UiInv'
    OBVIOUS
  <2>1. CASE UNCHANGED <<gate, pc, ui, result>>
    BY <2>1 DEF UiInv
  <2> QED
    BY <2>1, UiSteps, UiStepInv DEF SessionInv, HandlesInv
<1>3. SessionInv /\ UiInv => NobodyStuck
  <2> SUFFICES ASSUME SessionInv, UiInv, NEW m \in Methods, pc[m] # "idle"
               PROVE  \E k \in Methods : CanGoOn(k)
    BY DEF NobodyStuck
  <2>1. CASE ui # None
    <3>1. ui \in Methods /\ CanGoOn(ui)
      BY <2>1 DEF UiInv, CanGoOn
    <3> QED
      BY <3>1
  <2>2. CASE ui = None
    <3>1. pc[m] \in {"waiting", "native", "back"}
      <4>1. pc[m] \in Places
        BY DEF SessionInv, CallsInv, GateTypes
      <4>2. None \notin Methods
        BY DesktopAssumption DEF Methods, Readers
      <4> QED
        BY <2>2, <4>1, <4>2 DEF UiInv, Places
    <3>2. gate \in Seq(Methods) /\ gate # <<>> /\ Len(gate) \in Nat
      BY <3>1 DEF SessionInv, CallsInv, GateTypes, GateInv
    <3>3. 1 \in 1 .. Len(gate) /\ gate[1] \in Methods
      BY <3>2
    <3>4. pc[gate[1]] \in {"waiting", "native", "back"}
      BY <3>3 DEF SessionInv, CallsInv, GateInv
    <3> QED
      BY <2>2, <3>2, <3>3, <3>4 DEF CanGoOn
  <2> QED
    BY <2>1, <2>2
<1> QED
  BY <1>1, <1>2, <1>3, DesktopInitInv, DesktopNextInv, PTL DEF DesktopSpec

\* Every handle goes from its connection to its disposal and never back, however
\* calls fail and commands follow each other (ConnectAsync(), DisconnectAsync()).
THEOREM HandlesOnlyAge == DesktopSpec => HandlesAge
<1>1. SessionInv /\ [DesktopNext]_vars =>
        [\A h \in Handles : Age[link[h]] <= Age[link'[h]]]_vars
  <2> SUFFICES ASSUME SessionInv, DesktopNext, NEW h \in Handles
               PROVE  Age[link[h]] <= Age[link'[h]]
    OBVIOUS
  <2>0. link \in [Handles -> {"none", "open", "dead", "disposed"}]
    BY DEF SessionInv, HandlesInv, HandleTypes
  <2>1. CASE UNCHANGED link
    BY <2>0, <2>1 DEF Age
  <2>2. ASSUME NEW m \in Methods, CallFails(m) PROVE Age[link[h]] <= Age[link'[h]]
    BY <2>0, <2>2 DEF CallFails, Age
  <2>3. CASE ConnectCall
    <3>1. link[NewHandle] = "none"
      BY <2>3, NewHandleFree DEF SessionInv, HandlesInv, ConnectCall, Completes
    <3> HIDE DEF NewHandle
    <3> QED
      BY <2>0, <2>3, <3>1 DEF ConnectCall, FirstQueryFails, Age
  <2>4. CASE DisposeCall
    BY <2>0, <2>4 DEF DisposeCall, Age
  <2>5. \/ UNCHANGED link \/ ConnectCall \/ DisposeCall
        \/ \E m \in Methods : CallFails(m)
    BY MethodNames DEF DesktopNext, ReadStep, Invoking, NotConnected, Invoke, EndInvoke,
       QueryFunctions, ReadData, ReadGoesOn, ReadFails, ReadShows, SendStep, ConsoleCall,
       CallReturns, ConnectStep, BeginConnect, EndConnect, DisconnectStep, BeginDisconnect,
       EndDisconnect, CommandEnds, PollTick, BeginRead, UserStep, ReadOnce, SetPolling,
       ConnectCommand, DisconnectCommand, SendCommand, Execute, sessionVars
  <2> QED
    BY <2>1, <2>2, <2>3, <2>4, <2>5
<1> QED
  BY <1>1, DesktopInitInv, DesktopNextInv, PTL DEF DesktopSpec, HandlesAge
=============================================================================
