---------------------------- MODULE Measurement ----------------------------
(***************************************************************************)
(* NormaSimulator::measure(): the value and the status DATA:STAT? reports  *)
(* for a function.  The value is computed as the code computes it, branch  *)
(* by branch, in an arithmetic that tells apart what a double may be: a    *)
(* number by its sign, an infinity or a NaN.                               *)
(*                                                                         *)
(* A function name is its quantity, one tail node, and a modifier after    *)
(* it.  "scaled" stands for the tails of VOLT and CURR that are multiplied *)
(* by the scale (none, DC, AC, MEAN, RMEAN, RMCORR, PTP, PHIGH), PLOW for  *)
(* the one that is negative besides, "plain" for those without a scale     *)
(* (THD, CFAC, FFAC, PHAS), ACT for the powers; "other" is a name the      *)
(* signal model does not know.  A line function has a phase-to-phase       *)
(* suffix.  The functions are those of one phase; over several, measure()  *)
(* compares their mean with the range of the first, which is left out.     *)
(***************************************************************************)
EXTENDS StatusReporting

Tails ==
    [VOLT |-> {"scaled", "PLOW", "plain"}, CURR |-> {"scaled", "PLOW", "plain"},
     POW |-> {"ACT", "FACT", "EFF"}, PHAS |-> {"none"}, IMP |-> {"none"},
     RES |-> {"SER", "PAR"}, REACT |-> {"SER", "PAR"},
     FREQ |-> {"none"}, TIME |-> {"none", "REL"}, other |-> {}]

Accumulators == {"IPOS", "INEG", "INT"}

Function(q, t, m, line) == [quantity |-> q, tail |-> t, modifier |-> m, line |-> line]

\* Every quantity with its tails and one it does not have; the modifiers and
\* the line suffix on some of them.
Functions ==
    (UNION {{Function(q, t, "none", FALSE) : t \in Tails[q] \union {"other"}} :
            q \in DOMAIN Tails})
    \union (UNION {{Function("VOLT", t, m, FALSE) :
                       m \in Accumulators \union {"MIN", "MAX", "HAR"}} :
                   t \in {"scaled", "PLOW"}})
    \union (UNION {{Function(q, "none", m, FALSE) : m \in {"MIN", "INT", "HAR"}} :
                   q \in {"FREQ", "TIME"}})
    \union {Function(q, "scaled", "none", TRUE) : q \in {"VOLT", "CURR"}}

-----------------------------------------------------------------------------
(* Arithmetic on doubles: "-", "0" and "+" are the numbers, "inf" is an    *)
(* infinity of either sign.                                                *)

times(a, b) ==
    IF "nan" \in {a, b} \/ {a, b} = {"0", "inf"} THEN "nan"
    ELSE IF "inf" \in {a, b} THEN "inf"
    ELSE IF "0" \in {a, b} THEN "0"
    ELSE IF a = b THEN "+" ELSE "-"

quotient(a, b) ==
    IF "nan" \in {a, b} \/ (a = b /\ a \in {"0", "inf"}) THEN "nan"
    ELSE IF a = "inf" \/ b = "0" THEN "inf"
    ELSE IF a = "0" \/ b = "inf" THEN "0"
    ELSE IF a = b THEN "+" ELSE "-"

\* The test b != 0.0 before a quotient lets a NaN pass.
ratio(a, b) == IF b # "0" THEN quotient(a, b) ELSE "nan"

\* Of two values of which one is zero; nothing is less than a NaN.
less(a, b) == (a = "-" /\ b \in {"0", "+"}) \/ (a = "0" /\ b = "+")

\* Mutant: the arguments of std::max() and std::min() are swapped.
sign_filter_swapped(m, value) ==
    CASE m = "IPOS" -> IF less("0", value) THEN value ELSE "0"
      [] m = "INEG" -> IF less(value, "0") THEN value ELSE "0"
      [] OTHER      -> value

\* std::max(value, 0.0) and std::min(value, 0.0), which return their first
\* argument unless the second is strictly beyond it.
sign_filter(m, value) ==
    CASE m = "IPOS" -> IF less(value, "0") THEN "0" ELSE value
      [] m = "INEG" -> IF less("0", value) THEN "0" ELSE value
      [] OTHER      -> value

-----------------------------------------------------------------------------
(* What the signal and the settings give the branches to compute with.     *)

\* A dead channel is below every fixed range; with the others the level says.
dead(i, channel) == i.dead = channel /\ i[channel] \in {"auto", "under"}

mean(i, channel) == IF dead(i, channel) THEN "0" ELSE "+"
scale(i, channel) == IF channel \in i.setup.nan_scales THEN "nan" ELSE "+"
averaging_interval(i) == IF i.setup.aperture = "nan" THEN "nan" ELSE "+"

apparent(i) == times(mean(i, "voltage"), mean(i, "current"))
active(i) == apparent(i)
impedance(i) == ratio(mean(i, "voltage"), mean(i, "current"))

\* Power factor 1, which measure() also assumes where there is no power; it is
\* positive otherwise.
in_phase(i) == i.load = "resistive" \/ apparent(i) = "0"
power_factor == "+"
shift(i) == IF i.load = "capacitive" THEN "-" ELSE "+"
sine(i) == IF in_phase(i) THEN "0" ELSE "+"

-----------------------------------------------------------------------------
(* measure().                                                              *)

measuring(i) == i.continuous \/ i.initiated

\* A name without a branch of its own; FREQ and TIME take no modifier, and the
\* efficiency needs its reference.
unknown(f, i) ==
    \/ f.tail \notin Tails[f.quantity]
    \/ f.quantity \in {"FREQ", "TIME"} /\ f.modifier # "none"
    \/ f.tail = "EFF" /\ i.setup.efficiency = "unset"

\* The order of the early returns: the modifiers, no measurement, TIME, the
\* line functions, no synchronization, the names.
unavailable(f, i) ==
    \/ f.modifier \in {"MIN", "MAX"}
    \/ f.modifier \in Accumulators /\ ~i.setup.integral
    \/ /\ measuring(i)
       /\ \/ f.line
          \/ unknown(f, i) /\ (f.quantity = "TIME" \/ synchronized(i))

undefined(f, i) ==
    /\ ~unavailable(f, i)
    /\ ~measuring(i) \/ (f.quantity # "TIME" /\ ~synchronized(i))

power_scale(i) == times(scale(i, "voltage"), scale(i, "current"))

\* The sign of a function without a scale is left out.
voltage_or_current(f, i, channel) ==
    CASE f.tail = "plain" -> "+"
      [] f.tail = "PLOW"  -> times("-", times(mean(i, channel), scale(i, channel)))
      [] OTHER            -> times(mean(i, channel), scale(i, channel))

\* The chain of branches over the names; in and out are the values of the two
\* measurements an efficiency refers to.
computed(f, i, in, out) ==
    CASE f.quantity = "VOLT" -> voltage_or_current(f, i, "voltage")
      [] f.quantity = "CURR" -> voltage_or_current(f, i, "current")
      [] f.quantity = "POW" /\ f.tail = "ACT"  -> times(active(i), power_scale(i))
      [] f.quantity = "POW" /\ f.tail = "FACT" -> ratio(active(i), apparent(i))
      [] f.quantity = "POW" /\ f.tail = "EFF"  -> ratio(out, in)
      [] f.quantity = "PHAS" -> IF in_phase(i) THEN "0" ELSE shift(i)
      [] f.quantity = "IMP"  -> impedance(i)
      [] f.quantity = "RES" /\ f.tail = "SER"   -> times(impedance(i), power_factor)
      [] f.quantity = "RES" /\ f.tail = "PAR"   -> ratio(impedance(i), power_factor)
      [] f.quantity = "REACT" /\ f.tail = "SER" -> times(impedance(i), sine(i))
      [] f.quantity = "REACT" /\ f.tail = "PAR" -> ratio(impedance(i), sine(i))
      [] f.quantity = "TIME" /\ f.tail = "none"     -> averaging_interval(i)
      [] OTHER -> "+"

\* The power factor's own bit, and the range bits of a voltage or current.
capacitive_status(f, i) ==
    IF f.tail = "FACT" /\ i.load = "capacitive" THEN {"PowerFactorCapacitive"} ELSE {}
range_status(f, i) ==
    IF f.quantity = "VOLT" THEN channel_bits(i.voltage)
    ELSE IF f.quantity = "CURR" THEN channel_bits(i.current) ELSE {}

Reading(value, status) == [value |-> value, status |-> status]

\* FREQ and TIME return as soon as they have a value; the others are multiplied
\* by the harmonic factor, filtered, tested for a NaN and compared with their
\* range.
finished(f, i, value) ==
    Reading(value, capacitive_status(f, i)
                       \union (IF value = "nan" THEN {"Undefined"} ELSE range_status(f, i)))
measure_with(f, i, in, out) ==
    IF unavailable(f, i) THEN Reading("nan", {"NotAvailable"})
    ELSE IF undefined(f, i) THEN Reading("nan", {"Undefined"})
    ELSE IF f.quantity \in {"FREQ", "TIME"} THEN Reading(computed(f, i, in, out), {})
    ELSE finished(f, i, sign_filter(f.modifier, times(computed(f, i, in, out), "+")))

\* The functions an efficiency may refer to, none of them an efficiency.
Plain(q, t, m) == Function(q, t, m, FALSE)
Reference(i) ==
    CASE i.setup.efficiency = "times"  -> [input |-> Plain("TIME", "none", "none"),
                                           output |-> Plain("CURR", "scaled", "none")]
      [] i.setup.efficiency = "minima" -> [input |-> Plain("VOLT", "scaled", "none"),
                                           output |-> Plain("VOLT", "scaled", "MIN")]
      [] OTHER                         -> [input |-> Plain("POW", "ACT", "none"),
                                           output |-> Plain("POW", "ACT", "none")]

\* The value of a measurement, whatever its status is.
reference_value(f, i) == measure_with(f, i, "0", "0").value

measure(f, i) ==
    measure_with(f, i, reference_value(Reference(i).input, i),
                 reference_value(Reference(i).output, i))

\* Reading::is_valid(), with kInvalidMask.
is_valid(reading) ==
    reading.status \intersect {"UNDER", "OVER", "Undefined", "NotAvailable"} = {}

-----------------------------------------------------------------------------
(* Properties.                                                             *)

\* What a function is determined by, without an order of tests: it has a name
\* and the settings that enable it, a measurement and a synchronization it can
\* be taken from, settings that are numbers, and nothing to divide by zero.
Implemented(f, i) ==
    /\ f.tail \in Tails[f.quantity] /\ ~f.line
    /\ f.modifier \in Accumulators \union {"HAR", "none"}
    /\ f.quantity \in {"FREQ", "TIME"} => f.modifier = "none"
    /\ f.modifier \in Accumulators => i.setup.integral

Taken(f, i) == measuring(i) /\ (synchronized(i) \/ f.quantity = "TIME")

Channels(f) ==
    CASE f.quantity = "VOLT" -> {"voltage"}
      [] f.quantity = "CURR" -> {"current"}
      [] f.tail \in {"ACT", "FACT"} -> {"voltage", "current"}
      [] OTHER -> {}

Settings(f) == IF f.tail \in {"plain", "FACT"} THEN {}
               ELSE IF f.quantity = "TIME" /\ f.tail = "none" THEN {"aperture"}
               ELSE Channels(f)
NotNumbers(i) ==
    i.setup.nan_scales \union (IF i.setup.aperture = "nan" THEN {"aperture"} ELSE {})

Divisible(f, i) ==
    /\ f.tail = "FACT" => ~dead(i, "voltage") /\ ~dead(i, "current")
    /\ f.quantity \in {"IMP", "RES", "REACT"} => ~dead(i, "current")
    /\ f.quantity = "REACT" /\ f.tail = "PAR" => i.load # "resistive" /\ ~dead(i, "voltage")

DeterminedAlone(f, i) ==
    /\ Implemented(f, i) /\ Taken(f, i)
    /\ Settings(f) \intersect NotNumbers(i) = {} /\ Divisible(f, i)

\* An efficiency is determined by the two measurements it refers to, of which
\* the input is not zero.
Determined(f, i) ==
    /\ DeterminedAlone(f, i)
    /\ f.tail = "EFF" =>
          /\ i.setup.efficiency # "unset"
          /\ DeterminedAlone(Reference(i).input, i) /\ DeterminedAlone(Reference(i).output, i)
          /\ \A channel \in Channels(Reference(i).input) : ~dead(i, channel)

InRange(f, i) ==
    /\ f.quantity = "VOLT" => i.voltage \in {"auto", "in"}
    /\ f.quantity = "CURR" => i.current \in {"auto", "in"}

\* DATA:STAT? answers with a number exactly for the functions that the signal
\* and the settings determine: a NaN that a setting, a dead channel or one of
\* the two measurements behind an efficiency brings in reaches every value that
\* depends on it and no other, and no sign filter takes it out again.  A client
\* that trusts is_valid() relies on determined values within their range only;
\* the one value that is marked valid undetermined is TIME, with an averaging
\* time that is a NaN.
ReadingsTellTheirInputs ==
    \A f \in Functions :
        LET reading == measure(f, inst)
            unchecked == f = Plain("TIME", "none", "none") /\ measuring(inst)
        IN  /\ reading.value \in {"-", "0", "+"} <=> Determined(f, inst)
            /\ is_valid(reading)
                  <=> (Determined(f, inst) \/ unchecked) /\ InRange(f, inst)
=============================================================================
