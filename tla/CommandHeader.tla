--------------------------- MODULE CommandHeader ---------------------------
(***************************************************************************)
(* The command table of NormaSimulator and how a received header finds its *)
(* row: the patterns of kCommandSpecs, node_accepts() and match_pattern(). *)
(* The rows are tried in the order of the table and the first match wins,  *)
(* so a row can take headers that were meant for a later one.              *)
(*                                                                         *)
(* A mnemonic is a pair of its short form and the rest of its long form.   *)
(***************************************************************************)
EXTENDS ScpiText

-----------------------------------------------------------------------------
(* Patterns.                                                               *)

\* PatternNode, as compile_pattern() makes it of "INPut", "INPut#", "[STATe]"
\* and "[AC|DC]"; one '#' in a node lets each of its mnemonics have a suffix.
N(short, rest) == [names |-> {<<short, rest>>}, optional |-> FALSE, suffixed |-> FALSE]
W(word) == N(word, "")
Suffixed(node) == [node EXCEPT !.suffixed = TRUE]
Opt(node) == [node EXCEPT !.optional = TRUE]
OneOf(nodes) == [N("", "") EXCEPT !.names = UNION {n.names : n \in nodes}]

Row(key, pattern) == [key |-> key, pattern |-> pattern]

SENSe == Opt(N("SENS", "e"))
VOLTage == N("VOLT", "age")
CURRent == N("CURR", "ent")
AcDc == Opt(OneOf({W("AC"), W("DC")}))
RANGe == N("RANG", "e")
UPPer == Opt(N("UPP", "er"))
STATe == Opt(N("STAT", "e"))
FREQuency == N("FREQ", "uency")
LPASs == Opt(N("LPAS", "s"))
DATA == W("DATA")
IMMediate == Opt(N("IMM", "ediate"))
STATus == N("STAT", "us")
FUNCtion == N("FUNC", "tion")
SOURce == N("SOUR", "ce")
TIME == W("TIME")
STARt == N("STAR", "t")
STOP == W("STOP")

InputRows ==
    LET in == Suffixed(N("INP", "ut")) filter == N("FILT", "er")
    IN  <<Row("ABOR", <<N("ABOR", "t")>>), Row("ROUT:SYST", <<N("ROUT", "e"), N("SYST", "em")>>),
          Row("INP#:COUP", <<in, N("COUP", "ling")>>), Row("INP#:GAIN", <<in, W("GAIN")>>),
          Row("INP#:FILT:FREQ", <<in, filter, LPASs, FREQuency>>),
          Row("INP#:FILT:STAT", <<in, filter, STATe>>), Row("INP#:SHUN", <<in, N("SHUN", "t")>>)>>

RangeRows(key, input) ==
    LET range == <<SENSe, Suffixed(input), AcDc, RANGe, UPPer>>
    IN  <<Row(key \o "#:RANG:LIST", Append(range, W("LIST"))),
          Row(key \o "#:RANG:AUTO", Append(range, W("AUTO"))), Row(key \o "#:RANG", range),
          Row(key \o "#:SCAL", <<SENSe, Suffixed(input), AcDc, N("SCAL", "e")>>)>>

SenseRows ==
    LET any == Suffixed(Opt(OneOf({VOLTage, CURRent, N("POW", "er")})))
        on == Opt(W("ON"))
    IN  <<Row("APER", <<SENSe, any, AcDc, N("APER", "ture")>>),
          Row("SWE:FREQ", <<SENSe, N("SWE", "ep"), FREQuency>>),
          Row("FUNC:OFF:ALL", <<SENSe, FUNCtion, W("OFF"), W("ALL")>>),
          Row("FUNC:CONC", <<SENSe, FUNCtion, N("CONC", "urrent")>>),
          Row("FUNC:COUN", <<SENSe, FUNCtion, on, N("COUN", "t")>>),
          Row("FUNC:ALL", <<SENSe, FUNCtion, on, W("ALL")>>),
          Row("FUNC", <<SENSe, FUNCtion, on>>),
          Row("DATA:STAT", <<SENSe, DATA, STATus>>), Row("DATA", <<SENSe, DATA>>)>>

SweepRows ==
    LET sweep == <<SENSe, Suffixed(N("SWE", "ep"))>> offset == Append(sweep, N("OFFS", "et"))
    IN  <<Row("SWE#:OFFS:POINTS", Append(offset, W("POINTS"))),
          Row("SWE#:OFFS:TIME", Append(offset, TIME)),
          Row("SWE#:POINTS", Append(sweep, W("POINTS"))), Row("SWE#:TIME", Append(sweep, TIME)),
          Row("SWE#:COUN", Append(sweep, N("COUN", "t"))),
          Row("SWE#:SFAC", Append(sweep, N("SFAC", "tor"))),
          Row("SWE#:FUNC", Append(sweep, FUNCtion)), Row("SWE#:STAT", Append(sweep, STATe))>>

SyncRows ==
    LET source == <<W("SYNC"), Suffixed(Opt(OneOf({SOURce, VOLTage, CURRent})))>>
        filter == source \o <<N("FILT", "er"), LPASs>>
    IN  <<Row("SYNC:STAT", <<W("SYNC"), N("STAT", "e")>>),
          Row("SYNC:LEV:UNIT", <<W("SYNC"), N("LEV", "el"), W("UNIT")>>),
          Row("SYNC:TIM", <<W("SYNC"), N("TIM", "eout")>>),
          Row("SYNC:LEV", Append(source, N("LEV", "el"))),
          Row("SYNC:SLOP", Append(source, N("SLOP", "e"))),
          Row("SYNC:FILT:FREQ", Append(filter, FREQuency)),
          Row("SYNC:FILT:STAT", Append(filter, STATe)),
          Row("SYNC:SOUR", <<W("SYNC"), Opt(SOURce)>>)>>

AcquisitionRows ==
    LET init == N("INIT", "iate")
    IN  <<Row("INIT:CONT", <<init, N("CONT", "inuous")>>),
          Row("INIT:SEQ#", <<init, IMMediate, Suffixed(N("SEQ", "uence"))>>),
          Row("INIT:NAME", <<init, IMMediate, W("NAME")>>), Row("INIT", <<init, IMMediate>>)>>

TriggerRows(key, side) ==
    LET trigger(node) == <<N("TRIG", "ger"), side, node>>
    IN  <<Row(key \o ":SOUR", trigger(SOURce)), Row(key \o ":TIME", trigger(TIME)),
          Row(key \o ":LEV", trigger(N("LEV", "el"))), Row(key \o ":SLOP", trigger(N("SLOP", "e")))>>

TransformRows ==
    LET calculate == <<N("CALC", "ulate")>>
        transform(node) == calculate \o <<N("TRAN", "sform"), FREQuency, node>>
    IN  <<Row("CALC:TRAN:FREQ:MODE", transform(W("MODE"))),
          Row("CALC:TRAN:FREQ:FUNC", transform(FUNCtion)),
          Row("CALC:TRAN:FREQ:STAR", transform(STARt)), Row("CALC:TRAN:FREQ:STOP", transform(STOP)),
          Row("CALC:TRAN:FREQ:CYCL", transform(N("CYCL", "es"))),
          Row("CALC:TRAN:FREQ:GRO", transform(N("GRO", "uping"))),
          Row("CALC:TRAN:FREQ:STAT", transform(STATe)),
          Row("CALC:DATA:PRE", calculate \o <<DATA, N("PRE", "amble")>>),
          Row("CALC:DATA:THD", calculate \o <<DATA, W("THD")>>),
          Row("CALC:DATA", calculate \o <<DATA>>)>>

IntegralRows ==
    LET integral == <<N("CALC", "ulate"), N("INT", "egral")>>
        clear == Append(integral, N("CLE", "ar"))
        start == Append(integral, STARt) stop == Append(integral, STOP)
        power == <<N("CALC", "ulate"), N("POW", "er")>>
    IN  <<Row("CALC:INT:CLE:AUTO", Append(clear, W("AUTO"))),
          Row("CALC:INT:CLE", Append(clear, IMMediate)),
          Row("CALC:INT:FUNC", Append(integral, FUNCtion)),
          Row("CALC:INT:STAR:SOUR", Append(start, SOURce)),
          Row("CALC:INT:STAR:TIME", Append(start, TIME)),
          Row("CALC:INT:STAR", Append(start, IMMediate)),
          Row("CALC:INT:STOP:SOUR", Append(stop, SOURce)),
          Row("CALC:INT:STOP:TIME", Append(stop, TIME)),
          Row("CALC:INT:STOP:TINT", Append(stop, N("TINT", "erval"))),
          Row("CALC:INT:STOP", Append(stop, IMMediate)),
          Row("CALC:INT:STAT", Append(integral, STATe)),
          Row("CALC:HARM:ORD", <<N("CALC", "ulate"), N("HARM", "onic"), N("ORD", "er")>>),
          Row("CALC:POW:CORR", Append(power, N("CORR", "ected"))),
          Row("CALC:POW#:EFF:REF", <<power[1], Suffixed(power[2]), N("EFF", "iciency"),
                                     N("REF", "erence")>>)>>

TraceRows ==
    LET trace == <<N("TRAC", "e")>>
    IN  <<Row("TRAC:PRE", trace \o <<Opt(DATA), N("PRE", "amble")>>),
          Row("TRAC:STAT", trace \o <<Opt(DATA), STATus>>), Row("TRAC:FREE", trace \o <<W("FREE")>>),
          Row("TRAC:CAT:LEN", trace \o <<N("CAT", "alog"), N("LEN", "gth")>>),
          Row("TRAC:DEL:ALL", trace \o <<N("DEL", "ete"), W("ALL")>>),
          Row("TRAC", trace \o <<Opt(DATA)>>)>>

FormatRows ==
    LET format == N("FORM", "at") output == Suffixed(N("OUTP", "ut"))
    IN  <<Row("FORM:STAT", <<format, Opt(DATA), STATus>>),
          Row("FORM:BORD", <<format, N("BORD", "er")>>),
          Row("FORM:TRAN", <<format, N("TRAN", "spose")>>), Row("FORM", <<format, Opt(DATA)>>),
          Row("DISP:USER:FUNC", <<N("DISP", "lay"), W("USER"), FUNCtion>>),
          Row("DISP:STAT", <<N("DISP", "lay"), Opt(N("WIND", "ow")), STATe>>),
          Row("OUTP#:STAT", <<output, STATe>>)>>

SystemRows ==
    LET system(node) == <<N("SYST", "em"), node>>
        comm == system(N("COMM", "unicate")) error == system(N("ERR", "or"))
    IN  <<Row("SYST:COMM:GPIB:ADDR", comm \o <<W("GPIB"), Opt(W("SELF")), N("ADDR", "ess")>>),
          Row("SYST:COMM:SER:BAUD", comm \o <<N("SER", "ial"), W("BAUD")>>),
          Row("SYST:DATE", system(W("DATE"))), Row("SYST:TIME", system(TIME)),
          Row("SYST:ERR:ALL", Append(error, W("ALL"))),
          Row("SYST:ERR", Append(error, Opt(W("NEXT")))),
          Row("SYST:KLOC", system(N("KLOC", "k"))), Row("SYST:LANG", system(N("LANG", "uage"))),
          Row("SYST:VERS", system(N("VERS", "ion")))>>

StatusRows(key, register) ==
    LET status(node) == <<STATus>> \o register \o <<node>>
    IN  <<Row(key \o ":COND", status(N("COND", "ition"))), Row(key \o ":ENAB", status(N("ENAB", "le"))),
          Row(key \o ":PTR", status(N("PTR", "ansition"))), Row(key \o ":NTR", status(N("NTR", "ansition"))),
          Row(key \o ":EVEN", status(Opt(N("EVEN", "t"))))>>

TimerRows ==
    LET timer == <<N("TIM", "er"), N("RES", "et")>>
    IN  <<Row("TIM:RES:AUTO", Append(timer, W("AUTO"))), Row("TIM:RES:TIME", Append(timer, TIME)),
          Row("TIM:RES", timer)>>

\* kCommandSpecs, in the order of the table.
kCommandSpecs ==
    LET questionable == N("QUES", "tionable")
    IN  InputRows \o RangeRows("VOLT", VOLTage) \o RangeRows("CURR", CURRent) \o SenseRows
        \o SweepRows \o SyncRows \o AcquisitionRows \o TriggerRows("TRIG:STAR", STARt)
        \o TriggerRows("TRIG:STOP", STOP) \o TransformRows \o IntegralRows \o TraceRows
        \o FormatRows \o SystemRows \o StatusRows("STAT:OPER", <<N("OPER", "ation")>>)
        \o StatusRows("STAT:QUES:VOLT", <<questionable, VOLTage>>)
        \o StatusRows("STAT:QUES:CURR", <<questionable, CURRent>>)
        \o StatusRows("STAT:QUES", <<questionable>>) \o TimerRows

-----------------------------------------------------------------------------
(* Matching.                                                               *)

\* make_token(): the trailing number of a node is its suffix if something
\* precedes it.
make_token(node) ==
    LET t == trim(node) n == Len(t)
    IN  IF n > 1 /\ t[n] \in Numbers THEN [text |-> SubSeq(t, 1, n - 1), suffix |-> t[n]]
        ELSE [text |-> t, suffix |-> "none"]

\* The short form or the whole long form, nothing in between.
mnemonic_matches(text, m) == text \in {<<m[1]>>, <<m[1] \o m[2]>>}

node_accepts(node, token) ==
    /\ token.suffix = "none" \/ node.suffixed
    /\ \E m \in node.names : mnemonic_matches(token.text, m)

NoMatch == [matched |-> FALSE, suffixes |-> <<>>]

\* match_pattern(): an optional node is tried present first.  suffixes has an
\* entry for each suffixed node that was present.
RECURSIVE match_pattern(_, _, _)
match_pattern(pattern, tokens, suffixes) ==
    IF pattern = <<>>
    THEN IF tokens = <<>> THEN [matched |-> TRUE, suffixes |-> suffixes] ELSE NoMatch
    ELSE LET node == Head(pattern)
             present == IF tokens = <<>> \/ ~node_accepts(node, Head(tokens)) THEN NoMatch
                        ELSE match_pattern(Tail(pattern), Tail(tokens),
                                 IF node.suffixed THEN Append(suffixes, Head(tokens).suffix)
                                 ELSE suffixes)
         IN  IF present.matched \/ ~node.optional THEN present
             ELSE match_pattern(Tail(pattern), tokens, suffixes)

Undefined == [key |-> "undefined", suffixes |-> <<>>]

\* The key of the first row that matches, with the suffixes.
find_command(tokens) ==
    LET hits == {i \in DOMAIN kCommandSpecs :
                    match_pattern(kCommandSpecs[i].pattern, tokens, <<>>).matched}
    IN  IF hits = {} THEN Undefined
        ELSE [key |-> kCommandSpecs[Min(hits)].key,
              suffixes |-> match_pattern(kCommandSpecs[Min(hits)].pattern, tokens, <<>>).suffixes]

-----------------------------------------------------------------------------
(* The spellings of a row: the headers its pattern was written for, each   *)
(* with the suffixes they should deliver.  A header is spelled in short or *)
(* in long forms throughout.                                               *)

\* The ways to write one node, absent included.
NodeSpellings(node, form) ==
    {[nodes |-> << <<IF form = "short" THEN m[1] ELSE m[1] \o m[2]>> >>,
      suffixes |-> IF node.suffixed THEN <<"none">> ELSE <<>>] : m \in node.names}
    \union {[nodes |-> << <<IF form = "short" THEN m[1] ELSE m[1] \o m[2], "2">> >>,
             suffixes |-> <<"2">>] : m \in IF node.suffixed THEN node.names ELSE {}}
    \union IF node.optional THEN {[nodes |-> <<>>, suffixes |-> <<>>]} ELSE {}

\* The ways to write the first n nodes of a pattern, and all of them.
PatternSpellings(pattern, form) ==
    LET prefix[n \in 0 .. Len(pattern)] ==
            IF n = 0 THEN {[nodes |-> <<>>, suffixes |-> <<>>]}
            ELSE {[nodes |-> a.nodes \o b.nodes, suffixes |-> a.suffixes \o b.suffixes] :
                     a \in prefix[n - 1], b \in NodeSpellings(pattern[n], form)}
    IN  prefix[Len(pattern)]

Spellings(i) ==
    PatternSpellings(kCommandSpecs[i].pattern, "short")
        \union PatternSpellings(kCommandSpecs[i].pattern, "long")
=============================================================================
