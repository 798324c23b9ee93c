--------------------------- MODULE MCCommandLine ---------------------------
(* Every header the patterns allow, alone in a line; a few headers that    *)
(* share levels, in lines of several commands; parameters and function     *)
(* names with every punctuation mark in them, and all the commands that    *)
(* write the list of functions.                                            *)
EXTENDS CommandLine

Written(nodes) == FoldLeft(LAMBDA out, n : IF out = <<>> THEN n ELSE out \o <<":">> \o n, <<>>, nodes)
Meant(i, s) == [key |-> kCommandSpecs[i].key, suffixes |-> s.suffixes]

\* The lines of one header.
Alone ==
    UNION {{[text |-> Written(s.nodes), meant |-> <<Meant(i, s)>>] : s \in Spellings(i)} :
           i \in DOMAIN kCommandSpecs}

\* Rows whose levels other headers share, written in full.
SharedKeys == {"VOLT#:SCAL", "SYNC:LEV", "TRIG:STAR:LEV", "CALC:INT:STAR:SOUR", "INP#:SHUN"}
Shared ==
    UNION {{[text |-> Written(s.nodes), meant |-> <<Meant(i, s)>>] :
               s \in {s \in PatternSpellings(kCommandSpecs[i].pattern, "long") :
                         Len(s.nodes) = Len(kCommandSpecs[i].pattern)}} :
           i \in {i \in DOMAIN kCommandSpecs : kCommandSpecs[i].key \in SharedKeys}}

\* What follows a shared level, with and without parameters.
Relative ==
    {<<"GAIN">>, <<"SLOP">>, <<"RANG", ":", "AUTO", "?">>, <<"TIME">>, <<"LEV", "?">>,
     <<"STOP">>, <<"*", "OPC">>, <<"*", "XXX">>, <<>>}
Parameters ==
    {<<"0">>, <<"\"", "a", ",", "0", "\"">>, <<"'", "\"", ",", "'">>, <<"\"", "a", ";", "'", "\"">>}

Several ==
    {[text |-> a.text \o <<";">> \o r \o <<";">> \o q, meant |-> a.meant] :
        a \in Shared, r \in Relative, q \in {<<"SLOP">>, <<"SOUR", "?">>}}
    \union {[text |-> a.text \o <<";">> \o r \o <<";", ":">> \o b.text,
             meant |-> a.meant \o <<Unknown>> \o b.meant] :
        a \in Shared, r \in Relative \ {<<>>}, b \in {b \in Shared : Len(b.text) < 6}}

WithParameters ==
    {[text |-> h \o <<Blank>> \o p, meant |-> <<>>] :
        h \in {<<"APER">>, <<"FUNC">>, <<"DATA", "?">>, <<"XXX">>}, p \in Parameters}

\* The other commands that write the list of functions, or refuse to.
ListCommands ==
    LET header == <<"FUNC", ":", "CONC">>
    IN  {[text |-> header \o <<Blank, p>>, meant |-> <<>>] : p \in {"ON", "off", "0", "a"}}
        \union {[text |-> t, meant |-> <<>>] :
                    t \in {Append(header, "?"), <<"FUNC", "?">>, <<"FUNC", ":", "ALL">>,
                           <<"FUNC", ":", "ALL", "?">>, <<"FUNC", ":", "OFF", ":", "ALL">>,
                           <<"DATA", "?">>, <<"DATA">>, <<"*", "RST">>, <<"*", "RST", "?">>}}

NamesSent ==
    LET names == {<<"VOLT", "1">>, <<"a", ",", "b">>, <<"'">>, <<Blank, ";", Blank>>, <<"\"", ";">>}
    IN  {<<n>> : n \in names} \union {<<n, <<"VOLT", "1">>>> : n \in names}

BothClients ==
    "headers" :> [lines |-> Alone \union Several, lists |-> {}, errors |-> 1]
    @@ "texts" :> [lines |-> WithParameters \union ListCommands, lists |-> NamesSent,
                   errors |-> 2]
=============================================================================
