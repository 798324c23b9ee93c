---------------------------- MODULE CommandLine ----------------------------
(***************************************************************************)
(* NormaSimulator::handle_line(): a line of text is cut into pieces, each  *)
(* piece into a header and parameters, the header is completed by the path *)
(* that earlier pieces of the line left, and finds its row of the command  *)
(* table.  What the handlers then do is in module SimulatorCommands; here  *)
(* a command is accepted or fails, and the commands that write the list of *)
(* functions do so, so that what the library writes can be compared with   *)
(* what it would read back.                                                *)
(***************************************************************************)
EXTENDS CommandHeader, CommandShapes

CONSTANT Clients  \* what the client of a behaviour sends, by its name: lines (a
                  \* text, and for each piece the command its writer meant), lists
                  \* for set_functions(), and a bound on the queued errors

Unknown == [key |-> "unknown", suffixes |-> <<>>]

ASSUME CommandLineAssumption ==
    /\ \A c \in DOMAIN Clients : DOMAIN Clients[c] = {"lines", "lists", "errors"}
    /\ \A c \in DOMAIN Clients : \A l \in Clients[c].lines : DOMAIN l = {"text", "meant"}

\* Every row of the table has a handler: execute() never runs into the
\* execution error it keeps for a simulator bug.
ASSUME RowsHandled == \A i \in DOMAIN kCommandSpecs : kCommandSpecs[i].key \in AllKeys

VARIABLES client,     \* the name of the client
          pieces,     \* what handle_line() has left of the line
          path,       \* the nodes carried over to the next piece
          functions,  \* state_.functions
          concurrent, \* state_.concurrent: FUNC takes more than one function
          errors,     \* state_.errors
          meant,      \* history: what is left of the writer's commands
          ran,        \* history: the headers of this line, and what they found
          sent        \* history: the list set_functions() sent, until it is handled,
                      \* and the functions there were before

lineVars == <<client, pieces, path, functions, concurrent, errors, meant, ran, sent>>

NoneSent == [names |-> <<>>, before |-> <<>>]

LineInit ==
    /\ client \in DOMAIN Clients
    /\ pieces = <<>> /\ path = <<>>
    /\ functions = <<>> /\ concurrent = TRUE /\ errors = <<>>
    /\ meant = <<>> /\ ran = <<>>
    /\ sent = NoneSent

-----------------------------------------------------------------------------
(* One piece of a line.                                                    *)

\* The parameters, cut at the commas outside quotes.
arguments(parameters) ==
    LET parts == split_unquoted(parameters, ",")
    IN  IF parameters = <<>> THEN <<>> ELSE [i \in DOMAIN parts |-> trim(parts[i])]

\* The nodes of a header as it is written, without a leading colon.
own_tokens(header) ==
    LET nodes == split_unquoted(header, ":") IN [i \in DOMAIN nodes |-> make_token(nodes[i])]

leads(header, c) == header # <<>> /\ header[1] = c
without_query(header) ==
    IF header # <<>> /\ Last(header) = "?" THEN Front(header) ELSE header

\* NormaSimulator::Command, of a piece's text, its header as it is written,
\* and the header without the question mark.
Command(text, written, header) ==
    [text |-> text, query |-> written # header, header |-> header,
     common |-> leads(header, "*"), absolute |-> leads(header, ":"),
     own |-> own_tokens(IF leads(header, ":") THEN Tail(header) ELSE header),
     args |-> arguments(trim(SubSeq(text, Len(written) + 2, Len(text))))]

\* The header ends at the first blank outside quotes.
parse_header(text, written) == Command(text, written, without_query(written))
parse_text(text) == parse_header(text, split_unquoted(text, Blank)[1])
parse_piece(piece) == parse_text(trim(piece))

\* Mutant: a leading colon does not clear the path.
full_tokens_keeps_path(c) == path \o c.own

\* The header with the path in front, unless a colon leads it.
full_tokens(c) == (IF c.absolute THEN <<>> ELSE path) \o c.own

\* Two of the keys of handle_common() stand for all of them.
CommonKeys == {"RST", "OPC"}

\* handle_common() knows the key, or the table has a row for the header.
find(c) ==
    IF c.common
    THEN IF Len(c.header) = 2 /\ c.header[2] \in CommonKeys
         THEN [key |-> "*" \o c.header[2], suffixes |-> <<>>] ELSE Undefined
    ELSE find_command(full_tokens(c))

\* An error with its text; the texts echo what was sent.
push_error(code, message) ==
    errors' = Append(errors, [code |-> code, message |-> message])

\* Mutant: a common command takes the path away.
path_after_common(c) == IF c.common THEN <<>> ELSE Front(full_tokens(c))

\* A command sets the path to all of its nodes but the last, whether or not it
\* is known; a common command leaves it.
path_after(c) == IF c.common THEN path ELSE Front(full_tokens(c))

\* The path and the history move on; rest is what is still to be handled.
Step(c, found, rest) ==
    /\ pieces' = rest
    /\ path' = path_after(c)
    /\ ran' = Append(ran, [common |-> c.common, absolute |-> c.absolute, own |-> c.own,
                           found |-> found,
                           meant |-> IF meant = <<>> THEN Unknown ELSE meant[1]])
    /\ meant' = IF meant = <<>> THEN <<>> ELSE Tail(meant)
    /\ UNCHANGED <<client, sent>>

\* A command that is not carried out: the rest of the line is not looked at.
Rejected(c, found, code, message) ==
    /\ Step(c, found, <<>>)
    /\ push_error(code, message)
    /\ UNCHANGED <<functions, concurrent>>

MissingParameter(c, found) ==
    c.args = <<>> /\ Rejected(c, found, "-109", <<"Missing parameter">>)

IllegalParameter(c, found, parameter) ==
    Rejected(c, found, "-224", <<"Illegal parameter value", ";">> \o parameter)

\* query_only(), command_only().
WrongForm(c, found) ==
    Rejected(c, found, "-113", <<"Undefined header", ";", found.key>>
                               \o IF c.query THEN <<"?">> ELSE <<>>)

\* A command that is carried out, or answered.
Accepted(c, found, names, on) ==
    /\ Step(c, found, Tail(pieces))
    /\ functions' = names /\ concurrent' = on
    /\ UNCHANGED errors

\* Any handler but those below accepts the command, or rejects it for its
\* parameter.
HandledPiece(c, found) ==
    \/ Accepted(c, found, functions, concurrent)
    \/ c.args # <<>> /\ IllegalParameter(c, found, unquote(c.args[1]))

-----------------------------------------------------------------------------
(* The list of functions.                                                  *)

\* Mutant: every quotation mark of a name is dropped.
read_function_list_strips(args) ==
    [i \in DOMAIN args |-> upper(SelectSeq(args[i], LAMBDA c : c \notin Quotes))]

\* The names of a list that is in order, without their quotes.
read_function_list(args) == [i \in DOMAIN args |-> upper(unquote(args[i]))]

unquoted(c) == {i \in DOMAIN c.args : Len(c.args[i]) < 2 \/ c.args[i][1] \notin Quotes}
listed(c) == c.args # <<>> /\ unquoted(c) = {}

\* The first name without quotes spoils all of the list.
ListRejected(c, found) ==
    \/ MissingParameter(c, found)
    \/ unquoted(c) # {} /\ IllegalParameter(c, found, c.args[Min(unquoted(c))])

\* FUNC with a list, which replaces the configured one; of one function only
\* while CONCurrent is OFF.
FunctionPiece(c, found) ==
    LET one_of_n == ~concurrent /\ Len(c.args) > 1
    IN  \/ c.query /\ Accepted(c, found, functions, concurrent)
        \/ ~c.query /\ ListRejected(c, found)
        \/ /\ ~c.query /\ listed(c) /\ one_of_n
           /\ Rejected(c, found, "-221",
                       <<"Settings conflict", ";", "FUNCtion", ":", "CONCurrent", "is OFF">>)
        \/ /\ ~c.query /\ listed(c) /\ ~one_of_n
           /\ Accepted(c, found, read_function_list(c.args), concurrent)

\* parse_boolean(), for the texts it takes.
Switch == <<"ON">> :> TRUE @@ <<"OFF">> :> FALSE
          @@ [text \in {<<n>> : n \in Numbers} |-> text # <<"0">>]

\* FUNC:CONC; turning it off cuts the list down to its first function.
ConcurrentPiece(c, found) ==
    \/ c.query /\ Accepted(c, found, functions, concurrent)
    \/ ~c.query /\ MissingParameter(c, found)
    \/ /\ ~c.query /\ c.args # <<>> /\ upper(c.args[1]) \notin DOMAIN Switch
       /\ IllegalParameter(c, found, c.args[1])
    \/ /\ ~c.query /\ c.args # <<>> /\ upper(c.args[1]) \in DOMAIN Switch
       /\ LET on == Switch[upper(c.args[1])]
              kept == IF concurrent /\ ~on /\ functions # <<>> THEN <<functions[1]>>
                      ELSE functions
          IN  Accepted(c, found, kept, on)

\* DATA? and DATA:STAT? with a list, which replaces the configured one, also
\* while CONCurrent is OFF.
DataPiece(c, found) ==
    \/ ~c.query /\ WrongForm(c, found)
    \/ c.query /\ c.args = <<>> /\ Accepted(c, found, functions, concurrent)
    \/ c.query /\ c.args # <<>> /\ ListRejected(c, found)
    \/ c.query /\ listed(c) /\ Accepted(c, found, read_function_list(c.args), concurrent)

\* FUNC:ALL, FUNC:OFF:ALL and *RST have no parameter and no query.
EventPiece(c, found, names, on) ==
    \/ c.query /\ WrongForm(c, found)
    \/ ~c.query /\ Accepted(c, found, names, on)

AllFunctions ==
    [i \in 1 .. 3 |-> <<"VOLT", <<"1", "2", "3">>[i]>>]
    \o [i \in 1 .. 3 |-> <<"CURR", <<"1", "2", "3">>[i]>>]
    \o [i \in 1 .. 3 |-> <<"POW", <<"1", "2", "3">>[i], ":", "ACT">>]
    \o <<<<"FREQ">>, <<"TIME">>>>

ListKeys == {"FUNC", "FUNC:CONC", "FUNC:ALL", "FUNC:OFF:ALL", "DATA", "DATA:STAT", "*RST"}

\* The command of a piece, and the row its header found.
RunPiece(c, found) ==
    \/ /\ found = Undefined
       /\ Rejected(c, found, "-113", <<"Undefined header", ";">> \o c.text)
    \/ found.key = "FUNC" /\ FunctionPiece(c, found)
    \/ found.key = "FUNC:CONC" /\ ConcurrentPiece(c, found)
    \/ found.key \in {"DATA", "DATA:STAT"} /\ DataPiece(c, found)
    \/ found.key = "FUNC:ALL" /\ EventPiece(c, found, AllFunctions, concurrent)
    \/ found.key = "FUNC:OFF:ALL" /\ EventPiece(c, found, <<>>, concurrent)
    \/ found.key = "*RST" /\ EventPiece(c, found, <<>>, TRUE)
    \/ found # Undefined /\ found.key \notin ListKeys /\ HandledPiece(c, found)

BlankPiece ==
    /\ pieces # <<>> /\ trim(Head(pieces)) = <<>>
    /\ pieces' = Tail(pieces)
    /\ UNCHANGED <<client, path, functions, concurrent, errors, meant, ran, sent>>

NextPiece ==
    /\ pieces # <<>> /\ trim(Head(pieces)) # <<>>
    /\ \E c \in {parse_piece(Head(pieces))} : RunPiece(c, find(c))

-----------------------------------------------------------------------------
(* Lines.                                                                  *)

\* handle_line() begins with an empty path.
handle_line(text, commands, names) ==
    /\ pieces = <<>> /\ ran = <<>>
    /\ Len(errors) < Clients[client].errors
    /\ pieces' = split_unquoted(text, ";")
    /\ meant' = commands
    /\ sent' = [names |-> names, before |-> IF names = <<>> THEN <<>> ELSE functions]
    /\ UNCHANGED <<client, path, functions, concurrent, errors, ran>>

\* It returns, and its path goes with it.
LineHandled ==
    /\ pieces = <<>> /\ ran # <<>>
    /\ path' = <<>> /\ meant' = <<>> /\ ran' = <<>> /\ sent' = NoneSent
    /\ UNCHANGED <<client, pieces, functions, concurrent, errors>>

RawLine == \E l \in Clients[client].lines : handle_line(l.text, l.meant, <<>>)

\* NormaInstrument::set_functions() refuses an empty list and sends FUNC with
\* the names in quotes.
SetFunctions ==
    \E names \in Clients[client].lists :
        /\ names # <<>>
        /\ handle_line(<<"FUNC", Blank>> \o quote_join(names),
                       <<[key |-> "FUNC", suffixes |-> <<>>]>>, names)

\* *CLS, or a client that reads the queue.
ErrorsTaken ==
    /\ pieces = <<>> /\ ran = <<>> /\ errors # <<>>
    /\ errors' = <<>>
    /\ UNCHANGED <<client, pieces, path, functions, concurrent, meant, ran, sent>>

LineNext ==
    \/ RawLine
    \/ SetFunctions
    \/ BlankPiece
    \/ NextPiece
    \/ LineHandled
    \/ ErrorsTaken

LineSpec == LineInit /\ [][LineNext]_lineVars

-----------------------------------------------------------------------------
(* Properties.                                                             *)

\* A header written from a pattern, in short or long form, with or without
\* optional nodes and suffixes, at the start of a line or after a colon, finds
\* the row with that pattern and delivers the suffixes: no earlier row of
\* kCommandSpecs shadows it, and nothing before it in the line changes it.
FindsItsRow ==
    ran # <<>> /\ Last(ran).meant # Unknown => Last(ran).found = Last(ran).meant

\* What the newest header of the line is in full: the levels of the headers
\* from the last absolute one on, without common commands, and its own nodes.
FullHeader ==
    LET from == Max({1} \union {j \in DOMAIN ran : ran[j].absolute})
        Levels(j) == IF ran[j].common THEN <<>> ELSE Front(ran[j].own)
    IN  FlattenSeq([j \in 1 .. Len(ran) - from |-> Levels(from + j - 1)]) \o Last(ran).own

\* "The second command (after the semicolon) then starts at the level below
\* the shared levels": a relative header finds what its full form would find,
\* also when common commands come in between.
RelativeAsInFull ==
    ran # <<>> /\ ~Last(ran).common => Last(ran).found = find_command(FullHeader)

Plain(s) == \A i \in DOMAIN s : s[i] # "\""

\* What set_functions() sent is what functions() would return, in upper case,
\* whatever blanks, separators and apostrophes the names have in them.  With
\* CONCurrent OFF, whoever turned it off, several names are refused, with an
\* error for it, and the functions stay as they were.
FunctionsReadBack ==
    LET names == sent.names
        read == query_strings(quote_join(functions))
    IN  pieces = <<>> /\ ran # <<>> /\ names # <<>> /\ (\A i \in DOMAIN names : Plain(names[i]))
            => IF concurrent \/ Len(names) = 1
               THEN read = [i \in DOMAIN names |-> upper(names[i])]
               ELSE functions = sent.before /\ errors # <<>> /\ Last(errors).code = "-221"

Codes == [i \in DOMAIN errors |-> errors[i].code]

\* read_errors_at_once() returns every queued error, as long as no text that
\* was echoed has a quotation mark in it.
ErrorsAtOnceComplete ==
    (\A i \in DOMAIN errors : Plain(errors[i].message))
        => parse_errors(all_errors_text(errors)) = Codes

\* The response to SYST:ERR:ALL? as docs/Fluke-NORMA-TCP-API.md describes it:
\* the pairs are separated by semicolons.
documented_errors_text ==
    FoldLeft(LAMBDA out, e : IF out = <<>> THEN error_text(e) ELSE out \o <<";">> \o error_text(e),
             <<>>, errors)

\* read_errors_at_once() on an instrument that answers as documented.
DocumentedErrorsRead ==
    errors # <<>> /\ (\A i \in DOMAIN errors : Plain(errors[i].message))
        => parse_errors(documented_errors_text) = Codes
=============================================================================
