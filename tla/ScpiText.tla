------------------------------ MODULE ScpiText ------------------------------
(***************************************************************************)
(* The text of SCPI commands and responses, on both ends of the line: how  *)
(* ScpiClient builds and reads it and how the simulator takes it apart.    *)
(*                                                                         *)
(* A text is a sequence of symbols.  A symbol is a punctuation mark, one   *)
(* blank, a number, or a word that the code never looks into.  Headers are *)
(* written in upper case, which the simulator turns them into before it    *)
(* compares; words of a parameter may be in lower case.                    *)
(***************************************************************************)
EXTENDS Integers, Sequences, SequencesExt

Blank == " "
Quotes == {"\"", "'"}
Numbers == {"0", "1", "2", "3", "9", "460", "-109", "-113", "-221", "-224"}

\* The words in lower case, each with its capitals.
Capitals == [a |-> "A", b |-> "B", off |-> "OFF"]

\* What is not a word in lower case stays as it is.
upper(text) ==
    [i \in DOMAIN text |-> IF text[i] \in DOMAIN Capitals THEN Capitals[text[i]] ELSE text[i]]

trim(s) ==
    LET ink == {i \in DOMAIN s : s[i] # Blank}
    IN  IF ink = {} THEN <<>> ELSE SubSeq(s, Min(ink), Max(ink))

\* The simulator's split_unquoted(): cut at each separator outside quotes.  A
\* quote is closed by the mark that opened it, or never.
split_unquoted(text, separator) ==
    LET Take(acc, c) ==
            IF acc.quote # "none"
            THEN [acc EXCEPT !.current = Append(@, c),
                             !.quote = IF c = @ THEN "none" ELSE @]
            ELSE IF c \in Quotes THEN [acc EXCEPT !.current = Append(@, c), !.quote = c]
            ELSE IF c = separator
            THEN [acc EXCEPT !.parts = Append(@, acc.current), !.current = <<>>]
            ELSE [acc EXCEPT !.current = Append(@, c)]
        last == FoldLeft(Take, [quote |-> "none", current |-> <<>>, parts |-> <<>>], text)
    IN  Append(last.parts, last.current)

\* The client's split_csv(): the fields are trimmed, and a blank line has none.
split_csv(line) ==
    LET fields == split_unquoted(line, ",")
    IN  IF trim(line) = <<>> THEN <<>> ELSE [i \in DOMAIN fields |-> trim(fields[i])]

quote(s) == <<"\"">> \o s \o <<"\"">>

unquote(text) ==
    LET s == trim(text)
    IN  IF Len(s) >= 2 /\ s[1] \in Quotes /\ s[Len(s)] = s[1]
        THEN SubSeq(s, 2, Len(s) - 1) ELSE s

\* The texts one after the other with a comma between them.
join(texts) ==
    FoldLeft(LAMBDA out, t : IF out = <<>> THEN t ELSE out \o <<",">> \o t, <<>>, texts)

quote_join(values) == join([i \in DOMAIN values |-> quote(values[i])])

\* ScpiClient::query_strings() on a response.
query_strings(response) ==
    LET fields == split_csv(response) IN [i \in DOMAIN fields |-> unquote(fields[i])]

-----------------------------------------------------------------------------
(* Errors as text.                                                         *)

Malformed == "ProtocolError"

\* strtol() reads the number a field begins with.
starts_with_number(field) == field # <<>> /\ field[1] \in Numbers

\* What SYST:ERR? answers for the entry e, and for none.
error_text(e) == <<e.code, ",">> \o quote(e.message)
no_error_text == <<"0", ",">> \o quote(<<"No error">>)

\* SYST:ERR:ALL? puts the entries into one line.
all_errors_text(entries) ==
    IF entries = <<>> THEN no_error_text
    ELSE join([i \in DOMAIN entries |-> error_text(entries[i])])

\* Mutant: the last pair is one field too far.
parse_errors_short(line) ==
    LET fields == split_csv(line)
        codes == [i \in 1 .. (Len(fields) - 1) \div 2 |-> fields[2 * i - 1]]
    IN  IF \E i \in DOMAIN codes : ~starts_with_number(codes[i]) THEN <<Malformed>>
        ELSE SelectSeq([i \in DOMAIN codes |-> codes[i][1]], LAMBDA c : c # "0")

\* parse_errors(): the codes of the pairs, without those of "No error"; a
\* field left over at the end is dropped unless nothing else was read.
parse_errors(line) ==
    LET fields == split_csv(line)
        codes == [i \in 1 .. Len(fields) \div 2 |-> fields[2 * i - 1]]
        malformed == \E i \in DOMAIN codes : ~starts_with_number(codes[i])
        read == SelectSeq([i \in DOMAIN codes |-> codes[i][1]], LAMBDA c : c # "0")
    IN  IF malformed \/ (read = <<>> /\ Len(fields) % 2 # 0) THEN <<Malformed>> ELSE read
=============================================================================
