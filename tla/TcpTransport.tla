---------------------------- MODULE TcpTransport ----------------------------
(***************************************************************************)
(* TcpTransport and the connection it owns.  Every operation runs the      *)
(* io_context until it completes or its timeout expires; on a timeout      *)
(* run_operation() closes the socket, so that the answer, should it still  *)
(* come, has nowhere to arrive.                                            *)
(*                                                                         *)
(* A line towards the instrument is the call that wrote it and whether it  *)
(* is a query.  An answer is two fragments, as TCP may deliver a line in   *)
(* pieces: the first without and the second with the '\n' that read_line() *)
(* looks for.  The bytes of the fragments are left out.                    *)
(***************************************************************************)
EXTENDS Sequences, Naturals

CONSTANTS Calls,     \* the calls that use the transport
          MaxOpens   \* bound on the connections opened in one behaviour

ASSUME TcpTransportAssumption == MaxOpens \in Nat

VARIABLES socket,  \* "open"; "closed" by close(); "timed_out": closed by run_operation()
          rx,      \* Impl::rx, what was received beyond the last returned line
          peer,    \* the instrument's end of the connection: "up" or "gone"
          up,      \* lines written and not yet handled by the instrument
          down,    \* fragments sent by the instrument and not yet received
          opens    \* connections opened so far

linkVars == <<socket, rx, peer, up, down, opens>>

Line == [call : Calls, query : BOOLEAN]
Fragment == [call : Calls, last : BOOLEAN]

is_open == socket = "open"

LinkInit ==
    /\ socket = "closed"
    /\ rx = <<>>
    /\ peer = "gone"
    /\ up = <<>>
    /\ down = <<>>
    /\ opens = 0

-----------------------------------------------------------------------------
(* open() and close().                                                     *)

\* A new connection has nothing in flight.  rx is left as it is.
connect_succeeds ==
    /\ ~is_open
    /\ opens < MaxOpens
    /\ opens' = opens + 1
    /\ socket' = "open"
    /\ peer' = "up"
    /\ up' = <<>>
    /\ down' = <<>>
    /\ UNCHANGED rx

\* The host does not resolve (the socket stays as it was), the connection is
\* refused (the socket is closed), or connecting times out.
connect_fails ==
    /\ ~is_open
    /\ socket' \in {socket, "closed", "timed_out"}
    /\ UNCHANGED <<rx, peer, up, down, opens>>

\* Mutant: close() forgets the bytes it already received.
close_keeps_rx ==
    /\ socket' = "closed"
    /\ peer' = "gone"
    /\ UNCHANGED <<rx, up, down, opens>>

\* close() always clears rx, whether or not the socket was open.
close ==
    /\ socket' = "closed"
    /\ rx' = <<>>
    /\ peer' = "gone"
    /\ UNCHANGED <<up, down, opens>>

\* run_operation() on a timeout: only the socket is closed.
close_on_timeout ==
    /\ socket' = "timed_out"
    /\ peer' = "gone"
    /\ UNCHANGED <<rx, down, opens>>

-----------------------------------------------------------------------------
(* write() and read_line().  The callers say what becomes of the call.     *)

\* The lines leave; once the peer is gone they leave for nowhere.
write_succeeds(lines) ==
    /\ is_open
    /\ up' = up \o lines
    /\ UNCHANGED <<socket, rx, peer, down, opens>>

\* The peer has reset the connection: ConnectionError, and the socket is not
\* closed.
write_fails ==
    /\ is_open
    /\ peer = "gone"
    /\ UNCHANGED linkVars

\* The timeout expires with the lines delivered or not.
write_times_out(lines) ==
    /\ is_open
    /\ close_on_timeout
    /\ up' \in {up, up \o lines}

\* A '\n' is in rx: async_read_until() completes.
has_line == \E i \in 1 .. Len(rx) : rx[i].last

\* More bytes arrive while async_read_until() waits.
receive ==
    /\ is_open
    /\ ~has_line
    /\ down # <<>>
    /\ rx' = Append(rx, Head(down))
    /\ down' = Tail(down)
    /\ UNCHANGED <<socket, peer, up, opens>>

line_length == CHOOSE n \in 1 .. Len(rx) : rx[n].last /\ \A i \in 1 .. n - 1 : ~rx[i].last

\* rx.erase(0, length): what follows the line stays for the next read.
line_taken == rx' = SubSeq(rx, line_length + 1, Len(rx))

read_succeeds ==
    /\ is_open
    /\ has_line
    /\ line_taken
    /\ UNCHANGED <<socket, peer, up, down, opens>>

\* End of stream or reset: ConnectionError, socket and rx stay as they are.
read_fails ==
    /\ is_open
    /\ ~has_line
    /\ down = <<>>
    /\ peer = "gone"
    /\ UNCHANGED linkVars

\* Mutant: the socket survives a read timeout.
read_times_out_open ==
    /\ is_open
    /\ ~has_line
    /\ UNCHANGED linkVars

read_times_out ==
    /\ is_open
    /\ ~has_line
    /\ close_on_timeout
    /\ UNCHANGED up

-----------------------------------------------------------------------------
(* The instrument's end, as far as the transport sees it.                  *)

AnswerTo(c) == <<[call |-> c, last |-> FALSE], [call |-> c, last |-> TRUE]>>

\* The instrument handles one line.  It answers a query unless it rejected it
\* or is stalled.
InstrumentHandles ==
    /\ peer = "up"
    /\ up # <<>>
    /\ up' = Tail(up)
    /\ \/ /\ Head(up).query
          /\ down' = down \o AnswerTo(Head(up).call)
       \/ UNCHANGED down
    /\ UNCHANGED <<socket, rx, peer, opens>>

\* The instrument closes the connection (disconnect_client() of the simulator
\* server does); what it sent last may or may not get through.
InstrumentDrops ==
    /\ peer = "up"
    /\ peer' = "gone"
    /\ \E n \in 0 .. Len(down) : down' = SubSeq(down, 1, n)
    /\ UNCHANGED <<socket, rx, up, opens>>
=============================================================================
