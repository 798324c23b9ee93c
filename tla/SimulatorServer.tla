-------------------------- MODULE SimulatorServer --------------------------
(***************************************************************************)
(* SimulatorServer: one io_context thread that runs accept, read and post  *)
(* handlers, the threads that call stop() and disconnect_client(), and the *)
(* clients on the other side of the sockets.                               *)
(*                                                                         *)
(* The io_context (asio, external) is a first-in-first-out queue of        *)
(* handlers that are ready to run and a set of operations that wait for    *)
(* the network.  An operation that can be completed when it is started is  *)
(* queued at once; for one that waits the network event is queued, and the *)
(* operation is performed when the event's turn comes, if it still waits.  *)
(* run() returns when nothing is queued and nothing waits.  Closing a      *)
(* socket queues the operation that waits on it with an error.             *)
(*                                                                         *)
(* A client sends whole lines; a line is the client that sent it.          *)
(***************************************************************************)
EXTENDS Naturals, Sequences

CONSTANTS Clients,   \* clients that may connect, each one once
          Nobody,    \* an empty std::optional of a client
          MaxLines   \* bound on the lines of one client that wait unread

ASSUME SimulatorServerAssumption == Nobody \notin Clients /\ MaxLines \in Nat

VARIABLES ready,        \* handlers ready to run, first in first out: "accepted",
                        \* "accept_error", "line", "read_error", "stop", "disconnect",
                        \* and the network events "acceptable" and "readable"
          waiting,      \* operations waiting for the network: "accept", "read"
          io,           \* the io thread: "idle", "accepting" between the check
                        \* of stopping and accept_next(), "returned" from run()
          acceptor,     \* "open" or "closed"
          client,       \* Impl::client
          client_open,  \* its socket is open
          rx,           \* Impl::rx, as the senders of the lines in it
          stopping,     \* Impl::stopping
          stalled,      \* Impl::stalled
          backlog,      \* clients connected to the port and not yet accepted
          newcomer,     \* the socket an "accepted" handler in the queue carries
          peer,         \* each client's end: "new", "in" or "left"
          unread,       \* the lines each client has sent that nobody received
          stopper,      \* the thread in stop(): "idle", "posting", "joining", "stopped"
          caller,       \* the thread in disconnect_client(): "idle", "waiting", "returned"
          target        \* history: the client when disconnect_client() was called

loop == <<ready, waiting, io>>
sockets == <<acceptor, client, client_open, rx>>
network == <<backlog, newcomer, peer, unread>>
threads == <<stopping, stalled, stopper, caller, target>>
vars == <<loop, sockets, network, threads>>

Init ==
    /\ ready = <<>> /\ waiting = {"accept"} /\ io = "idle"
    /\ acceptor = "open" /\ client = Nobody /\ client_open = FALSE /\ rx = <<>>
    /\ stopping = FALSE /\ stalled = FALSE
    /\ backlog = <<>> /\ newcomer = Nobody
    /\ peer = [c \in Clients |-> "new"] /\ unread = [c \in Clients |-> 0]
    /\ stopper = "idle" /\ caller = "idle" /\ target = Nobody

-----------------------------------------------------------------------------
(* Starting an operation.  rest is what the queue holds besides it.        *)

\* accept_next(): a client that already waits is accepted on the spot.
accept_next(rest) ==
    CASE acceptor = "closed" ->
            /\ ready' = Append(rest, "accept_error")
            /\ UNCHANGED <<waiting, backlog, newcomer>>
      [] acceptor = "open" /\ backlog # <<>> ->
            /\ ready' = Append(rest, "accepted")
            /\ newcomer' = Head(backlog)
            /\ backlog' = Tail(backlog)
            /\ UNCHANGED waiting
      [] OTHER ->
            /\ ready' = rest
            /\ waiting' = waiting \union {"accept"}
            /\ UNCHANGED <<backlog, newcomer>>

\* async_read_until() on the socket of c, with buffer what rx holds by now.
start_read(rest, c, open, buffer) ==
    CASE buffer # <<>> ->
            /\ ready' = Append(rest, "line")
            /\ rx' = buffer
            /\ UNCHANGED <<waiting, unread>>
      [] buffer = <<>> /\ open /\ unread[c] > 0 ->
            /\ ready' = Append(rest, "line")
            /\ \E n \in 1 .. unread[c] :
                  /\ rx' = [i \in 1 .. n |-> c]
                  /\ unread' = [unread EXCEPT ![c] = @ - n]
            /\ UNCHANGED waiting
      [] buffer = <<>> /\ (~open \/ (unread[c] = 0 /\ peer[c] = "left")) ->
            /\ ready' = Append(rest, "read_error")
            /\ rx' = buffer
            /\ UNCHANGED <<waiting, unread>>
      [] OTHER ->
            /\ ready' = rest
            /\ waiting' = waiting \union {"read"}
            /\ rx' = buffer
            /\ UNCHANGED unread

\* read_next(): without a client there is nothing to read from.
read_next(rest, buffer) ==
    IF client = Nobody
    THEN accept_next(rest) /\ rx' = buffer /\ UNCHANGED unread
    ELSE start_read(rest, client, client_open, buffer) /\ UNCHANGED <<backlog, newcomer>>

\* Closing a socket: the operation on it, if any, is queued with its error.
abort(rest, ops) ==
    /\ waiting' = waiting \ ops
    /\ ready' = rest \o (IF "accept" \in waiting \intersect ops THEN <<"accept_error">> ELSE <<>>)
                     \o (IF "read" \in waiting \intersect ops THEN <<"read_error">> ELSE <<>>)

-----------------------------------------------------------------------------
(* The handlers.                                                           *)

\* Mutant: what the last client left in rx is not cleared.
on_accept_keeps_rx(rest, c) ==
    /\ client' = c
    /\ client_open' = TRUE
    /\ start_read(rest, c, TRUE, rx)
    /\ UNCHANGED <<io, acceptor, peer, threads>>

\* The completion of async_accept with a socket.
on_accept(rest, c) ==
    /\ client' = c
    /\ client_open' = TRUE
    /\ start_read(rest, c, TRUE, <<>>)
    /\ UNCHANGED <<io, acceptor, peer, threads>>

\* The completion of async_accept with an error: the acceptor was closed.
on_accept_error(rest) ==
    /\ ready' = rest
    /\ UNCHANGED <<waiting, io, sockets, network, threads>>

\* Mutant: the server waits for no other client.
on_line_error_ends(rest) ==
    /\ client' = Nobody
    /\ client_open' = FALSE
    /\ rx' = <<>>
    /\ ready' = rest
    /\ UNCHANGED <<io, waiting, acceptor, network, threads>>

\* on_line() with an error: the client closed, or the server closed on it.
\* The check of stopping and accept_next() are two steps.
on_line_error(rest) ==
    /\ client' = Nobody
    /\ client_open' = FALSE
    /\ rx' = <<>>
    /\ ready' = rest
    /\ io' = IF stopping THEN "idle" ELSE "accepting"
    /\ UNCHANGED <<waiting, acceptor, network, threads>>

\* on_line() with a line that has no answer, or one that is sent, or one that
\* is not sent because the server is stalled or the client is gone.
on_line_answered(rest) ==
    /\ read_next(rest, Tail(rx))
    /\ UNCHANGED <<io, acceptor, client, client_open, peer, threads>>

\* The write fails: on a closed socket always, on a connection whose peer has
\* left perhaps.
write_can_fail ==
    /\ ~stalled
    /\ client # Nobody
    /\ ~client_open \/ peer[client] = "left"

\* Mutant: the return after a failed write is missing.
on_line_write_fails_goes_on(rest) ==
    /\ write_can_fail
    /\ client' = Nobody
    /\ client_open' = FALSE
    /\ rx' = Tail(rx)
    /\ ready' = rest
    /\ waiting' = waiting \union {"accept"}
    /\ io' = IF stopping THEN "idle" ELSE "accepting"
    /\ UNCHANGED <<acceptor, network, threads>>

\* The lines left in rx stay there; the next client clears it.
on_line_write_fails(rest) ==
    /\ write_can_fail
    /\ client' = Nobody
    /\ client_open' = FALSE
    /\ rx' = Tail(rx)
    /\ ready' = rest
    /\ io' = IF stopping THEN "idle" ELSE "accepting"
    /\ UNCHANGED <<waiting, acceptor, network, threads>>

\* Mutant: the acceptor stays open.
stop_handler_listens(rest) ==
    /\ client' = Nobody
    /\ client_open' = FALSE
    /\ abort(rest, {"read"})
    /\ UNCHANGED <<io, acceptor, rx, network, threads>>

\* The handler that stop() posts.
stop_handler(rest) ==
    /\ acceptor' = "closed"
    /\ client' = Nobody
    /\ client_open' = FALSE
    /\ abort(rest, {"accept", "read"})
    /\ UNCHANGED <<io, rx, network, threads>>

\* Mutant: the caller is told before anything is closed.
disconnect_handler_early(rest) ==
    /\ ready' = rest
    /\ caller' = "returned"
    /\ UNCHANGED <<waiting, client_open, io, acceptor, client, rx, network, stopping, stalled, stopper, target>>

\* The handler that disconnect_client() posts: the client stays in its
\* optional, closed.
disconnect_handler(rest) ==
    /\ IF client # Nobody
       THEN client_open' = FALSE /\ abort(rest, {"read"})
       ELSE ready' = rest /\ UNCHANGED <<client_open, waiting>>
    /\ caller' = "returned"
    /\ UNCHANGED <<io, acceptor, client, rx, network, stopping, stalled, stopper, target>>

-----------------------------------------------------------------------------
(* The io thread.                                                          *)

\* The next ready handler runs.
Dispatch ==
    /\ io = "idle"
    /\ ready # <<>>
    /\ LET rest == Tail(ready) IN
       \/ /\ Head(ready) = "accepted"
          /\ newcomer' = Nobody
          /\ on_accept(rest, newcomer)
          /\ UNCHANGED backlog
       \/ Head(ready) = "accept_error" /\ on_accept_error(rest)
       \/ Head(ready) = "read_error" /\ on_line_error(rest)
       \/ Head(ready) = "line" /\ on_line_answered(rest)
       \/ Head(ready) = "line" /\ on_line_write_fails(rest)
       \/ Head(ready) = "stop" /\ stop_handler(rest)
       \/ Head(ready) = "disconnect" /\ disconnect_handler(rest)

\* accept_next() after the check of stopping.
AcceptNext ==
    /\ io = "accepting"
    /\ io' = "idle"
    /\ accept_next(ready)
    /\ UNCHANGED <<sockets, peer, unread, threads>>

Queued(h) == \E i \in 1 .. Len(ready) : ready[i] = h

CanAccept == "accept" \in waiting /\ backlog # <<>>
CanRead == "read" \in waiting /\ (unread[client] > 0 \/ peer[client] = "left")

\* The network has something for an operation that waits.
NetworkEvent ==
    /\ io = "idle"
    /\ \/ CanAccept /\ ~Queued("acceptable") /\ ready' = Append(ready, "acceptable")
       \/ CanRead /\ ~Queued("readable") /\ ready' = Append(ready, "readable")
    /\ UNCHANGED <<waiting, io, sockets, network, threads>>

\* The operation of an event whose turn has come is performed; its handler
\* runs next.  An event nobody waits for any more is dropped.
AcceptEvent ==
    /\ io = "idle" /\ ready # <<>> /\ Head(ready) = "acceptable"
    /\ IF CanAccept
       THEN /\ waiting' = waiting \ {"accept"}
            /\ ready' = <<"accepted">> \o Tail(ready)
            /\ newcomer' = Head(backlog)
            /\ backlog' = Tail(backlog)
       ELSE ready' = Tail(ready) /\ UNCHANGED <<waiting, newcomer, backlog>>
    /\ UNCHANGED <<io, sockets, peer, unread, threads>>

ReadEvent ==
    /\ io = "idle" /\ ready # <<>> /\ Head(ready) = "readable"
    /\ IF CanRead
       THEN /\ waiting' = waiting \ {"read"}
            /\ \/ \E n \in 1 .. unread[client] :
                     /\ rx' = [i \in 1 .. n |-> client]
                     /\ unread' = [unread EXCEPT ![client] = @ - n]
                     /\ ready' = <<"line">> \o Tail(ready)
               \/ /\ unread[client] = 0
                  /\ ready' = <<"read_error">> \o Tail(ready)
                  /\ UNCHANGED <<rx, unread>>
       ELSE ready' = Tail(ready) /\ UNCHANGED <<waiting, rx, unread>>
    /\ UNCHANGED <<io, acceptor, client, client_open, backlog, newcomer, peer, threads>>

\* Nothing to run and nothing to wait for.  The handler that leaves it so ends
\* run(): a handler posted from now on stays in the queue for ever.
OutOfWork == io = "idle" /\ ready = <<>> /\ waiting = {}

RunReturns ==
    /\ OutOfWork
    /\ io' = "returned"
    /\ UNCHANGED <<ready, waiting, sockets, network, threads>>

-----------------------------------------------------------------------------
(* The other threads.                                                      *)

StopSetsFlag ==
    /\ stopper = "idle"
    /\ stopping' = TRUE
    /\ stopper' = "posting"
    /\ UNCHANGED <<loop, sockets, network, stalled, caller, target>>

StopPosts ==
    /\ stopper = "posting"
    /\ ~OutOfWork
    /\ ready' = Append(ready, "stop")
    /\ stopper' = "joining"
    /\ UNCHANGED <<waiting, io, sockets, network, stopping, stalled, caller, target>>

StopJoins ==
    /\ stopper = "joining"
    /\ io = "returned"
    /\ stopper' = "stopped"
    /\ UNCHANGED <<loop, sockets, network, stopping, stalled, caller, target>>

disconnect_client ==
    /\ caller \in {"idle", "returned"}
    /\ ~OutOfWork
    /\ caller' = "waiting"
    /\ target' = client
    /\ ready' = Append(ready, "disconnect")
    /\ UNCHANGED <<waiting, io, sockets, network, stopping, stalled, stopper>>

set_stalled ==
    /\ stalled' = ~stalled
    /\ UNCHANGED <<loop, sockets, network, stopping, stopper, caller, target>>

-----------------------------------------------------------------------------
(* The clients.  The port takes connections until the acceptor is closed.  *)

Connect(c) ==
    /\ peer[c] = "new"
    /\ acceptor = "open"
    /\ peer' = [peer EXCEPT ![c] = "in"]
    /\ backlog' = Append(backlog, c)
    /\ UNCHANGED <<loop, sockets, newcomer, unread, threads>>

Send(c) ==
    /\ peer[c] = "in"
    /\ unread[c] < MaxLines
    /\ unread' = [unread EXCEPT ![c] = @ + 1]
    /\ UNCHANGED <<loop, sockets, backlog, newcomer, peer, threads>>

Leave(c) ==
    /\ peer[c] = "in"
    /\ peer' = [peer EXCEPT ![c] = "left"]
    /\ UNCHANGED <<loop, sockets, backlog, newcomer, unread, threads>>

Next ==
    \/ Dispatch
    \/ AcceptNext
    \/ NetworkEvent
    \/ AcceptEvent
    \/ ReadEvent
    \/ RunReturns
    \/ StopSetsFlag
    \/ StopPosts
    \/ StopJoins
    \/ disconnect_client
    \/ set_stalled
    \/ \E c \in Clients : Connect(c) \/ Send(c) \/ Leave(c)

\* The io thread runs what is ready in its order; it polls the network between
\* handlers, however many of them keep coming.  stop() goes on to the join.
Fairness ==
    /\ WF_vars(Dispatch)
    /\ WF_vars(AcceptNext)
    /\ WF_vars(AcceptEvent)
    /\ WF_vars(ReadEvent)
    /\ WF_vars(RunReturns)
    /\ SF_vars(NetworkEvent)
    /\ WF_vars(StopPosts)
    /\ WF_vars(StopJoins)

Spec == Init /\ [][Next]_vars
FairSpec == Spec /\ Fairness
-----------------------------------------------------------------------------
(* Properties.                                                             *)

\* The completed operations of the accept-read chain, by their place in the
\* queue.
Chain == {"accepted", "accept_error", "line", "read_error"}
Outstanding == {i \in 1 .. Len(ready) : ready[i] \in Chain}

\* "the server accepts one client at a time": there is never more than one
\* operation of the accept-read chain, completed, waiting or about to start,
\* so no client is accepted over another one and no line is read twice
\* (accept_next(), read_next(), on_line()).
OneAtATime ==
    /\ \A i, j \in Outstanding : i = j
    /\ waiting # {} \/ io = "accepting" => Outstanding = {}
    /\ ~(waiting # {} /\ io = "accepting")
    /\ waiting # {"accept", "read"}

\* Until stop() is called the chain is never broken, whichever way a client
\* goes: its own close, disconnect_client(), or a failed write.
ServesUntilStopped ==
    ~stopping => /\ io # "returned"
                 /\ acceptor = "open"
                 /\ \/ io = "accepting"
                    \/ waiting # {}
                    \/ Outstanding # {}

\* Lines in rx are the current client's: what one client sent last is never
\* executed on behalf of the next (on_line(), accept_next()).
LinesOfCurrentClient ==
    client # Nobody => \A i \in 1 .. Len(rx) : rx[i] = client

\* "the caller waits for it, so a test can rely on the connection being gone
\* when this returns" (disconnect_client()).
GoneOnReturn ==
    caller = "returned" /\ target # Nobody => ~(client = target /\ client_open)

\* disconnect_client() returns, unless the server is being stopped.
DisconnectReturns ==
    caller = "waiting" ~> caller = "returned" \/ stopping

\* stop() returns once the clients have left of their own accord.
StopReturnsOnceClientsLeave ==
    <>[](\A c \in Clients : peer[c] # "in") => (stopping ~> stopper = "stopped")
=============================================================================
