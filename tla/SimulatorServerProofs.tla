----------------------- MODULE SimulatorServerProofs -----------------------
(***************************************************************************)
(* What the server of the simulator promises, for any number of clients    *)
(* and any number of lines, calls of disconnect_client() and posted        *)
(* handlers.  The accept-read chain is a token: it is one completed        *)
(* operation in the queue, or one that waits for the network, or the io    *)
(* thread on its way into accept_next().  ChainInv says that there is one  *)
(* token at most and what it carries, StopInv that nothing ends the chain  *)
(* before stop() is called, OnceInv that a socket is accepted once,        *)
(* AcceptInv that nobody is connected while the server accepts.            *)
(***************************************************************************)
EXTENDS SimulatorServer, SequenceTheorems, TLAPS

Handlers == Chain \union {"stop", "disconnect", "acceptable", "readable"}

In(s, h) == \E i \in 1 .. Len(s) : s[i] = h
None(s) == \A i \in 1 .. Len(s) : s[i] \notin Chain
One(s) == \A i, j \in 1 .. Len(s) : s[i] \in Chain /\ s[j] \in Chain => i = j

Types ==
    /\ ready \in Seq(Handlers)
    /\ waiting \in {{}, {"accept"}, {"read"}}
    /\ io \in {"idle", "accepting", "returned"}
    /\ acceptor \in {"open", "closed"}
    /\ client \in Clients \union {Nobody}
    /\ rx \in Seq(Clients)
    /\ backlog \in Seq(Clients)
    /\ newcomer \in Clients \union {Nobody}
    /\ peer \in [Clients -> {"new", "in", "left"}]
    /\ unread \in [Clients -> Nat]
    /\ target \in Clients \union {Nobody}

ChainInv ==
    /\ One(ready)
    /\ waiting # {} \/ io = "accepting" => None(ready)
    /\ waiting # {} => io # "accepting"
    /\ In(ready, "line") => rx # <<>>
    /\ In(ready, "accepted") => newcomer # Nobody
    /\ "read" \in waiting => client # Nobody

Token == ~None(ready) \/ waiting # {} \/ io = "accepting"

StopInv ==
    ~stopping => /\ stopper = "idle"
                 /\ io # "returned"
                 /\ acceptor = "open"
                 /\ Token
                 /\ ~In(ready, "stop")
                 /\ ~In(ready, "accept_error")

LoopInv == Types /\ ChainInv /\ StopInv /\ LinesOfCurrentClient

-----------------------------------------------------------------------------
(* The queue of handlers.                                                  *)

\* The queue without its first handler.
LEMMA QueueTail ==
  ASSUME NEW s \in Seq(Handlers), s # <<>>
  PROVE  /\ Tail(s) \in Seq(Handlers) /\ Head(s) \in Handlers
         /\ In(s, Head(s))
         /\ \A h : In(Tail(s), h) => In(s, h)
         /\ One(s) => One(Tail(s))
         /\ None(s) => None(Tail(s))
         /\ One(s) /\ Head(s) \in Chain => None(Tail(s))
         /\ None(Tail(s)) /\ Head(s) \notin Chain => None(s)
<1>1. /\ Len(s) \in Nat /\ Len(s) >= 1
      /\ Tail(s) \in Seq(Handlers) /\ Len(Tail(s)) = Len(s) - 1
      /\ \A i \in 1 .. Len(s) - 1 : Tail(s)[i] = s[i + 1]
      /\ Head(s) = s[1] /\ Head(s) \in Handlers
  BY HeadTailProperties, EmptySeq, LenProperties
<1> DEFINE t == Tail(s)
<1> HIDE DEF t
<1>2. /\ Len(t) = Len(s) - 1 /\ \A i \in 1 .. Len(s) - 1 : t[i] = s[i + 1]
  BY <1>1 DEF t
<1>3. In(s, s[1]) /\ \A h : In(t, h) => In(s, h)
  BY <1>1, <1>2 DEF In
<1>4. One(s) => One(t)
  <2> SUFFICES ASSUME One(s), NEW i \in 1 .. Len(t), NEW j \in 1 .. Len(t),
                      t[i] \in Chain, t[j] \in Chain
               PROVE  i = j
    BY DEF One
  <2>1. i + 1 \in 1 .. Len(s) /\ j + 1 \in 1 .. Len(s) /\ t[i] = s[i + 1] /\ t[j] = s[j + 1]
    BY <1>1, <1>2
  <2>2. i + 1 = j + 1
    BY <2>1 DEF One
  <2> QED
    BY <2>2
<1>5. None(s) => None(t)
  BY <1>1, <1>2 DEF None
<1>6. One(s) /\ s[1] \in Chain => None(t)
  <2> SUFFICES ASSUME One(s), s[1] \in Chain, NEW i \in 1 .. Len(t), t[i] \in Chain
               PROVE  FALSE
    BY DEF None
  <2>1. i + 1 \in 1 .. Len(s) /\ 1 \in 1 .. Len(s) /\ t[i] = s[i + 1]
    BY <1>1, <1>2
  <2>2. i + 1 = 1
    BY <2>1 DEF One
  <2> QED
    BY <2>2
<1>7. None(t) /\ s[1] \notin Chain => None(s)
  <2> SUFFICES ASSUME None(t), s[1] \notin Chain, NEW i \in 1 .. Len(s)
               PROVE  s[i] \notin Chain
    BY DEF None
  <2>1. CASE i = 1
    BY <2>1
  <2>2. CASE i # 1
    <3>1. i - 1 \in 1 .. Len(t) /\ i - 1 + 1 = i
      BY <1>1, <1>2, <2>2
    <3>2. t[i - 1] = s[i]
      BY <1>2, <3>1
    <3> QED
      BY <3>1, <3>2 DEF None
  <2> QED
    BY <2>1, <2>2
<1> QED
  BY <1>1, <1>3, <1>4, <1>5, <1>6, <1>7 DEF t

\* A handler is queued behind the others.
LEMMA QueueAppend ==
  ASSUME NEW s \in Seq(Handlers), NEW h \in Handlers
  PROVE  /\ Append(s, h) \in Seq(Handlers)
         /\ \A k : In(Append(s, h), k) <=> In(s, k) \/ k = h
         /\ None(Append(s, h)) <=> None(s) /\ h \notin Chain
         /\ None(s) => One(Append(s, h))
         /\ One(s) /\ h \notin Chain => One(Append(s, h))
<1> DEFINE t == Append(s, h)
<1>1. /\ t \in Seq(Handlers) /\ Len(s) \in Nat /\ Len(t) = Len(s) + 1
      /\ t[Len(s) + 1] = h /\ \A i \in 1 .. Len(s) : t[i] = s[i]
  BY AppendProperties, LenProperties
<1> HIDE DEF t
<1>2. \A i \in 1 .. Len(t) : i \in 1 .. Len(s) \/ i = Len(s) + 1
  BY <1>1
<1>3. \A i \in 1 .. Len(s) : i \in 1 .. Len(t)
  BY <1>1
<1>4. Len(s) + 1 \in 1 .. Len(t)
  BY <1>1
<1>5. \A k : In(t, k) <=> In(s, k) \/ k = h
  BY <1>1, <1>2, <1>3, <1>4 DEF In
<1>6. None(t) <=> None(s) /\ h \notin Chain
  BY <1>1, <1>2, <1>3, <1>4 DEF None
<1>7. None(s) => One(t)
  BY <1>1, <1>2 DEF None, One
<1>8. One(s) /\ h \notin Chain => One(t)
  BY <1>1, <1>2 DEF One
<1> QED
  BY <1>1, <1>5, <1>6, <1>7, <1>8 DEF t

\* A handler runs next.
LEMMA QueuePrepend ==
  ASSUME NEW s \in Seq(Handlers), NEW h \in Handlers
  PROVE  /\ <<h>> \o s \in Seq(Handlers)
         /\ \A k : In(<<h>> \o s, k) <=> In(s, k) \/ k = h
         /\ None(<<h>> \o s) <=> None(s) /\ h \notin Chain
         /\ None(s) => One(<<h>> \o s)
<1> DEFINE t == <<h>> \o s
<1>1. /\ t \in Seq(Handlers) /\ Len(s) \in Nat /\ Len(t) = Len(s) + 1
      /\ t[1] = h /\ \A i \in 1 .. Len(s) : t[i + 1] = s[i]
  OBVIOUS
<1> HIDE DEF t
<1>2. \A i \in 1 .. Len(t) : i = 1 \/ (i - 1 \in 1 .. Len(s) /\ t[i] = s[i - 1])
  BY <1>1
<1>3. \A i \in 1 .. Len(s) : i + 1 \in 1 .. Len(t)
  BY <1>1
<1>4. 1 \in 1 .. Len(t)
  BY <1>1
<1>5. \A k : In(t, k) <=> In(s, k) \/ k = h
  BY <1>1, <1>2, <1>3, <1>4 DEF In
<1>6. None(t) <=> None(s) /\ h \notin Chain
  BY <1>1, <1>2, <1>3, <1>4 DEF None
<1>7. None(s) => One(t)
  BY <1>1, <1>2 DEF None, One
<1> QED
  BY <1>1, <1>5, <1>6, <1>7 DEF t

-----------------------------------------------------------------------------
(* What starting and aborting an operation does to the token.              *)

\* The token after a step that started an operation on a queue without one:
\* it is there, once, and the queue holds no other new handler than those in
\* added.
Placed(rest, added) ==
    /\ ready' \in Seq(Handlers)
    /\ One(ready')
    /\ waiting' # {} => None(ready')
    /\ waiting' = {} => ~None(ready')
    /\ \A h : In(ready', h) => In(rest, h) \/ h \in added

\* accept_next() leaves an accept operation, completed or waiting.
LEMMA AcceptNextPlaces ==
  ASSUME Types, NEW rest \in Seq(Handlers), None(rest), waiting = {}, accept_next(rest)
  PROVE  /\ waiting' \in {{}, {"accept"}}
         /\ acceptor = "open" => Placed(rest, {"accepted"})
         /\ Placed(rest, {"accepted", "accept_error"})
         /\ \/ UNCHANGED <<backlog, newcomer>> /\ ~In(ready', "accepted")
            \/ /\ backlog # <<>>
               /\ newcomer' = Head(backlog) /\ backlog' = Tail(backlog)
<1>0. /\ "accept_error" \in Handlers /\ "accepted" \in Handlers
      /\ "accept_error" \in Chain /\ "accepted" \in Chain
      /\ "accepted" # "accept_error" /\ ~In(rest, "accepted")
  BY DEF Handlers, Chain, None, In
<1>1. CASE acceptor = "closed"
  <2>1. ready' = Append(rest, "accept_error") /\ UNCHANGED <<waiting, backlog, newcomer>>
    BY <1>1 DEF accept_next
  <2> QED
    BY <1>0, <1>1, <2>1, QueueAppend DEF Placed
<1>2. CASE acceptor = "open" /\ backlog # <<>>
  <2>1. /\ ready' = Append(rest, "accepted") /\ waiting' = waiting
        /\ newcomer' = Head(backlog) /\ backlog' = Tail(backlog)
    BY <1>2 DEF accept_next
  <2> QED
    BY <1>0, <1>2, <2>1, QueueAppend DEF Placed
<1>3. CASE acceptor = "open" /\ backlog = <<>>
  <2>1. ready' = rest /\ waiting' = {"accept"} /\ UNCHANGED <<backlog, newcomer>>
    BY <1>3 DEF accept_next
  <2>2. One(rest)
    BY DEF None, One
  <2> QED
    BY <1>0, <2>1, <2>2 DEF Placed
<1> QED
  BY <1>1, <1>2, <1>3 DEF Types

\* async_read_until() leaves a read operation, completed or waiting; a
\* completed one that has a line has it from the buffer or from the client.
LEMMA StartReadPlaces ==
  ASSUME Types, NEW rest \in Seq(Handlers), None(rest), waiting = {},
         NEW c \in Clients, NEW open, NEW buffer \in Seq(Clients),
         start_read(rest, c, open, buffer)
  PROVE  /\ waiting' \in {{}, {"read"}}
         /\ Placed(rest, {"line", "read_error"})
         /\ rx' \in Seq(Clients) /\ unread' \in [Clients -> Nat]
         /\ In(ready', "line") => rx' # <<>>
         /\ rx' = buffer \/ \A i \in 1 .. Len(rx') : rx'[i] = c
<1>0. /\ "line" \in Handlers /\ "read_error" \in Handlers
      /\ "line" \in Chain /\ "read_error" \in Chain /\ ~In(rest, "line")
  BY DEF Handlers, Chain, None, In
<1>1. unread \in [Clients -> Nat] /\ unread[c] \in Nat
  BY DEF Types
<1>2. CASE buffer # <<>>
  <2>1. ready' = Append(rest, "line") /\ rx' = buffer /\ UNCHANGED <<waiting, unread>>
    BY <1>2 DEF start_read
  <2> QED
    BY <1>0, <1>1, <1>2, <2>1, QueueAppend DEF Placed
<1>3. CASE buffer = <<>> /\ open /\ unread[c] > 0
  <2>1. /\ ready' = Append(rest, "line") /\ waiting' = waiting
        /\ \E n \in 1 .. unread[c] : /\ rx' = [i \in 1 .. n |-> c]
                                     /\ unread' = [unread EXCEPT ![c] = @ - n]
    BY <1>3 DEF start_read
  <2>2. PICK n \in 1 .. unread[c] : /\ rx' = [i \in 1 .. n |-> c]
                                    /\ unread' = [unread EXCEPT ![c] = @ - n]
    BY <2>1
  <2>3. unread' \in [Clients -> Nat]
    BY <1>1, <2>2
  <2>4. rx' \in Seq(Clients) /\ Len(rx') = n /\ \A i \in 1 .. n : rx'[i] = c
    BY <1>1, <2>2
  <2>5. rx' # <<>>
    BY <2>4
  <2> QED
    BY <1>0, <2>1, <2>3, <2>4, <2>5, QueueAppend DEF Placed
<1>4. CASE buffer = <<>> /\ (~open \/ (unread[c] = 0 /\ peer[c] = "left"))
  <2>1. ready' = Append(rest, "read_error") /\ rx' = buffer /\ UNCHANGED <<waiting, unread>>
    BY <1>4 DEF start_read
  <2>2. "line" # "read_error"
    OBVIOUS
  <2> QED
    BY <1>0, <1>1, <2>1, <2>2, QueueAppend DEF Placed
<1>5. CASE /\ buffer = <<>> /\ ~(open /\ unread[c] > 0)
           /\ ~(~open \/ (unread[c] = 0 /\ peer[c] = "left"))
  <2>1. ready' = rest /\ waiting' = {"read"} /\ rx' = buffer /\ unread' = unread
    BY <1>5 DEF start_read
  <2>2. One(rest)
    BY DEF None, One
  <2> QED
    BY <1>0, <1>1, <2>1, <2>2 DEF Placed
<1> QED
  BY <1>2, <1>3, <1>4, <1>5

\* Closing a socket turns the operation that waits on it into one that has
\* completed with its error; the token is kept.
LEMMA AbortKeepsToken ==
  ASSUME Types, NEW rest \in Seq(Handlers), One(rest), waiting # {} => None(rest),
         NEW ops, abort(rest, ops)
  PROVE  /\ ready' \in Seq(Handlers)
         /\ waiting' \in {{}, {"accept"}, {"read"}} /\ waiting' \subseteq waiting \ ops
         /\ One(ready')
         /\ waiting' # {} => None(ready')
         /\ ~None(rest) \/ waiting # {} => ~None(ready') \/ waiting' # {}
         /\ waiting = {} => ready' = rest
         /\ \A h : In(ready', h) =>
               \/ In(rest, h)
               \/ h = "accept_error" /\ "accept" \in ops
               \/ h = "read_error"
<1>0. /\ "accept_error" \in Handlers /\ "read_error" \in Handlers
      /\ "accept_error" \in Chain /\ "read_error" \in Chain
  BY DEF Handlers, Chain
<1>1. /\ waiting' = waiting \ ops
      /\ ready' = rest \o (IF "accept" \in waiting \intersect ops THEN <<"accept_error">> ELSE <<>>)
                       \o (IF "read" \in waiting \intersect ops THEN <<"read_error">> ELSE <<>>)
  BY DEF abort
<1>2. waiting \in {{}, {"accept"}, {"read"}}
  BY DEF Types
<1>3. CASE waiting \intersect ops = {}
  <2>1. ready' = rest \o <<>> \o <<>> /\ waiting' = waiting
    BY <1>1, <1>3
  <2>2. ready' = rest
    BY <2>1, ConcatEmptySeq
  <2> QED
    BY <1>2, <1>3, <2>1, <2>2
<1>4. CASE waiting = {"accept"} /\ "accept" \in ops
  <2>1. ready' = rest \o <<"accept_error">> \o <<>> /\ waiting' = {}
    BY <1>1, <1>4
  <2>2. ready' = Append(rest, "accept_error")
    BY <1>0, <2>1
  <2> QED
    BY <1>0, <1>4, <2>1, <2>2, QueueAppend
<1>5. CASE waiting = {"read"} /\ "read" \in ops
  <2>1. ready' = rest \o <<>> \o <<"read_error">> /\ waiting' = {}
    BY <1>1, <1>5
  <2>2. ready' = Append(rest, "read_error")
    BY <1>0, <2>1
  <2> QED
    BY <1>0, <1>5, <2>1, <2>2, QueueAppend
<1> QED
  BY <1>2, <1>3, <1>4, <1>5

-----------------------------------------------------------------------------
(* The loop invariant.                                                     *)

\* The started server waits for its first client.
LEMMA LoopInit == Init => LoopInv
<1> SUFFICES ASSUME Init PROVE LoopInv
  OBVIOUS
<1> USE SimulatorServerAssumption DEF Init
<1>1. ready \in Seq(Handlers) /\ Len(ready) = 0
  OBVIOUS
<1>2. Types
  BY <1>1 DEF Types
<1>3. ChainInv /\ StopInv
  BY <1>1 DEF ChainInv, StopInv, Token, One, None, In
<1>4. LinesOfCurrentClient
  BY DEF LinesOfCurrentClient
<1> QED
  BY <1>2, <1>3, <1>4 DEF LoopInv

\* The handler at the head of the queue, when it is the token.
LEMMA HeadIsToken ==
  ASSUME LoopInv, io = "idle", ready # <<>>, Head(ready) \in Chain
  PROVE  /\ Tail(ready) \in Seq(Handlers) /\ None(Tail(ready)) /\ One(Tail(ready))
         /\ waiting = {}
         /\ \A h : In(Tail(ready), h) => In(ready, h)
         /\ In(ready, Head(ready))
<1>1. ready \in Seq(Handlers) /\ One(ready) /\ (waiting # {} => None(ready))
  BY DEF LoopInv, Types, ChainInv
<1>2. /\ Tail(ready) \in Seq(Handlers) /\ None(Tail(ready)) /\ One(Tail(ready))
      /\ \A h : In(Tail(ready), h) => In(ready, h)
      /\ In(ready, Head(ready))
  BY <1>1, QueueTail
<1>3. ~None(ready)
  BY <1>2 DEF None, In
<1> QED
  BY <1>1, <1>2, <1>3

\* A new client: rx holds nothing but what it sent.
LEMMA AcceptedLoop ==
  ASSUME LoopInv, io = "idle", ready # <<>>, Head(ready) = "accepted",
         newcomer' = Nobody, on_accept(Tail(ready), newcomer), UNCHANGED backlog
  PROVE  LoopInv'
<1> DEFINE rest == Tail(ready)
<1>0. Head(ready) \in Chain
  BY DEF Chain
<1>1. /\ rest \in Seq(Handlers) /\ None(rest) /\ waiting = {}
      /\ (\A h : In(rest, h) => In(ready, h)) /\ In(ready, "accepted")
  BY <1>0, HeadIsToken
<1>2. newcomer \in Clients
  BY <1>1 DEF LoopInv, Types, ChainInv
<1>3. start_read(rest, newcomer, TRUE, <<>>) /\ client' = newcomer
      /\ UNCHANGED <<io, acceptor, peer, stopping, stopper, target>>
  BY DEF on_accept, threads
<1> HIDE DEF rest
<1>4. /\ waiting' \in {{}, {"read"}}
      /\ Placed(rest, {"line", "read_error"})
      /\ rx' \in Seq(Clients) /\ unread' \in [Clients -> Nat]
      /\ In(ready', "line") => rx' # <<>>
      /\ rx' = <<>> \/ \A i \in 1 .. Len(rx') : rx'[i] = newcomer
  <2>1. Types /\ <<>> \in Seq(Clients)
    BY DEF LoopInv
  <2> QED
    BY <1>1, <1>2, <1>3, <2>1, StartReadPlaces
<1>5. ~In(rest, "accepted")
  BY <1>1 DEF None, In, Chain
<1>6. Types'
  BY <1>2, <1>3, <1>4 DEF LoopInv, Types, Placed
<1>7. ChainInv'
  BY <1>2, <1>3, <1>4, <1>5, SimulatorServerAssumption DEF ChainInv, Placed
<1>8. StopInv'
  BY <1>1, <1>3, <1>4 DEF LoopInv, StopInv, Placed, Token
<1>9. LinesOfCurrentClient'
  BY <1>3, <1>4 DEF LinesOfCurrentClient
<1> QED
  BY <1>6, <1>7, <1>8, <1>9 DEF LoopInv

\* The accept operation ends with an error: stop() has closed the acceptor.
LEMMA AcceptErrorLoop ==
  ASSUME LoopInv, io = "idle", ready # <<>>, Head(ready) = "accept_error",
         on_accept_error(Tail(ready))
  PROVE  LoopInv'
<1>0. Head(ready) \in Chain
  BY DEF Chain
<1>1. /\ Tail(ready) \in Seq(Handlers) /\ None(Tail(ready)) /\ One(Tail(ready)) /\ waiting = {}
      /\ \A h : In(Tail(ready), h) => In(ready, h)
      /\ In(ready, "accept_error")
  BY <1>0, HeadIsToken
<1>2. /\ ready' = Tail(ready)
      /\ UNCHANGED <<waiting, io, acceptor, client, rx, backlog, newcomer, peer, unread,
                     stopping, stopper, target>>
  BY DEF on_accept_error, sockets, network, threads
<1>3. Types' /\ LinesOfCurrentClient'
  BY <1>1, <1>2 DEF LoopInv, Types, LinesOfCurrentClient
<1>4. ChainInv'
  BY <1>1, <1>2 DEF LoopInv, ChainInv
<1>5. StopInv'
  BY <1>1, <1>2 DEF LoopInv, StopInv
<1> QED
  BY <1>3, <1>4, <1>5 DEF LoopInv

\* A client is gone: the token is now the io thread itself, unless it found
\* stopping set.
LEMMA ClientGoneLoop ==
  ASSUME LoopInv, io = "idle", ready # <<>>, Head(ready) \in {"line", "read_error"},
         on_line_error(Tail(ready)) \/ (Head(ready) = "line" /\ on_line_write_fails(Tail(ready)))
  PROVE  LoopInv'
<1>0. Head(ready) \in Chain
  BY DEF Chain
<1>1. /\ Tail(ready) \in Seq(Handlers) /\ None(Tail(ready)) /\ One(Tail(ready)) /\ waiting = {}
      /\ \A h : In(Tail(ready), h) => In(ready, h)
      /\ In(ready, Head(ready))
  BY <1>0, HeadIsToken
<1>2. /\ ready' = Tail(ready) /\ client' = Nobody
      /\ io' = IF stopping THEN "idle" ELSE "accepting"
      /\ UNCHANGED <<waiting, acceptor, backlog, newcomer, peer, unread,
                     stopping, stopper, target>>
  BY DEF on_line_error, on_line_write_fails, network, threads
<1>3. rx' \in Seq(Clients)
  <2>1. CASE rx' = <<>>
    BY <2>1
  <2>2. CASE Head(ready) = "line" /\ rx' = Tail(rx)
    <3>1. rx \in Seq(Clients) /\ rx # <<>>
      BY <1>1, <2>2 DEF LoopInv, Types, ChainInv
    <3> QED
      BY <2>2, <3>1, HeadTailProperties
  <2> QED
    BY <2>1, <2>2 DEF on_line_error, on_line_write_fails
<1>4. ~In(Tail(ready), "line") /\ ~In(Tail(ready), "accepted")
  BY <1>1 DEF None, In, Chain
<1>5. Types'
  BY <1>1, <1>2, <1>3 DEF LoopInv, Types
<1>6. ChainInv'
  BY <1>1, <1>2, <1>4 DEF ChainInv
<1>7. StopInv'
  BY <1>1, <1>2 DEF LoopInv, StopInv, Token
<1>8. LinesOfCurrentClient'
  BY <1>2 DEF LinesOfCurrentClient
<1> QED
  BY <1>5, <1>6, <1>7, <1>8 DEF LoopInv

\* A line is done; the next read or, without a client, the next accept starts.
LEMMA AnsweredLoop ==
  ASSUME LoopInv, io = "idle", ready # <<>>, Head(ready) = "line",
         on_line_answered(Tail(ready))
  PROVE  LoopInv'
<1> DEFINE rest == Tail(ready)
<1>0. Head(ready) \in Chain
  BY DEF Chain
<1>1. /\ rest \in Seq(Handlers) /\ None(rest) /\ waiting = {}
      /\ (\A h : In(rest, h) => In(ready, h)) /\ In(ready, "line")
  BY <1>0, HeadIsToken
<1>2. ~In(rest, "line") /\ ~In(rest, "accepted")
  BY <1>1 DEF None, In, Chain
<1>3. /\ rx \in Seq(Clients) /\ rx # <<>> /\ Tail(rx) \in Seq(Clients)
      /\ Len(Tail(rx)) = Len(rx) - 1 /\ Len(rx) \in Nat
      /\ \A i \in 1 .. Len(rx) - 1 : Tail(rx)[i] = rx[i + 1]
  BY <1>1, HeadTailProperties, LenProperties DEF LoopInv, Types, ChainInv
<1>4. /\ read_next(rest, Tail(rx))
      /\ UNCHANGED <<io, acceptor, client, peer, stopping, stopper, target>>
  BY DEF on_line_answered, threads
<1> HIDE DEF rest
<1>5. CASE client = Nobody
  <2>1. accept_next(rest) /\ rx' = Tail(rx) /\ unread' = unread
    BY <1>4, <1>5 DEF read_next
  <2>2. /\ waiting' \in {{}, {"accept"}}
        /\ acceptor = "open" => Placed(rest, {"accepted"})
        /\ Placed(rest, {"accepted", "accept_error"})
        /\ \/ UNCHANGED <<backlog, newcomer>> /\ ~In(ready', "accepted")
           \/ backlog # <<>> /\ newcomer' = Head(backlog) /\ backlog' = Tail(backlog)
    BY <1>1, <2>1, AcceptNextPlaces DEF LoopInv
  <2>3. /\ backlog' \in Seq(Clients) /\ newcomer' \in Clients \union {Nobody}
        /\ In(ready', "accepted") => newcomer' # Nobody
    <3>1. backlog \in Seq(Clients) /\ newcomer \in Clients \union {Nobody}
      BY DEF LoopInv, Types
    <3>2. backlog # <<>> => Head(backlog) \in Clients /\ Tail(backlog) \in Seq(Clients)
      BY <3>1, HeadTailProperties
    <3> QED
      BY <2>2, <3>1, <3>2, SimulatorServerAssumption
  <2>4. Types'
    BY <1>3, <1>4, <2>1, <2>2, <2>3 DEF LoopInv, Types, Placed
  <2>5. ChainInv'
    BY <1>2, <1>4, <2>2, <2>3 DEF ChainInv, Placed
  <2>6. StopInv'
    BY <1>1, <1>4, <2>2 DEF LoopInv, StopInv, Placed, Token
  <2>7. LinesOfCurrentClient'
    BY <1>4, <1>5 DEF LinesOfCurrentClient
  <2> QED
    BY <2>4, <2>5, <2>6, <2>7 DEF LoopInv
<1>6. CASE client # Nobody
  <2>1. /\ start_read(rest, client, client_open, Tail(rx)) /\ UNCHANGED <<backlog, newcomer>>
        /\ client \in Clients
    BY <1>4, <1>6 DEF read_next, LoopInv, Types
  <2>2. /\ waiting' \in {{}, {"read"}}
        /\ Placed(rest, {"line", "read_error"})
        /\ rx' \in Seq(Clients) /\ unread' \in [Clients -> Nat]
        /\ In(ready', "line") => rx' # <<>>
        /\ rx' = Tail(rx) \/ \A i \in 1 .. Len(rx') : rx'[i] = client
    BY <1>1, <1>3, <2>1, StartReadPlaces DEF LoopInv
  <2>3. Types'
    BY <1>4, <2>1, <2>2 DEF LoopInv, Types, Placed
  <2>4. ChainInv'
    BY <1>2, <1>4, <1>6, <2>1, <2>2 DEF ChainInv, Placed
  <2>5. StopInv'
    <3>1. Token' /\ \A h \in {"stop", "accept_error"} : In(ready', h) => In(ready, h)
      BY <1>1, <2>2 DEF Placed, Token
    <3> QED
      BY <1>4, <3>1 DEF LoopInv, StopInv
  <2>6. ASSUME NEW i \in 1 .. Len(Tail(rx)) PROVE Tail(rx)[i] = client
    <3>1. i \in 1 .. Len(rx) - 1 /\ i + 1 \in 1 .. Len(rx)
      BY <1>3
    <3>2. Tail(rx)[i] = rx[i + 1]
      BY <1>3, <3>1
    <3> QED
      BY <1>6, <3>1, <3>2 DEF LoopInv, LinesOfCurrentClient
  <2>7. LinesOfCurrentClient'
    BY <1>4, <2>2, <2>6 DEF LinesOfCurrentClient
  <2> QED
    BY <2>3, <2>4, <2>5, <2>7 DEF LoopInv
<1> QED
  BY <1>5, <1>6

\* The handler at the head of the queue, when it is not the token.
LEMMA HeadIsNoToken ==
  ASSUME LoopInv, io = "idle", ready # <<>>, Head(ready) \notin Chain
  PROVE  /\ Tail(ready) \in Seq(Handlers) /\ One(Tail(ready))
         /\ waiting # {} => None(Tail(ready))
         /\ ~stopping => ~None(Tail(ready)) \/ waiting # {}
         /\ \A h : In(Tail(ready), h) => In(ready, h)
         /\ In(ready, Head(ready))
<1>1. ready \in Seq(Handlers) /\ One(ready) /\ (waiting # {} => None(ready))
  BY DEF LoopInv, Types, ChainInv
<1>2. ~stopping => ~None(ready) \/ waiting # {}
  BY DEF LoopInv, StopInv, Token
<1> QED
  BY <1>1, <1>2, QueueTail

\* The handler of stop() runs only once stop() was called.
LEMMA StopHandlerLoop ==
  ASSUME LoopInv, io = "idle", ready # <<>>, Head(ready) = "stop",
         stop_handler(Tail(ready))
  PROVE  LoopInv'
<1> DEFINE rest == Tail(ready)
           ops == {"accept", "read"}
<1>0. Head(ready) \notin Chain
  BY DEF Chain
<1>1. /\ rest \in Seq(Handlers) /\ One(rest) /\ (waiting # {} => None(rest))
      /\ (\A h : In(rest, h) => In(ready, h)) /\ In(ready, "stop")
  BY <1>0, HeadIsNoToken
<1>2. /\ abort(rest, ops) /\ acceptor' = "closed" /\ client' = Nobody
      /\ UNCHANGED <<io, rx, backlog, newcomer, peer, unread, stopping, stopper, target>>
  BY DEF stop_handler, network, threads
<1>3. stopping
  BY <1>1 DEF LoopInv, StopInv
<1> HIDE DEF rest
<1>4. /\ ready' \in Seq(Handlers)
      /\ waiting' \in {{}, {"accept"}, {"read"}} /\ waiting' \subseteq waiting \ ops
      /\ One(ready')
      /\ waiting' # {} => None(ready')
      /\ \A h : In(ready', h) => In(rest, h) \/ h \in {"accept_error", "read_error"}
  <2>1. Types
    BY DEF LoopInv
  <2> QED
    BY <1>1, <1>2, <2>1, AbortKeepsToken, Zenon
<1>5. Types' /\ LinesOfCurrentClient'
  BY <1>2, <1>4 DEF LoopInv, Types, LinesOfCurrentClient
<1>6. ChainInv'
  BY <1>1, <1>2, <1>4 DEF LoopInv, ChainInv
<1>7. StopInv'
  BY <1>2, <1>3 DEF StopInv
<1> QED
  BY <1>5, <1>6, <1>7 DEF LoopInv

\* The handler of disconnect_client() makes the read end with an error.
LEMMA DisconnectHandlerLoop ==
  ASSUME LoopInv, io = "idle", ready # <<>>, Head(ready) = "disconnect",
         disconnect_handler(Tail(ready))
  PROVE  LoopInv'
<1> DEFINE rest == Tail(ready)
           ops == {"read"}
<1>0. Head(ready) \notin Chain
  BY DEF Chain
<1>1. /\ rest \in Seq(Handlers) /\ One(rest) /\ (waiting # {} => None(rest))
      /\ (~stopping => ~None(rest) \/ waiting # {})
      /\ (\A h : In(rest, h) => In(ready, h))
  BY <1>0, HeadIsNoToken
<1>2. /\ abort(rest, ops) \/ (ready' = rest /\ waiting' = waiting)
      /\ UNCHANGED <<io, acceptor, client, rx, backlog, newcomer, peer, unread,
                     stopping, stopper, target>>
  BY DEF disconnect_handler, network
<1> HIDE DEF rest
<1>3. /\ ready' \in Seq(Handlers)
      /\ waiting' \in {{}, {"accept"}, {"read"}} /\ waiting' \subseteq waiting
      /\ One(ready')
      /\ waiting' # {} => None(ready')
      /\ ~None(rest) \/ waiting # {} => ~None(ready') \/ waiting' # {}
      /\ \A h : In(ready', h) => In(rest, h) \/ h = "read_error"
  <2>1. Types
    BY DEF LoopInv
  <2>2. CASE abort(rest, ops)
    <3>1. /\ ready' \in Seq(Handlers)
          /\ waiting' \in {{}, {"accept"}, {"read"}} /\ waiting' \subseteq waiting \ ops
          /\ One(ready')
          /\ waiting' # {} => None(ready')
          /\ ~None(rest) \/ waiting # {} => ~None(ready') \/ waiting' # {}
          /\ \A h : In(ready', h) =>
                \/ In(rest, h)
                \/ h = "accept_error" /\ "accept" \in ops
                \/ h = "read_error"
      BY <1>1, <2>1, <2>2, AbortKeepsToken, Zenon
    <3> QED
      BY <3>1
  <2>3. CASE ready' = rest /\ waiting' = waiting
    BY <1>1, <2>1, <2>3 DEF Types
  <2> QED
    BY <1>2, <2>2, <2>3
<1>4. Types' /\ LinesOfCurrentClient'
  BY <1>2, <1>3 DEF LoopInv, Types, LinesOfCurrentClient
<1>5. ChainInv'
  BY <1>1, <1>2, <1>3 DEF LoopInv, ChainInv
<1>6. StopInv'
  BY <1>1, <1>2, <1>3 DEF LoopInv, StopInv, Token
<1> QED
  BY <1>4, <1>5, <1>6 DEF LoopInv

\* accept_next() on its own: the io thread hands the token on.
LEMMA AcceptNextLoop ==
  ASSUME LoopInv, AcceptNext
  PROVE  LoopInv'
<1>1. /\ ready \in Seq(Handlers) /\ None(ready) /\ waiting = {}
      /\ ~In(ready, "line") /\ ~In(ready, "accepted")
  BY DEF LoopInv, Types, ChainInv, AcceptNext, None, In, Chain
<1>2. /\ accept_next(ready) /\ io' = "idle"
      /\ UNCHANGED <<acceptor, client, rx, peer, unread, stopping, stopper, target>>
  BY DEF AcceptNext, sockets, threads
<1>3. /\ waiting' \in {{}, {"accept"}}
      /\ acceptor = "open" => Placed(ready, {"accepted"})
      /\ Placed(ready, {"accepted", "accept_error"})
      /\ \/ UNCHANGED <<backlog, newcomer>> /\ ~In(ready', "accepted")
         \/ backlog # <<>> /\ newcomer' = Head(backlog) /\ backlog' = Tail(backlog)
  BY <1>1, <1>2, AcceptNextPlaces DEF LoopInv
<1>4. /\ backlog' \in Seq(Clients) /\ newcomer' \in Clients \union {Nobody}
      /\ In(ready', "accepted") => newcomer' # Nobody
  <2>1. backlog \in Seq(Clients) /\ newcomer \in Clients \union {Nobody}
    BY DEF LoopInv, Types
  <2>2. backlog # <<>> => Head(backlog) \in Clients /\ Tail(backlog) \in Seq(Clients)
    BY <2>1, HeadTailProperties
  <2> QED
    BY <1>3, <2>1, <2>2, SimulatorServerAssumption
<1>5. Types' /\ LinesOfCurrentClient'
  BY <1>2, <1>3, <1>4 DEF LoopInv, Types, LinesOfCurrentClient, Placed
<1>6. ChainInv'
  BY <1>1, <1>2, <1>3, <1>4 DEF ChainInv, Placed
<1>7. StopInv'
  BY <1>2, <1>3 DEF LoopInv, StopInv, Placed, Token
<1> QED
  BY <1>5, <1>6, <1>7 DEF LoopInv

\* A handler that is not the token is queued.
LEMMA QueuedLoop ==
  ASSUME LoopInv, NEW h \in Handlers \ Chain, ready' = Append(ready, h),
         h = "stop" => stopping,
         UNCHANGED <<waiting, io, acceptor, client, rx, backlog, newcomer, peer, unread, stopping>>,
         stopper' = stopper \/ stopping, target' \in Clients \union {Nobody}
  PROVE  LoopInv'
<1>1. ready \in Seq(Handlers)
  BY DEF LoopInv, Types
<1>2. /\ ready' \in Seq(Handlers)
      /\ \A k : In(ready', k) <=> In(ready, k) \/ k = h
      /\ None(ready') <=> None(ready)
      /\ One(ready) => One(ready')
  BY <1>1, QueueAppend
<1>3. h \notin {"accepted", "accept_error", "line", "read_error"}
  BY DEF Chain
<1>4. Types' /\ LinesOfCurrentClient'
  BY <1>2 DEF LoopInv, Types, LinesOfCurrentClient
<1>5. ChainInv'
  BY <1>2, <1>3 DEF LoopInv, ChainInv
<1>6. StopInv'
  BY <1>2, <1>3 DEF LoopInv, StopInv, Token
<1> QED
  BY <1>4, <1>5, <1>6 DEF LoopInv

\* An event nobody waits for any more leaves the queue.
LEMMA DroppedLoop ==
  ASSUME LoopInv, io = "idle", ready # <<>>, Head(ready) \notin Chain, ready' = Tail(ready),
         UNCHANGED <<waiting, io, acceptor, client, rx, backlog, newcomer, peer, unread,
                     stopping, stopper, target>>
  PROVE  LoopInv'
<1>1. /\ Tail(ready) \in Seq(Handlers) /\ One(Tail(ready))
      /\ waiting # {} => None(Tail(ready))
      /\ ~stopping => ~None(Tail(ready)) \/ waiting # {}
      /\ \A h : In(Tail(ready), h) => In(ready, h)
  BY HeadIsNoToken
<1>2. Types' /\ LinesOfCurrentClient'
  BY <1>1 DEF LoopInv, Types, LinesOfCurrentClient
<1>3. ChainInv'
  BY <1>1 DEF LoopInv, ChainInv
<1>4. StopInv'
  BY <1>1 DEF LoopInv, StopInv, Token
<1> QED
  BY <1>2, <1>3, <1>4 DEF LoopInv

\* The waiting accept is performed: the token moves to the head of the queue.
LEMMA AcceptEventLoop ==
  ASSUME LoopInv, AcceptEvent
  PROVE  LoopInv'
<1>0. /\ io = "idle" /\ ready # <<>> /\ Head(ready) = "acceptable" /\ Head(ready) \notin Chain
      /\ UNCHANGED <<io, acceptor, client, rx, peer, unread, stopping, stopper, target>>
  BY DEF AcceptEvent, sockets, threads, Chain
<1>1. CASE ~CanAccept
  BY <1>0, <1>1, DroppedLoop DEF AcceptEvent
<1>2. CASE CanAccept
  <2>1. /\ Tail(ready) \in Seq(Handlers) /\ None(Tail(ready)) /\ "accept" \in waiting
        /\ \A h : In(Tail(ready), h) => In(ready, h)
    BY <1>0, <1>2, HeadIsNoToken DEF CanAccept
  <2>2. /\ ready' = <<"accepted">> \o Tail(ready) /\ waiting' = waiting \ {"accept"}
        /\ newcomer' = Head(backlog) /\ backlog' = Tail(backlog) /\ backlog # <<>>
    BY <1>2 DEF AcceptEvent, CanAccept
  <2>3. waiting' = {}
    BY <2>1, <2>2 DEF LoopInv, Types
  <2>4. "accepted" \in Handlers /\ "accepted" \in Chain
    BY DEF Handlers, Chain
  <2>5. /\ ready' \in Seq(Handlers) /\ One(ready') /\ ~None(ready')
        /\ \A h : In(ready', h) => In(ready, h) \/ h = "accepted"
    BY <2>1, <2>2, <2>4, QueuePrepend
  <2>6. newcomer' \in Clients /\ backlog' \in Seq(Clients)
    BY <2>2, HeadTailProperties DEF LoopInv, Types
  <2>7. ~In(ready, "line")
    BY <2>1 DEF LoopInv, ChainInv, None, In, Chain
  <2>8. Types' /\ LinesOfCurrentClient'
    BY <1>0, <2>3, <2>5, <2>6 DEF LoopInv, Types, LinesOfCurrentClient
  <2>9. ChainInv'
    BY <1>0, <2>3, <2>5, <2>6, <2>7, SimulatorServerAssumption DEF ChainInv
  <2>10. StopInv'
    BY <1>0, <2>5 DEF LoopInv, StopInv, Token
  <2> QED
    BY <2>8, <2>9, <2>10 DEF LoopInv
<1> QED
  BY <1>1, <1>2

\* The waiting read is performed: what it reads is the client's own.
LEMMA ReadEventLoop ==
  ASSUME LoopInv, ReadEvent
  PROVE  LoopInv'
<1>0. /\ io = "idle" /\ ready # <<>> /\ Head(ready) = "readable" /\ Head(ready) \notin Chain
      /\ UNCHANGED <<io, acceptor, client, backlog, newcomer, peer, stopping, stopper, target>>
  BY DEF ReadEvent, threads, Chain
<1>1. CASE ~CanRead
  BY <1>0, <1>1, DroppedLoop DEF ReadEvent
<1>2. CASE CanRead
  <2>1. /\ Tail(ready) \in Seq(Handlers) /\ None(Tail(ready)) /\ "read" \in waiting
        /\ \A h : In(Tail(ready), h) => In(ready, h)
    BY <1>0, <1>2, HeadIsNoToken DEF CanRead
  <2>2. /\ client \in Clients /\ unread \in [Clients -> Nat] /\ unread[client] \in Nat
        /\ ~In(ready, "line") /\ ~In(ready, "accepted")
    BY <2>1 DEF LoopInv, Types, ChainInv, None, In, Chain
  <2>3. waiting' = {}
    BY <1>2, <2>1 DEF ReadEvent, LoopInv, Types
  <2>4. PICK h \in {"line", "read_error"} :
           /\ ready' = <<h>> \o Tail(ready)
           /\ h = "line" => rx' # <<>>
           /\ rx' \in Seq(Clients) /\ unread' \in [Clients -> Nat]
           /\ rx' = rx \/ \A i \in 1 .. Len(rx') : rx'[i] = client
    <3>1. ASSUME NEW n \in 1 .. unread[client], rx' = [i \in 1 .. n |-> client],
                 unread' = [unread EXCEPT ![client] = @ - n],
                 ready' = <<"line">> \o Tail(ready)
          PROVE  \E h \in {"line", "read_error"} :
                    /\ ready' = <<h>> \o Tail(ready)
                    /\ h = "line" => rx' # <<>>
                    /\ rx' \in Seq(Clients) /\ unread' \in [Clients -> Nat]
                    /\ rx' = rx \/ \A i \in 1 .. Len(rx') : rx'[i] = client
      <4>1. rx' \in Seq(Clients) /\ Len(rx') = n /\ \A i \in 1 .. n : rx'[i] = client
        BY <2>2, <3>1
      <4>2. rx' # <<>>
        BY <4>1
      <4>3. unread' \in [Clients -> Nat]
        BY <2>2, <3>1
      <4> QED
        BY <3>1, <4>1, <4>2, <4>3
    <3>2. CASE ready' = <<"read_error">> \o Tail(ready) /\ UNCHANGED <<rx, unread>>
      BY <3>2 DEF LoopInv, Types
    <3> QED
      BY <1>2, <3>1, <3>2 DEF ReadEvent
  <2>5. h \in Handlers /\ h \in Chain
    BY DEF Handlers, Chain
  <2>6. /\ ready' \in Seq(Handlers) /\ One(ready') /\ ~None(ready')
        /\ \A k : In(ready', k) => In(ready, k) \/ k = h
    BY <2>1, <2>4, <2>5, QueuePrepend
  <2>7. Types' /\ LinesOfCurrentClient'
    BY <1>0, <2>3, <2>4, <2>6 DEF LoopInv, Types, LinesOfCurrentClient
  <2>8. ChainInv'
    BY <1>0, <2>2, <2>3, <2>4, <2>6 DEF ChainInv
  <2>9. StopInv'
    BY <1>0, <2>6 DEF LoopInv, StopInv, Token
  <2> QED
    BY <2>7, <2>8, <2>9 DEF LoopInv
<1> QED
  BY <1>1, <1>2

\* The handlers of the io thread.
LEMMA DispatchLoop ==
  ASSUME LoopInv, Dispatch
  PROVE  LoopInv'
<1>0. io = "idle" /\ ready # <<>>
  BY DEF Dispatch
<1>1. CASE /\ Head(ready) = "accepted" /\ newcomer' = Nobody
           /\ on_accept(Tail(ready), newcomer) /\ UNCHANGED backlog
  BY <1>0, <1>1, AcceptedLoop
<1>2. CASE Head(ready) = "accept_error" /\ on_accept_error(Tail(ready))
  BY <1>0, <1>2, AcceptErrorLoop
<1>3. CASE \/ Head(ready) = "read_error" /\ on_line_error(Tail(ready))
           \/ Head(ready) = "line" /\ on_line_write_fails(Tail(ready))
  BY <1>0, <1>3, ClientGoneLoop
<1>4. CASE Head(ready) = "line" /\ on_line_answered(Tail(ready))
  BY <1>0, <1>4, AnsweredLoop
<1>5. CASE Head(ready) = "stop" /\ stop_handler(Tail(ready))
  BY <1>0, <1>5, StopHandlerLoop
<1>6. CASE Head(ready) = "disconnect" /\ disconnect_handler(Tail(ready))
  BY <1>0, <1>6, DisconnectHandlerLoop
<1> QED
  BY <1>1, <1>2, <1>3, <1>4, <1>5, <1>6 DEF Dispatch

\* What leaves the loop, the client and stopping alone, and tells the server
\* nothing but that a client connected, sent or left.
LEMMA OutsideLoop ==
  ASSUME LoopInv, UNCHANGED <<ready, waiting, acceptor, client, rx, newcomer>>,
         io' = io \/ (io' = "returned" /\ OutOfWork),
         stopping' = stopping \/ stopping',
         stopper' = stopper \/ stopping',
         backlog' \in Seq(Clients), unread' \in [Clients -> Nat],
         peer' \in [Clients -> {"new", "in", "left"}], target' = target
  PROVE  LoopInv'
<1>1. Types' /\ LinesOfCurrentClient'
  BY DEF LoopInv, Types, LinesOfCurrentClient
<1>2. ChainInv'
  BY DEF LoopInv, ChainInv
<1>3. StopInv'
  <2> SUFFICES ASSUME ~stopping' PROVE StopInv'
    BY DEF StopInv
  <2>1. ~stopping /\ stopper' = stopper
    OBVIOUS
  <2>2. io' = io
    <3> SUFFICES ASSUME OutOfWork PROVE FALSE
      OBVIOUS
    <3>1. None(ready) /\ waiting = {} /\ io = "idle"
      BY DEF OutOfWork, None
    <3> QED
      BY <2>1, <3>1 DEF LoopInv, StopInv, Token
  <2> QED
    BY <2>1, <2>2 DEF LoopInv, StopInv, Token
<1> QED
  BY <1>1, <1>2, <1>3 DEF LoopInv

\* Every step keeps the loop invariant.
LEMMA LoopNext == LoopInv /\ [Next]_vars => LoopInv'
<1> SUFFICES ASSUME LoopInv, [Next]_vars PROVE LoopInv'
  OBVIOUS
<1> USE DEF loop, sockets, network, threads
<1>0. /\ backlog \in Seq(Clients) /\ unread \in [Clients -> Nat]
      /\ peer \in [Clients -> {"new", "in", "left"}]
      /\ client \in Clients \union {Nobody} /\ target \in Clients \union {Nobody}
  BY DEF LoopInv, Types
<1>1. CASE Dispatch
  BY <1>1, DispatchLoop
<1>2. CASE AcceptNext
  BY <1>2, AcceptNextLoop
<1>3. CASE NetworkEvent
  <2>1. PICK h \in {"acceptable", "readable"} : ready' = Append(ready, h)
    BY <1>3 DEF NetworkEvent
  <2>2. h \in Handlers \ Chain /\ h # "stop"
    BY DEF Handlers, Chain
  <2> QED
    BY <1>0, <1>3, <2>1, <2>2, QueuedLoop DEF NetworkEvent
<1>4. CASE AcceptEvent
  BY <1>4, AcceptEventLoop
<1>5. CASE ReadEvent
  BY <1>5, ReadEventLoop
<1>6. CASE RunReturns
  BY <1>0, <1>6, OutsideLoop DEF RunReturns
<1>7. CASE StopSetsFlag
  BY <1>0, <1>7, OutsideLoop DEF StopSetsFlag
<1>8. CASE StopPosts
  <2>1. stopping
    BY <1>8 DEF StopPosts, LoopInv, StopInv
  <2>2. "stop" \in Handlers \ Chain
    BY DEF Handlers, Chain
  <2> QED
    BY <1>0, <1>8, <2>1, <2>2, QueuedLoop DEF StopPosts
<1>9. CASE StopJoins
  <2>1. stopping
    BY <1>9 DEF StopJoins, LoopInv, StopInv
  <2> QED
    BY <1>0, <1>9, <2>1, OutsideLoop DEF StopJoins
<1>10. CASE disconnect_client
  <2>1. "disconnect" \in Handlers \ Chain
    BY DEF Handlers, Chain
  <2> QED
    BY <1>0, <1>10, <2>1, QueuedLoop DEF disconnect_client
<1>11. CASE set_stalled
  BY <1>0, <1>11, OutsideLoop DEF set_stalled
<1>12. ASSUME NEW c \in Clients, Connect(c) PROVE LoopInv'
  <2>1. backlog' \in Seq(Clients) /\ peer' \in [Clients -> {"new", "in", "left"}]
    BY <1>0, <1>12, AppendProperties DEF Connect
  <2> QED
    BY <1>0, <1>12, <2>1, OutsideLoop DEF Connect
<1>13. ASSUME NEW c \in Clients, Send(c) PROVE LoopInv'
  <2>1. unread' \in [Clients -> Nat]
    BY <1>0, <1>13 DEF Send
  <2> QED
    BY <1>0, <1>13, <2>1, OutsideLoop DEF Send
<1>14. ASSUME NEW c \in Clients, Leave(c) PROVE LoopInv'
  <2>1. peer' \in [Clients -> {"new", "in", "left"}]
    BY <1>0, <1>14 DEF Leave
  <2> QED
    BY <1>0, <1>14, <2>1, OutsideLoop DEF Leave
<1>15. CASE UNCHANGED vars
  BY <1>0, <1>15, OutsideLoop DEF vars
<1> QED
  BY <1>1, <1>2, <1>3, <1>4, <1>5, <1>6, <1>7, <1>8, <1>9, <1>10, <1>11, <1>12, <1>13,
     <1>14, <1>15 DEF Next

\* The server accepts one client at a time, for any number of clients that
\* connect, send, leave or are disconnected in any order: at most one accept
\* or read is under way (accept_next(), read_next(), on_line()).
THEOREM ServerOneAtATime == Spec => []OneAtATime
<1>1. LoopInv => OneAtATime
  <2> SUFFICES ASSUME LoopInv PROVE OneAtATime
    OBVIOUS
  <2>1. \A i, j \in Outstanding : i = j
    BY DEF LoopInv, ChainInv, One, Outstanding
  <2>2. waiting # {} \/ io = "accepting" => Outstanding = {}
    BY DEF LoopInv, ChainInv, None, Outstanding
  <2>3. waiting # {"accept", "read"}
    <3>1. waiting \in {{}, {"accept"}, {"read"}}
      BY DEF LoopInv, Types
    <3>2. ~("accept" \in waiting /\ "read" \in waiting)
      BY <3>1
    <3> QED
      BY <3>2
  <2>4. ~(waiting # {} /\ io = "accepting")
    BY DEF LoopInv, ChainInv
  <2> QED
    BY <2>1, <2>2, <2>3, <2>4 DEF OneAtATime
<1> QED
  BY <1>1, LoopInit, LoopNext, PTL DEF Spec

\* Until stop() is called the server listens, its thread runs, and an accept
\* or a read is under way: no client's end, however it comes, stops it.
THEOREM ServerServesUntilStopped == Spec => []ServesUntilStopped
<1>1. LoopInv => ServesUntilStopped
  BY DEF LoopInv, StopInv, Token, None, ServesUntilStopped, Outstanding
<1> QED
  BY <1>1, LoopInit, LoopNext, PTL DEF Spec

\* No line of one client is executed for the next: what is in rx was sent by
\* the client that is connected (on_line(), accept_next()).
THEOREM ServerKeepsLinesApart == Spec => []LinesOfCurrentClient
<1>1. LoopInv => LinesOfCurrentClient
  BY DEF LoopInv
<1> QED
  BY <1>1, LoopInit, LoopNext, PTL DEF Spec

-----------------------------------------------------------------------------
(* disconnect_client(): the connection is gone when it returns.            *)

\* A client connects once.  Those that wait for the port, the one being
\* accepted, the current one and the one disconnect_client() is about have
\* all connected, and nobody waits who was accepted before.
OnceInv ==
    /\ \A i, j \in 1 .. Len(backlog) : backlog[i] = backlog[j] => i = j
    /\ \A i \in 1 .. Len(backlog) :
          backlog[i] \notin {newcomer, client, target} /\ peer[backlog[i]] # "new"
    /\ \A c \in {newcomer, client, target} \ {Nobody} : peer[c] # "new"
    /\ newcomer # Nobody => newcomer \notin {client, target}

GoneInv == LoopInv /\ OnceInv /\ GoneOnReturn

\* The oldest client in the backlog is taken out of it.
LEMMA TakeOnce ==
  ASSUME LoopInv, OnceInv, backlog # <<>>,
         newcomer' = Head(backlog), backlog' = Tail(backlog), UNCHANGED <<client, target, peer>>
  PROVE  OnceInv'
<1> DEFINE c == Head(backlog)
<1>1. /\ backlog \in Seq(Clients) /\ Len(backlog) \in Nat /\ Len(backlog) >= 1
      /\ Len(backlog') = Len(backlog) - 1
      /\ \A i \in 1 .. Len(backlog) - 1 : backlog'[i] = backlog[i + 1]
      /\ c = backlog[1]
  BY HeadTailProperties, EmptySeq, LenProperties DEF LoopInv, Types
<1>2. c \notin {newcomer, client, target} /\ peer[c] # "new"
  BY <1>1 DEF OnceInv
<1> HIDE DEF c
<1>3. ASSUME NEW i \in 1 .. Len(backlog')
      PROVE  /\ i + 1 \in 1 .. Len(backlog) /\ backlog'[i] = backlog[i + 1]
             /\ backlog'[i] # c
             /\ backlog'[i] \notin {client, target} /\ peer[backlog'[i]] # "new"
  <2>1. i + 1 \in 1 .. Len(backlog) /\ 1 \in 1 .. Len(backlog) /\ i + 1 # 1
        /\ backlog'[i] = backlog[i + 1]
    BY <1>1
  <2> QED
    BY <1>1, <2>1 DEF OnceInv
<1>4. ASSUME NEW i \in 1 .. Len(backlog'), NEW j \in 1 .. Len(backlog'), backlog'[i] = backlog'[j]
      PROVE  i = j
  <2>1. i + 1 = j + 1
    BY <1>3, <1>4 DEF OnceInv
  <2> QED
    BY <2>1
<1>5. newcomer' = c /\ client' = client /\ target' = target /\ peer' = peer
  BY DEF c
<1> QED
  BY <1>2, <1>3, <1>4, <1>5 DEF OnceInv

\* accept_next() takes a client out of the backlog or does not.
LEMMA AcceptNextOnce ==
  ASSUME LoopInv, OnceInv, NEW rest, accept_next(rest), UNCHANGED <<client, target, peer>>
  PROVE  OnceInv'
<1>1. CASE acceptor = "open" /\ backlog # <<>>
  BY <1>1, TakeOnce DEF accept_next
<1>2. CASE ~(acceptor = "open" /\ backlog # <<>>)
  <2>1. UNCHANGED <<backlog, newcomer>>
    BY <1>2 DEF accept_next, LoopInv, Types
  <2> QED
    BY <2>1 DEF OnceInv
<1> QED
  BY <1>1, <1>2

\* The handlers: a client that is accepted was never the current one before.
LEMMA DispatchGone ==
  ASSUME GoneInv, Dispatch
  PROVE  OnceInv' /\ GoneOnReturn'
<1> USE DEF network, threads, sockets
<1>0. LoopInv /\ OnceInv /\ GoneOnReturn /\ target \in Clients \union {Nobody}
  BY DEF GoneInv, LoopInv, Types
<1>1. CASE /\ Head(ready) = "accepted" /\ newcomer' = Nobody
           /\ on_accept(Tail(ready), newcomer) /\ UNCHANGED backlog
  <2>1. newcomer # Nobody
    <3>1. Head(ready) \in Chain /\ io = "idle" /\ ready # <<>>
      BY <1>1 DEF Chain, Dispatch
    <3> QED
      BY <1>0, <1>1, <3>1, HeadIsToken DEF LoopInv, ChainInv
  <2>2. client' = newcomer /\ UNCHANGED <<backlog, peer, target, caller>>
    BY <1>1 DEF on_accept
  <2>3. \A i \in 1 .. Len(backlog) : backlog[i] # Nobody
    BY <1>0, SimulatorServerAssumption DEF LoopInv, Types
  <2> QED
    BY <1>0, <1>1, <2>1, <2>2, <2>3 DEF OnceInv, GoneOnReturn
<1>2. CASE Head(ready) = "accept_error" /\ on_accept_error(Tail(ready))
  BY <1>0, <1>2 DEF on_accept_error, OnceInv, GoneOnReturn
<1>3. CASE \/ on_line_error(Tail(ready)) \/ on_line_write_fails(Tail(ready))
           \/ stop_handler(Tail(ready))
  <2>1. client' = Nobody /\ UNCHANGED <<backlog, newcomer, peer, target, caller>>
    BY <1>3 DEF on_line_error, on_line_write_fails, stop_handler
  <2>2. \A i \in 1 .. Len(backlog) : backlog[i] # Nobody
    BY <1>0, SimulatorServerAssumption DEF LoopInv, Types
  <2> QED
    BY <1>0, <2>1, <2>2 DEF OnceInv, GoneOnReturn
<1>4. CASE on_line_answered(Tail(ready))
  <2>1. UNCHANGED <<client, client_open, peer, target, caller>>
    BY <1>4 DEF on_line_answered
  <2>2. GoneOnReturn'
    BY <1>0, <2>1 DEF GoneOnReturn
  <2>3. CASE client = Nobody
    BY <1>0, <1>4, <2>1, <2>2, <2>3, AcceptNextOnce DEF on_line_answered, read_next
  <2>4. CASE client # Nobody
    BY <1>0, <1>4, <2>1, <2>2, <2>4 DEF on_line_answered, read_next, OnceInv
  <2> QED
    BY <2>3, <2>4
<1>5. CASE disconnect_handler(Tail(ready))
  <2>1. UNCHANGED <<client, backlog, newcomer, peer, target>>
    BY <1>5 DEF disconnect_handler
  <2>2. client # Nobody => client_open' = FALSE
    BY <1>5 DEF disconnect_handler
  <2> QED
    BY <1>0, <2>1, <2>2 DEF OnceInv, GoneOnReturn
<1> QED
  BY <1>1, <1>2, <1>3, <1>4, <1>5 DEF Dispatch

\* A client connects, the only time.
LEMMA ConnectOnce ==
  ASSUME LoopInv, OnceInv, NEW c \in Clients, Connect(c)
  PROVE  OnceInv'
<1> USE DEF sockets, threads
<1>1. /\ backlog \in Seq(Clients) /\ Len(backlog) \in Nat
      /\ Len(backlog') = Len(backlog) + 1 /\ backlog'[Len(backlog) + 1] = c
      /\ \A i \in 1 .. Len(backlog) : backlog'[i] = backlog[i]
  BY AppendProperties, LenProperties DEF LoopInv, Types, Connect
<1>2. /\ peer[c] = "new" /\ peer \in [Clients -> {"new", "in", "left"}]
      /\ peer' = [peer EXCEPT ![c] = "in"] /\ UNCHANGED <<newcomer, client, target>>
      /\ {newcomer, client, target} \subseteq Clients \union {Nobody}
  BY DEF Connect, LoopInv, Types
<1>3. \A i \in 1 .. Len(backlog) : backlog[i] # c /\ backlog[i] \in Clients
  BY <1>1, <1>2 DEF OnceInv
<1>4. c \notin {newcomer, client, target}
  BY <1>2, SimulatorServerAssumption DEF OnceInv
<1>5. \A d \in Clients : peer[d] # "new" => peer'[d] # "new"
  BY <1>2
<1>6. peer'[c] # "new"
  BY <1>2
<1>7. \A i \in 1 .. Len(backlog') : i \in 1 .. Len(backlog) \/ i = Len(backlog) + 1
  BY <1>1
<1>8. ASSUME NEW i \in 1 .. Len(backlog'), NEW j \in 1 .. Len(backlog'), backlog'[i] = backlog'[j]
      PROVE  i = j
  BY <1>1, <1>3, <1>7, <1>8 DEF OnceInv
<1>9. ASSUME NEW i \in 1 .. Len(backlog')
      PROVE  backlog'[i] \notin {newcomer, client, target} /\ peer'[backlog'[i]] # "new"
  BY <1>1, <1>3, <1>4, <1>5, <1>6, <1>7 DEF OnceInv
<1>10. \A d \in {newcomer, client, target} \ {Nobody} : peer'[d] # "new"
  BY <1>2, <1>5 DEF OnceInv
<1>11. newcomer' = newcomer /\ client' = client /\ target' = target
  BY <1>2
<1> QED
  BY <1>8, <1>9, <1>10, <1>11 DEF OnceInv

\* Every step keeps the two.
LEMMA GoneNext == GoneInv /\ [Next]_vars => GoneInv'
<1> SUFFICES ASSUME GoneInv, [Next]_vars PROVE OnceInv' /\ GoneOnReturn'
  BY LoopNext DEF GoneInv
<1> USE DEF loop, sockets, network, threads
<1>0. LoopInv /\ OnceInv /\ GoneOnReturn
  BY DEF GoneInv
<1>1. CASE Dispatch
  BY <1>1, DispatchGone
<1>2. CASE AcceptNext
  BY <1>0, <1>2, AcceptNextOnce DEF AcceptNext, GoneOnReturn
<1>3. CASE AcceptEvent
  <2>1. GoneOnReturn' /\ UNCHANGED <<client, target, peer>>
    BY <1>0, <1>3 DEF AcceptEvent, GoneOnReturn
  <2>2. CASE CanAccept
    BY <1>0, <1>3, <2>1, <2>2, TakeOnce DEF AcceptEvent, CanAccept
  <2>3. CASE ~CanAccept
    BY <1>0, <1>3, <2>1, <2>3 DEF AcceptEvent, OnceInv
  <2> QED
    BY <2>2, <2>3
<1>4. CASE disconnect_client
  <2>1. caller' = "waiting" /\ target' = client /\ UNCHANGED <<backlog, newcomer, client, peer>>
    BY <1>4 DEF disconnect_client
  <2> QED
    BY <1>0, <2>1 DEF OnceInv, GoneOnReturn
<1>5. ASSUME NEW c \in Clients, Connect(c) PROVE OnceInv' /\ GoneOnReturn'
  BY <1>0, <1>5, ConnectOnce DEF Connect, GoneOnReturn
<1>6. ASSUME NEW c \in Clients, Leave(c) PROVE OnceInv' /\ GoneOnReturn'
  <2>1. /\ peer \in [Clients -> {"new", "in", "left"}] /\ peer' = [peer EXCEPT ![c] = "left"]
        /\ {newcomer, client, target} \subseteq Clients \union {Nobody}
        /\ backlog \in Seq(Clients)
        /\ UNCHANGED <<backlog, newcomer, client, client_open, target, caller>>
    BY <1>0, <1>6 DEF Leave, LoopInv, Types
  <2>2. \A d \in Clients : peer[d] # "new" => peer'[d] # "new"
    BY <2>1
  <2>3. \A i \in 1 .. Len(backlog) : backlog[i] \in Clients
    BY <2>1
  <2> QED
    BY <1>0, <2>1, <2>2, <2>3 DEF OnceInv, GoneOnReturn
<1>7. CASE \/ NetworkEvent \/ ReadEvent \/ RunReturns \/ StopSetsFlag \/ StopPosts \/ StopJoins
           \/ set_stalled \/ (\E c \in Clients : Send(c)) \/ UNCHANGED vars
  <2>1. UNCHANGED <<backlog, newcomer, client, client_open, target, caller, peer>>
    BY <1>7 DEF NetworkEvent, ReadEvent, RunReturns, StopSetsFlag, StopPosts, StopJoins,
                set_stalled, Send, vars
  <2> QED
    BY <1>0, <2>1 DEF OnceInv, GoneOnReturn
<1> QED
  BY <1>1, <1>2, <1>3, <1>4, <1>5, <1>6, <1>7 DEF Next

\* "the caller waits for it, so a test can rely on the connection being gone
\* when this returns": once disconnect_client() has returned, the client it
\* found is not the connected one, now or later, whatever other clients came
\* in between (disconnect_client()).
THEOREM ServerGoneOnReturn == Spec => []GoneOnReturn
<1>1. Init => GoneInv
  <2> SUFFICES ASSUME Init PROVE OnceInv /\ GoneOnReturn
    BY LoopInit DEF GoneInv
  <2> QED
    BY DEF Init, OnceInv, GoneOnReturn
<1>2. GoneInv => GoneOnReturn
  BY DEF GoneInv
<1> QED
  BY <1>1, <1>2, GoneNext, PTL DEF Spec

-----------------------------------------------------------------------------
(* No client is accepted over another one.                                 *)

\* The client changes by being gone or by being accepted in nobody's place: the
\* optional that on_accept() writes to is empty, so no connection is dropped
\* without the server having seen its end.
AcceptedInNobodysPlace == [][client' # client => Nobody \in {client, client'}]_vars

\* While an accept is waiting, completed or about to start there is no client.
AcceptInv ==
    "accept" \in waiting \/ io = "accepting" \/ In(ready, "accepted") => client = Nobody

\* A step that queues no "accepted" and keeps the client, or leaves nobody.
LEMMA NoAcceptAdded ==
  ASSUME AcceptInv,
         \/ client' = Nobody
         \/ /\ client' = client /\ io' = io /\ waiting' \subseteq waiting
            /\ In(ready', "accepted") => In(ready, "accepted")
  PROVE  AcceptInv'
  BY DEF AcceptInv

\* A handler that ends with a read under way has the token turned into it.
LEMMA ReadTakesToken ==
  ASSUME LoopInv, io = "idle", ready # <<>>, Head(ready) \in Chain,
         NEW c \in Clients, NEW open, NEW buffer \in Seq(Clients),
         start_read(Tail(ready), c, open, buffer), UNCHANGED io
  PROVE  AcceptInv'
<1>1. Tail(ready) \in Seq(Handlers) /\ None(Tail(ready)) /\ waiting = {}
  BY HeadIsToken
<1>2. waiting' \in {{}, {"read"}} /\ Placed(Tail(ready), {"line", "read_error"})
  <2>1. Types
    BY DEF LoopInv
  <2> QED
    BY <1>1, <2>1, StartReadPlaces
<1>3. ~In(Tail(ready), "accepted")
  BY <1>1 DEF None, In, Chain
<1> QED
  BY <1>2, <1>3 DEF Placed, AcceptInv

\* The handlers.
LEMMA DispatchAccepts ==
  ASSUME LoopInv, AcceptInv, Dispatch
  PROVE  AcceptInv' /\ (client' # client => Nobody \in {client, client'})
<1> USE DEF sockets, threads, network
<1>0. io = "idle" /\ ready # <<>> /\ ready \in Seq(Handlers)
  BY DEF Dispatch, LoopInv, Types
<1>1. \A h : In(Tail(ready), h) => In(ready, h)
  BY <1>0, QueueTail
<1>2. In(ready, Head(ready))
  BY <1>0, QueueTail
<1>3. CASE Head(ready) = "accepted" /\ newcomer' = Nobody /\ on_accept(Tail(ready), newcomer)
  <2>1. client = Nobody /\ newcomer \in Clients /\ <<>> \in Seq(Clients)
    BY <1>2, <1>3 DEF AcceptInv, LoopInv, Types, ChainInv
  <2> QED
    BY <1>0, <1>3, <2>1, ReadTakesToken DEF on_accept, Chain
<1>4. CASE on_accept_error(Tail(ready))
  BY <1>1, <1>4, NoAcceptAdded DEF on_accept_error
<1>5. CASE \/ on_line_error(Tail(ready)) \/ on_line_write_fails(Tail(ready))
           \/ stop_handler(Tail(ready))
  BY <1>5, NoAcceptAdded DEF on_line_error, on_line_write_fails, stop_handler
<1>6. CASE Head(ready) = "line" /\ on_line_answered(Tail(ready))
  <2>1. read_next(Tail(ready), Tail(rx)) /\ UNCHANGED <<io, client>>
    BY <1>6 DEF on_line_answered
  <2>2. CASE client = Nobody
    BY <2>1, <2>2, NoAcceptAdded
  <2>3. CASE client # Nobody
    <3>1. rx \in Seq(Clients) /\ rx # <<>> /\ client \in Clients
      BY <1>2, <1>6, <2>3 DEF LoopInv, Types, ChainInv
    <3>2. Tail(rx) \in Seq(Clients)
      BY <3>1
    <3>3. start_read(Tail(ready), client, client_open, Tail(rx))
      BY <2>1, <2>3 DEF read_next
    <3> QED
      BY <1>0, <1>6, <2>1, <3>1, <3>2, <3>3, ReadTakesToken DEF Chain
  <2> QED
    BY <2>1, <2>2, <2>3
<1>7. CASE Head(ready) = "disconnect" /\ disconnect_handler(Tail(ready))
  <2>1. UNCHANGED <<io, client>>
    BY <1>7 DEF disconnect_handler
  <2>2. CASE client = Nobody
    BY <2>1, <2>2, NoAcceptAdded
  <2>3. CASE client # Nobody
    <3>1. abort(Tail(ready), {"read"})
      BY <1>7, <2>3 DEF disconnect_handler
    <3>2. /\ Tail(ready) \in Seq(Handlers) /\ One(Tail(ready))
          /\ waiting # {} => None(Tail(ready))
      BY <1>0, QueueTail DEF LoopInv, ChainInv
    <3>3. /\ waiting' \subseteq waiting
          /\ In(ready', "accepted") => In(Tail(ready), "accepted")
      <4>1. Types
        BY DEF LoopInv
      <4> QED
        BY <3>1, <3>2, <4>1, AbortKeepsToken
    <3> QED
      BY <1>1, <2>1, <3>3, NoAcceptAdded
  <2> QED
    BY <2>1, <2>2, <2>3
<1> QED
  BY <1>3, <1>4, <1>5, <1>6, <1>7 DEF Dispatch

\* The other steps leave the client as it is, and queue "accepted" only for an
\* accept that was waiting.
LEMMA AcceptNextInv ==
  ASSUME LoopInv, AcceptInv, [Next]_vars
  PROVE  AcceptInv' /\ (client' # client => Nobody \in {client, client'})
<1> USE DEF loop, sockets, threads, network
<1>0. ready \in Seq(Handlers)
  BY DEF LoopInv, Types
<1>1. CASE Dispatch
  BY <1>1, DispatchAccepts
<1>2. CASE AcceptNext
  BY <1>2, NoAcceptAdded DEF AcceptNext, AcceptInv
<1>3. ASSUME NEW h \in Handlers, h # "accepted", ready' = Append(ready, h),
             UNCHANGED <<waiting, io, client>>
      PROVE  AcceptInv'
  BY <1>0, <1>3, QueueAppend, NoAcceptAdded
<1>4. CASE NetworkEvent \/ StopPosts \/ disconnect_client
  <2>1. {"acceptable", "readable", "stop", "disconnect"} \subseteq Handlers
    BY DEF Handlers
  <2> QED
    BY <1>3, <1>4, <2>1 DEF NetworkEvent, StopPosts, disconnect_client
<1>5. CASE AcceptEvent \/ ReadEvent
  <2>1. ready # <<>> /\ UNCHANGED <<io, client>>
    BY <1>5 DEF AcceptEvent, ReadEvent
  <2>2. Tail(ready) \in Seq(Handlers) /\ \A h : In(Tail(ready), h) => In(ready, h)
    BY <1>0, <2>1, QueueTail
  <2>3. CASE ready' = Tail(ready) /\ waiting' = waiting
    BY <2>1, <2>2, <2>3, NoAcceptAdded
  <2>4. CASE AcceptEvent /\ CanAccept
    BY <2>1, <2>4, NoAcceptAdded DEF CanAccept, AcceptInv
  <2>5. CASE ReadEvent /\ CanRead
    <3>1. waiting' \subseteq waiting
      BY <2>5 DEF ReadEvent
    <3>2. PICK h \in {"line", "read_error"} : ready' = <<h>> \o Tail(ready)
      BY <2>5 DEF ReadEvent
    <3>3. h \in Handlers /\ h # "accepted"
      BY DEF Handlers, Chain
    <3>4. In(ready', "accepted") => In(ready, "accepted")
      BY <2>2, <3>2, <3>3, QueuePrepend
    <3> QED
      BY <2>1, <3>1, <3>4, NoAcceptAdded
  <2> QED
    BY <1>5, <2>1, <2>3, <2>4, <2>5 DEF AcceptEvent, ReadEvent
<1>6. CASE RunReturns
  BY <1>6 DEF RunReturns, AcceptInv
<1>7. CASE \/ StopSetsFlag \/ StopJoins \/ set_stalled
           \/ (\E c \in Clients : Connect(c) \/ Send(c) \/ Leave(c)) \/ UNCHANGED vars
  <2>1. UNCHANGED <<ready, waiting, io, client>>
    BY <1>7 DEF StopSetsFlag, StopJoins, set_stalled, Connect, Send, Leave, vars
  <2> QED
    BY <2>1, NoAcceptAdded
<1> QED
  BY <1>1, <1>2, <1>4, <1>5, <1>6, <1>7 DEF Next

\* No client is accepted over another one, for any number of clients, calls of
\* disconnect_client() and failed writes (on_accept(), accept_next()).
THEOREM ServerDropsNobody == Spec => AcceptedInNobodysPlace
<1>1. Init => AcceptInv
  BY DEF Init, AcceptInv
<1>2. LoopInv /\ AcceptInv /\ [Next]_vars =>
        AcceptInv' /\ [client' # client => Nobody \in {client, client'}]_vars
  BY AcceptNextInv
<1> QED
  BY <1>1, <1>2, LoopInit, LoopNext, PTL DEF Spec, AcceptedInNobodysPlace
=============================================================================
