---------------------------- MODULE RequestReply ----------------------------
(***************************************************************************)
(* What ScpiClient promises the threads that share it: "A mutex makes each *)
(* send/query atomic so a query's response cannot interleave with another  *)
(* thread's command".  A call waits for its turn, has the link to itself,  *)
(* and ends either with an error or with the answer to its own command.    *)
(***************************************************************************)
CONSTANTS Calls,   \* the send() and query() calls the program makes
          Nobody   \* not a call

VARIABLES phase,   \* where each call is
          reply    \* whose answer each call returned, Nobody when none

vars == <<phase, reply>>

Phases == {"new", "waiting", "active", "ended"}

Init ==
    /\ phase = [c \in Calls |-> "new"]
    /\ reply = [c \in Calls |-> Nobody]

Start(c) ==
    /\ phase[c] = "new"
    /\ phase' = [phase EXCEPT ![c] = "waiting"]
    /\ UNCHANGED reply

Enter(c) ==
    /\ phase[c] = "waiting"
    /\ \A d \in Calls : phase[d] # "active"
    /\ phase' = [phase EXCEPT ![c] = "active"]
    /\ UNCHANGED reply

\* The call returns its own answer, or nothing: a setting command or an error.
Finish(c) ==
    /\ phase[c] = "active"
    /\ phase' = [phase EXCEPT ![c] = "ended"]
    /\ \E r \in {c, Nobody} : reply' = [reply EXCEPT ![c] = r]

Next == \E c \in Calls : Start(c) \/ Enter(c) \/ Finish(c)

Spec == Init /\ [][Next]_vars
=============================================================================
