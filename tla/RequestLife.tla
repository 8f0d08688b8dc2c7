---------------------------- MODULE RequestLife ----------------------------
(***************************************************************************)
(* What the TX scheduler promises a script about its requests: they are    *)
(* sent in the order in which they were made, one at a time; an attempt    *)
(* that times out is repeated before any later request is sent, at most    *)
(* MaxAttempts times in all; and every request ends at most once.  One     *)
(* that was never sent may be forgotten: it does not end at all.           *)
(***************************************************************************)
EXTENDS Integers, Sequences

CONSTANTS MaxRequests, MaxAttempts

VARIABLES
    made,     \* number of requests made; they are numbered from 1
    pending,  \* requests that wait to be sent, for the first time or again
    active,   \* the request that is being sent or waits for its answer
    sent,     \* the requests handed to the transport, in order
    ended,    \* how often each request has ended
    forgotten \* requests discarded before anybody looked at them

life == <<made, pending, active, sent, ended, forgotten>>

Init ==
    /\ made = 0 /\ pending = {} /\ active = {} /\ sent = <<>>
    /\ ended = [r \in 1..MaxRequests |-> 0] /\ forgotten = {}

Make ==
    /\ made' \in (made + 1) .. MaxRequests
    /\ pending' = pending \cup ((made + 1) .. made')
    /\ UNCHANGED <<active, sent, ended, forgotten>>

TimesSent(r) == {i \in DOMAIN sent : sent[i].id = r}

Send ==
    /\ active = {} /\ pending # {}
    /\ \E r \in pending :
           /\ \A p \in pending : r <= p
           /\ active' = {r} /\ pending' = pending \ {r}
           /\ \E request \in [id : {r}, kind : {"send", "request", "guarded"},
                              attempt : 1..MaxAttempts] :
                  /\ \A i \in TimesSent(r) : sent[i].attempt < request.attempt
                  /\ sent' = Append(sent, request)
    /\ UNCHANGED <<made, ended, forgotten>>

Repeat ==
    /\ active # {}
    /\ pending' = pending \cup active /\ active' = {}
    /\ UNCHANGED <<made, sent, ended, forgotten>>

End(S) ==
    /\ \A r \in S : ended[r] = 0
    /\ ended' = [r \in 1..MaxRequests |-> IF r \in S THEN 1 ELSE ended[r]]
    /\ pending' = pending \ S /\ active' = active \ S
    /\ UNCHANGED <<made, sent, forgotten>>

Forget(S) ==
    /\ \A r \in S : TimesSent(r) = {} /\ ended[r] = 0
    /\ forgotten' = forgotten \cup S
    /\ pending' = pending \ S
    /\ UNCHANGED <<made, active, sent, ended>>

Next ==
    \/ Make \/ Send \/ Repeat
    \/ \E S \in SUBSET (pending \cup active) : End(S)
    \/ \E S \in SUBSET pending : Forget(S)

Spec == Init /\ [][Next]_life
=============================================================================
