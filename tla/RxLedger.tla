------------------------------ MODULE RxLedger ------------------------------
(***************************************************************************)
(* What the script worker promises about received bytes: each byte it      *)
(* accepts reaches the Lua host at most once and in the order of arrival,  *)
(* or is given up, and a byte that is given up never reaches the host.     *)
(***************************************************************************)
EXTENDS Integers

VARIABLES
    arrived,   \* number of bytes accepted; bytes are numbered from 1
    waiting,   \* accepted bytes that are neither delivered nor given up
    delivered, \* bytes the host has been given
    dropped    \* bytes given up before the host saw them

ledger == <<arrived, waiting, delivered, dropped>>

Init == arrived = 0 /\ waiting = {} /\ delivered = {} /\ dropped = {}

Accept ==
    /\ arrived' \in Nat /\ arrived' > arrived
    /\ waiting' = waiting \cup ((arrived + 1) .. arrived')
    /\ UNCHANGED <<delivered, dropped>>

\* S is a chunk taken from the front of the bytes that wait.
Front(S) == S \subseteq waiting /\ \A b \in S, w \in waiting \ S : b < w

Deliver(S) ==
    /\ Front(S)
    /\ \A b \in S, d \in delivered : d < b
    /\ delivered' = delivered \cup S
    /\ waiting' = waiting \ S
    /\ UNCHANGED <<arrived, dropped>>

\* Bytes of a connection that is no longer active, or a cleared queue.
Drop(S) ==
    /\ Front(S)
    /\ dropped' = dropped \cup S
    /\ waiting' = waiting \ S
    /\ UNCHANGED <<arrived, delivered>>

Next ==
    \/ Accept
    \/ \E S \in SUBSET waiting : Deliver(S) \/ Drop(S)

Spec == Init /\ [][Next]_ledger
=============================================================================
