------------------------------ MODULE RecordLog ------------------------------
(***************************************************************************)
(* What the record storage promises.  Live records get the ids 1, 2, 3,    *)
(* ... in the order of their commit; imported ones get the highest free    *)
(* ids, from above.  Retention may give records up; nothing else does, and *)
(* no id is used twice.  A crash is a stutter.                             *)
(***************************************************************************)
EXTENDS Naturals

CONSTANT MaxId          \* the highest id

VARIABLES high, low,    \* live ids are 1..high, imported ones low+1..MaxId
          stored, gone  \* records that are there, and those given up

vars == <<high, low, stored, gone>>

Init == high = 0 /\ low = MaxId /\ stored = {} /\ gone = {}

Append ==
    /\ high' \in (high + 1)..low
    /\ stored' = stored \cup ((high + 1)..high')
    /\ UNCHANGED <<low, gone>>

Import ==
    /\ low' \in high..(low - 1)
    /\ stored' = stored \cup ((low' + 1)..low)
    /\ UNCHANGED <<high, gone>>

GiveUp ==
    /\ gone' \in SUBSET (gone \cup stored)
    /\ gone \subseteq gone'
    /\ stored' = stored \ gone'
    /\ UNCHANGED <<high, low>>

Next == Append \/ Import \/ GiveUp

Spec == Init /\ [][Next]_vars
=============================================================================
