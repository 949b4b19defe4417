--------------------------------- MODULE Fifo ---------------------------------
(***************************************************************************)
(* A first-in first-out store without a capacity: what every user of a     *)
(* ring buffer relies on.  "returned" is what the last operation that      *)
(* returns elements gave its caller: the elements, in order, or nothing.   *)
(***************************************************************************)
EXTENDS Sequences

CONSTANT Value

VARIABLES items, returned

Init == items = <<>> /\ returned = <<>>

Put(v) == items' = Append(items, v) /\ UNCHANGED returned

Take ==
    IF items = <<>>
    THEN returned' = <<>> /\ UNCHANGED items
    ELSE returned' = <<Head(items)>> /\ items' = Tail(items)

TakeAll == returned' = items /\ items' = <<>>

Look ==
    /\ returned' = IF items = <<>> THEN <<>> ELSE <<Head(items)>>
    /\ UNCHANGED items

LookAll == returned' = items /\ UNCHANGED items

Drop == items' = <<>> /\ UNCHANGED returned

Next == (\E v \in Value : Put(v)) \/ Take \/ TakeAll \/ Look \/ LookAll \/ Drop

Spec == Init /\ [][Next]_<<items, returned>>
===============================================================================
