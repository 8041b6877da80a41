----------------------------- MODULE FifoQueue -----------------------------
(***************************************************************************)
(* What a queue between threads promises: items come out in the order they *)
(* went in, each at most once, and only the oldest ones are ever dropped.  *)
(***************************************************************************)
EXTENDS Naturals, Sequences

CONSTANT Items

VARIABLES items, delivered

Put == \E x \in Items : items' = Append(items, x) /\ UNCHANGED delivered

Take ==
    /\ items # << >>
    /\ delivered' = Append(delivered, Head(items))
    /\ items' = Tail(items)

DropOldest ==
    /\ \E n \in 1 .. Len(items) : items' = SubSeq(items, n + 1, Len(items))
    /\ UNCHANGED delivered

\* Everything is dropped in favour of one item.
Replace == \E x \in Items : items' = <<x>> /\ UNCHANGED delivered

Init == items = << >> /\ delivered = << >>
Next == Put \/ Take \/ DropOldest \/ Replace
Spec == Init /\ [][Next]_<<items, delivered>>
=============================================================================
