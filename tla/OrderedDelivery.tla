--------------------------- MODULE OrderedDelivery ---------------------------
(***************************************************************************)
(* What the reference monitor promises the controllers of the exchange:    *)
(* flow mods reach the switches in the order they were asked for, each     *)
(* once, except that while it catches up with some that had to wait newer  *)
(* ones may go ahead of those, in order among themselves.                  *)
(***************************************************************************)
EXTENDS Naturals, Sequences

CONSTANT Mods      \* flow mods

VARIABLES
    asked,         \* all flow mods, in the order they were asked for
    applied,       \* those handed to the switches, by their places in `asked`
    catching       \* it catches up

Given == {applied[i] : i \in DOMAIN applied}
Left == (1..Len(asked)) \ Given

Init == asked = <<>> /\ applied = <<>> /\ catching = FALSE

\* A controller asks for some flow mods.
Ask ==
    /\ asked' \in Seq(Mods)
    /\ Len(asked') >= Len(asked)
    /\ SubSeq(asked', 1, Len(asked)) = asked
    /\ UNCHANGED <<applied, catching>>

\* The oldest one that is left goes out.
InTurn ==
    /\ \E n \in Left : (\A m \in Left : n <= m) /\ applied' = Append(applied, n)
    /\ UNCHANGED <<asked, catching>>

\* A newer one goes ahead.
Ahead ==
    /\ catching
    /\ \E n \in Left : (\A m \in Given : m < n) /\ applied' = Append(applied, n)
    /\ UNCHANGED <<asked, catching>>

CatchUp ==
    /\ catching' = ~catching
    /\ UNCHANGED <<asked, applied>>

Next == Ask \/ InTurn \/ Ahead \/ CatchUp

Spec == Init /\ [][Next]_<<asked, applied, catching>>
=============================================================================
