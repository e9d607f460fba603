---------------------------- MODULE MCDataPlane ----------------------------
(* Two threads, two switches.  The event thread adds a rule or has nothing  *)
(* to say; the policy thread wipes and re-installs.                         *)
EXTENDS DataPlane

Ins == [kind |-> "insert", dst |-> "outbound"]
Del == [kind |-> "remove", dst |-> "outbound"]
InsIn == [kind |-> "insert", dst |-> "inbound"]

MCMods == {Ins, Del, InsIn}

MCWork ==
    [t \in Threads |->
        IF t = "event"
        THEN {[batches |-> <<>>, always |-> FALSE], [batches |-> <<<<Ins>>>>, always |-> FALSE]}
        ELSE {[batches |-> <<<<Del>>, <<InsIn>>>>, always |-> TRUE]}]
=============================================================================
