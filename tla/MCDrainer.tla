----------------------------- MODULE MCDrainer -----------------------------
(* One filter key; a device has the filtered value in its metadata, has it *)
(* in its claims under another one in its metadata, or has only the claim. *)
EXTENDS Drainer

CONSTANTS k, v, w, id1, id2, j1, j2

Describe(m, c) == [metadata |-> [key \in FilterKeys |-> m], claims |-> [key \in FilterKeys |-> c]]
MCKinds == {Describe({w}, {v}), Describe(NoValue, {v, w})}
Filtered == [key \in FilterKeys |-> {v}]

Input(count, percent, rate, filter) ==
    [count |-> count, percent |-> percent, rate |-> rate, filter |-> filter]
MCInputs == {Input(-1, 0, 1, Filtered), Input(0, 70, -1, NoFilter)}
=============================================================================
