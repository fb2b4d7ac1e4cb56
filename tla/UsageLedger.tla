----------------------------- MODULE UsageLedger -----------------------------
(***************************************************************************)
(* What ingestion promises to whoever reads the usage history, whatever    *)
(* the router, the clock, the worker processes and the database do: usage  *)
(* is charged once, for spans of time that never overlap, and never more   *)
(* of it than has been carried.                                            *)
(***************************************************************************)
EXTENDS Integers

CONSTANT Direction

VARIABLES
    carried, \* traffic that went through, per direction
    billed,  \* usage charged so far, per direction
    span     \* the span of time charged last

ledger == <<carried, billed, span>>

Init ==
    /\ carried = [d \in Direction |-> 0]
    /\ billed = [d \in Direction |-> 0]
    /\ span = [from |-> 0, to |-> 0]

(* Traffic goes through in one direction. *)
Carry(d) ==
    /\ carried' = [carried EXCEPT ![d] = @ + 1]
    /\ UNCHANGED <<billed, span>>

(* A later span of time is charged, with some of the traffic still due.    *)
Charge ==
    /\ span' = [from |-> span'.from, to |-> span'.to]
    /\ span.to <= span'.from /\ span'.from < span'.to
    /\ billed' \in [Direction -> Nat]
    /\ \A d \in Direction : billed[d] <= billed'[d] /\ billed'[d] <= carried[d]
    /\ UNCHANGED carried

Next == Charge \/ \E d \in Direction : Carry(d)

Spec == Init /\ [][Next]_ledger
=============================================================================
