----------------------------- MODULE BlockPromise -----------------------------
(***************************************************************************)
(* What blocking a device promises, whatever happens to the worker, the    *)
(* router's answers and the rows of the database: a device is put on the   *)
(* filter of a network only after a user asked for it there, and the       *)
(* dashboard shows it as blocked only after it is on a filter.             *)
(***************************************************************************)
CONSTANTS Mac, Network

VARIABLES
    asked,  \* what users have asked for: a device, and the network it was on
    filter, \* the router's WLAN MAC filters: devices, each for one network
    shown   \* devices the dashboard shows as blocked

promise == <<asked, filter, shown>>

Init == asked = {} /\ filter = {} /\ shown = {}

(* A user asks for m to be blocked on n. *)
Ask(m, n) == asked' = asked \union {<<m, n>>} /\ UNCHANGED <<filter, shown>>

(* The router puts m on its filter for n. *)
Apply(m, n) ==
    <<m, n>> \in asked /\ filter' = filter \union {<<m, n>>} /\ UNCHANGED <<asked, shown>>

(* The dashboard learns of it. *)
Show(m, n) == <<m, n>> \in filter /\ shown' = shown \union {m} /\ UNCHANGED <<asked, filter>>

(* The device is deleted from the dashboard; the router is not told.       *)
Forget(m) == shown' = shown \ {m} /\ UNCHANGED <<asked, filter>>

Next == \E m \in Mac, n \in Network : Ask(m, n) \/ Apply(m, n) \/ Show(m, n) \/ Forget(m)

Spec == Init /\ [][Next]_promise
=============================================================================
