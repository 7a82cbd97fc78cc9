----------------------------- MODULE BindingQueue -----------------------------
(***************************************************************************)
(* What the scheduling queue promises its users, whatever it is made of:   *)
(* a binding somebody asked to schedule stays asked for until a worker     *)
(* takes it, a worker takes one binding at a time, and no two workers hold *)
(* the same binding.  Only after Close may requests be discarded.          *)
(***************************************************************************)
CONSTANTS
    Bindings,  \* keys of the bindings
    Workers,   \* the scheduler's worker goroutines
    None       \* no binding

VARIABLES
    todo,    \* bindings that are asked for and not taken
    busy,    \* the binding each worker holds, or None
    closed

vars == <<todo, busy, closed>>

Init ==
    /\ todo = {}
    /\ busy = [w \in Workers |-> None]
    /\ closed = FALSE

\* An event, or the failure of an attempt, asks for the binding.
Request(b) ==
    /\ todo' = todo \cup {b}
    /\ UNCHANGED <<busy, closed>>

Take(w, b) ==
    /\ b \in todo
    /\ busy[w] = None
    /\ \A v \in Workers : busy[v] # b
    /\ todo' = todo \ {b}
    /\ busy' = [busy EXCEPT ![w] = b]
    /\ UNCHANGED closed

Release(w) ==
    /\ busy' = [busy EXCEPT ![w] = None]
    /\ UNCHANGED <<todo, closed>>

\* Closing discards requests, and so does a closed queue at any later time.
Close ==
    /\ closed' = TRUE
    /\ todo' \in SUBSET todo
    /\ UNCHANGED busy

Next ==
    \/ \E b \in Bindings : Request(b)
    \/ \E w \in Workers, b \in Bindings : Take(w, b)
    \/ \E w \in Workers : Release(w)
    \/ Close

Spec == Init /\ [][Next]_vars
=============================================================================
