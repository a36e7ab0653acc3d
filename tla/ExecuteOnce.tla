---------------------------- MODULE ExecuteOnce ----------------------------
(***************************************************************************)
(* What an idempotency key, or the system lock, promises its callers, with *)
(* no records, leases, statuses or expiries: one execution at a time; a    *)
(* response is kept only for a payload that was executed, by the execution *)
(* itself; and a payload with a response is not executed again while the   *)
(* response lives.  Idempotency implements it.                             *)
(*                                                                         *)
(* A caller that is late, which nothing in the database can tell, and a    *)
(* cleanup that deletes what was claimed since it looked void the first    *)
(* and the last of these.                                                  *)
(***************************************************************************)
EXTENDS Integers

CONSTANTS
    Procs,
    Prints,   \* payloads
    Life,     \* how long a response lives
    Grace     \* for how long it may be overlooked by a caller that came before it

VARIABLES
    running,   \* executions, as pairs of the caller and its payload
    done,      \* payloads whose execution has succeeded
    answered,  \* the payload whose response is kept, if any
    since,     \* when the request whose response is kept came
    clock,
    late       \* some caller was, or the cleanup came after a claim

vars == <<running, done, answered, since, clock, late>>

\* The response is over, or so young that the caller could have missed it.
Void ==
    \/ answered = {}
    \/ clock >= since + Life
    \/ clock <= since + Grace

Start(p, f) ==
    /\ late \/ (running = {} /\ Void)
    /\ running' = running \cup {<<p, f>>}
    /\ answered' = {}
    /\ UNCHANGED <<done, clock, late>>

Succeed(p, f) ==
    /\ <<p, f>> \in running
    /\ done' = done \cup {f}
    /\ UNCHANGED <<running, answered, since, clock, late>>

\* The response of the execution is kept from now on.
Keep(p, f) ==
    /\ <<p, f>> \in running
    /\ f \in done
    /\ late \/ answered = {}
    /\ running' = running \ {<<p, f>>}
    /\ answered' = {f}
    /\ late \/ since' \in 1 .. clock
    /\ UNCHANGED <<done, clock, late>>

\* The execution is over without a response: it failed, its caller died, or the
\* response could not be kept.
End(p, f) ==
    /\ <<p, f>> \in running
    /\ running' = running \ {<<p, f>>}
    /\ answered' = answered \/ (late /\ answered' = {})
    /\ UNCHANGED <<done, since, clock, late>>

Forget ==
    /\ late \/ clock >= since + Life
    /\ answered' = {}
    /\ UNCHANGED <<running, done, since, clock, late>>

Tick ==
    /\ clock' = clock + 1
    /\ UNCHANGED <<running, done, answered, since, late>>

\* The cleanup that comes after a claim may take the response with it.
BeLate ==
    /\ late' = TRUE
    /\ answered' \in {answered, {}}
    /\ UNCHANGED <<running, done, since, clock>>

Init ==
    /\ running = {}
    /\ done = {}
    /\ answered = {}
    /\ since = 0
    /\ clock = 1
    /\ late = FALSE

Next ==
    \/ \E p \in Procs, f \in Prints : Start(p, f) \/ Succeed(p, f) \/ Keep(p, f) \/ End(p, f)
    \/ Forget
    \/ Tick
    \/ BeLate

Spec == Init /\ [][Next]_vars

=============================================================================
