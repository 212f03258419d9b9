------------------------------- MODULE RwLock -------------------------------
(***************************************************************************)
(* tokio::sync::RwLock, which src/ uses for the index and for the shield   *)
(* buffer, as far as its users rely on it: many readers or one writer, and *)
(* waiters served in the order they came, so that a waiting writer keeps   *)
(* later readers out.  A lock is a value; the operators are its calls.     *)
(***************************************************************************)
EXTENDS Naturals, Sequences, FiniteSets

Mode == {"read", "write"}

Free == [held |-> {}, queue |-> <<>>]

\* Who is in the lock when the first n waiters have been let in.
Admitted(l, n) == l.held \cup {l.queue[k] : k \in 1..n}

\* A writer is alone in the lock.
Compatible(claims) ==
    \A x, y \in claims : x # y => x.mode = "read" /\ y.mode = "read"

\* Let in as many waiters as there is room for, first come first served.
Grant(l) ==
    LET n == CHOOSE k \in 0..Len(l.queue) :
                /\ Compatible(Admitted(l, k))
                /\ \A m \in (k + 1)..Len(l.queue) : ~Compatible(Admitted(l, m))
    IN  [ held  |-> Admitted(l, n),
          queue |-> SubSeq(l.queue, n + 1, Len(l.queue)) ]

\* read().await or write().await: the call returns once Holds does.
Request(l, t, mode) ==
    Grant([l EXCEPT !.queue = Append(@, [task |-> t, mode |-> mode])])

Holds(l, t) == \E x \in l.held : x.task = t

\* The drop of the guard.
Release(l, t) == Grant([l EXCEPT !.held = {x \in @ : x.task # t}])
=============================================================================
