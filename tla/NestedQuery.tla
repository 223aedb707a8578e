---------------------------- MODULE NestedQuery ----------------------------
(***************************************************************************)
(* LerobotNestedQuery and the monitor that cancels nested queries          *)
(* (src/src/lerobot_query.cpp).                                            *)
(*                                                                         *)
(* A table function reads Parquet or Lance files by way of a query on a    *)
(* connection of its own.  DuckDB interrupts only the caller's context, so *)
(* one monitor thread per database watches the callers of all registered   *)
(* queries and passes an interrupt on.  DuckDB clears the interrupt flag   *)
(* of a context whenever a query starts on it, and the monitor borrows     *)
(* both contexts without owning them.                                      *)
(***************************************************************************)
EXTENDS Integers, Sequences, SequencesExt

CONSTANTS
    Queries,              \* the threads that run nested queries, one at a time each
    Callers,              \* the client contexts of the callers
    CallerOf              \* the caller's context of each query

ASSUME CallersAssumption == CallerOf \in [Queries -> Callers]

VARIABLES
    pc,                   \* the step of each query
    connected,            \* the queries whose connection exists
    interrupted,          \* external: the callers' contexts that are interrupted
    child_interrupted,    \* external: the connections' contexts that are interrupted
    entries,              \* NestedCancellationMonitor::entries
    cancelled,            \* NestedCancellationEntry::cancelled
    worker                \* whether the monitor has a thread

vars == <<pc, connected, interrupted, child_interrupted, entries, cancelled, worker>>

Steps == {"idle", "register", "setup", "send", "running", "check", "unregister", "destroy"}

\* Every variable has the type the code declares for it, and no query is registered twice.
TypeOK ==
    /\ pc \in [Queries -> Steps] /\ connected \subseteq Queries
    /\ interrupted \subseteq Callers /\ child_interrupted \subseteq Queries
    /\ entries \in Seq(Queries) /\ \A i, k \in DOMAIN entries : entries[i] = entries[k] => i = k
    /\ cancelled \subseteq Queries /\ worker \in BOOLEAN

Init ==
    /\ pc = [q \in Queries |-> "idle"] /\ connected = {}
    /\ interrupted = {} /\ child_interrupted = {}
    /\ entries = <<>> /\ cancelled = {} /\ worker = FALSE

-----------------------------------------------------------------------------
(* A nested query *)

Goto(q, step) == pc' = [pc EXCEPT ![q] = step]
CallerInterrupted(q) == CallerOf[q] \in interrupted

\* The constructor refuses an interrupted caller, and connects.
Connect(q) ==
    /\ pc[q] = "idle" /\ ~CallerInterrupted(q)
    /\ connected' = connected \cup {q}
    /\ Goto(q, "register")
    /\ UNCHANGED <<interrupted, child_interrupted, entries, cancelled, worker>>

\* NestedCancellationMonitor::Register; the first registration starts the thread.
Register(q) ==
    /\ pc[q] = "register"
    /\ entries' = Append(entries, q) /\ cancelled' = cancelled \ {q} /\ worker' = TRUE
    /\ Goto(q, "setup")
    /\ UNCHANGED <<connected, interrupted, child_interrupted>>

\* The thread cannot be started: the entry is taken back, and the connection destroyed.
RegisterFails(q) ==
    /\ pc[q] = "register" /\ ~worker
    /\ Goto(q, "destroy")
    /\ UNCHANGED <<connected, interrupted, child_interrupted, entries, cancelled, worker>>

\* NestedCancellationScope::CheckInterrupted
MustStop(q) == CallerInterrupted(q) \/ q \in cancelled

\* The settings and the transaction of the reader are set up, between two checks.  That may
\* fail, as may all that follows.
SetUp(q) ==
    /\ pc[q] = "setup"
    /\ Goto(q, IF MustStop(q) THEN "unregister" ELSE "send")
    /\ UNCHANGED <<connected, interrupted, child_interrupted, entries, cancelled, worker>>

\* External, SendQuery and Query: DuckDB clears the flag of the connection's context.
Send(q) ==
    /\ pc[q] = "send"
    /\ child_interrupted' = child_interrupted \ {q}
    /\ Goto(q, "running")
    /\ UNCHANGED <<connected, interrupted, entries, cancelled, worker>>

\* External: DuckDB delivers a chunk or the end.  It may take forever.
Deliver(q) ==
    /\ pc[q] = "running"
    /\ Goto(q, "check")
    /\ UNCHANGED <<connected, interrupted, child_interrupted, entries, cancelled, worker>>

\* External: DuckDB sees the flag and the query fails.
Interrupted(q) ==
    /\ pc[q] = "running" /\ q \in child_interrupted
    /\ Goto(q, "unregister")
    /\ UNCHANGED <<connected, interrupted, child_interrupted, entries, cancelled, worker>>

\* Fetch: no chunk is used after an interrupt, and no other fetched.  The caller stops when
\* it likes.
Check(q) ==
    /\ pc[q] = "check"
    /\ \E more \in BOOLEAN : Goto(q, IF more /\ ~MustStop(q) THEN "running" ELSE "unregister")
    /\ UNCHANGED <<connected, interrupted, child_interrupted, entries, cancelled, worker>>

\* The members are destroyed: the result, then the registration, then the connection.
Fail(q) ==
    /\ pc[q] \in {"setup", "send", "running"}
    /\ Goto(q, "unregister")
    /\ UNCHANGED <<connected, interrupted, child_interrupted, entries, cancelled, worker>>

\* Mutant: the members are declared, and destroyed, in another order.
UnregisterLate(q) ==
    /\ pc[q] = "unregister"
    /\ connected' = connected \ {q}
    /\ Goto(q, "destroy")
    /\ UNCHANGED <<interrupted, child_interrupted, entries, cancelled, worker>>

Unregister(q) ==
    /\ pc[q] = "unregister"
    /\ \E i \in DOMAIN entries : entries[i] = q /\ entries' = RemoveAt(entries, i)
    /\ Goto(q, "destroy")
    /\ UNCHANGED <<connected, interrupted, child_interrupted, cancelled, worker>>

Destroy(q) ==
    /\ pc[q] = "destroy"
    /\ connected' = connected \ {q} /\ child_interrupted' = child_interrupted \ {q}
    /\ cancelled' = cancelled \ {q}
    /\ Goto(q, "idle")
    /\ UNCHANGED <<interrupted, entries, worker>>

-----------------------------------------------------------------------------
(* The monitor *)

\* Mutant: an interrupt is passed on once.
ScanOnce ==
    LET found == {q \in ToSet(entries) : CallerInterrupted(q) /\ q \notin cancelled}
    IN /\ worker /\ entries # <<>>
       /\ cancelled' = cancelled \cup found
       /\ child_interrupted' = child_interrupted \cup found
       /\ UNCHANGED <<pc, connected, interrupted, entries, worker>>

\* Run, one round under the mutex: interrupts are sent again until the query unregisters.
Scan ==
    LET stop == {q \in ToSet(entries) : MustStop(q)}
    IN /\ worker /\ entries # <<>>
       /\ cancelled' = cancelled \cup stop
       /\ child_interrupted' = child_interrupted \cup stop
       /\ UNCHANGED <<pc, connected, interrupted, entries, worker>>

\* The object cache drops a monitor that no query holds; the next query makes a new one.
EvictMonitor ==
    /\ worker /\ \A q \in Queries : pc[q] \in {"idle", "destroy"}
    /\ worker' = FALSE
    /\ UNCHANGED <<pc, connected, interrupted, child_interrupted, entries, cancelled>>

\* External: the caller's query is interrupted.
Interrupt(c) ==
    /\ c \notin interrupted /\ interrupted' = interrupted \cup {c}
    /\ UNCHANGED <<pc, connected, child_interrupted, entries, cancelled, worker>>

Terminated ==
    /\ \A q \in Queries : pc[q] = "idle" /\ CallerInterrupted(q)
    /\ UNCHANGED vars

Step(q) ==
    \/ Connect(q) \/ Register(q) \/ RegisterFails(q) \/ SetUp(q) \/ Send(q) \/ Deliver(q)
    \/ Interrupted(q) \/ Check(q) \/ Fail(q) \/ Unregister(q) \/ Destroy(q)

Next ==
    \/ \E q \in Queries : Step(q)
    \/ Scan \/ EvictMonitor \/ Terminated
    \/ \E c \in Callers : Interrupt(c)

\* A thread that runs a query takes its own steps, DuckDB polls the flag of a query that
\* runs, and the monitor wakes every ten milliseconds.  That DuckDB delivers is not assumed.
OwnStep(q) ==
    \/ Register(q) \/ SetUp(q) \/ Send(q) \/ Interrupted(q) \/ Check(q) \/ Unregister(q)
    \/ Destroy(q)
Fairness == (\A q \in Queries : WF_vars(OwnStep(q))) /\ WF_vars(Scan)

Spec == Init /\ [][Next]_vars
FairSpec == Spec /\ Fairness

-----------------------------------------------------------------------------

\* Whatever the monitor looks at under its mutex exists: it never touches the context of a
\* connection that is destroyed, whichever way the query ends.
BorrowedExists == ToSet(entries) \subseteq connected

\* A registered query is watched, and the monitor is not dropped under it.
EntriesWatched == entries # <<>> => worker

\* A caller that is interrupted is left by its nested queries, also if the interrupt comes
\* while DuckDB starts the query and clears the flag, and if DuckDB never delivers.
InterruptEnds == \A q \in Queries : CallerInterrupted(q) ~> pc[q] = "idle"
=============================================================================
