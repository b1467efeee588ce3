------------------------------ MODULE Lifetime ------------------------------
(***************************************************************************)
(* The life of a process (cmd/any-llm/main.go): it opens the database, and *)
(* only with a migrated one it starts the writer, whose calls come from    *)
(* the handlers and pollers, and stops it before it exits.  The start is   *)
(* raced by those of other processes; the writer belongs to one.           *)
(***************************************************************************)
EXTENDS Writer, Migrations

CONSTANT Here  \* the process whose writer is followed

ASSUME HereAssumption == Here \in Procs

lvars == <<vars, migrated>>

\* Bound: the writer is followed in a process that made its database, a file, without a fault;
\* what the writer does depends on neither.
Over == stage[Here] = "up" /\ dialect = "sqlite" /\ DOMAIN origin = {} /\ faults = 0

\* Bound: from its first call on nobody starts.
Untouched == \A c \in Calls \union Stoppers : pc[c] = "new"

\* run: the writer exists once the database is open, and a process that uses it does not die.
Serve(A) == Over /\ A /\ UNCHANGED migrated
Before(A) == Untouched /\ A /\ UNCHANGED vars

LInit == Init /\ AsReleased

LNext ==
  \/ \E c \in Async : Serve(AsyncCheck(c)) \/ Serve(AsyncSend(c))
  \/ \E c \in Sync : Serve(SyncCheck(c)) \/ Serve(SyncSend(c)) \/ Serve(SyncReturn(c))
  \/ Serve(Take) \/ Serve(Run) \/ Serve(SeeStop) \/ Serve(EndDrain)
  \/ \E s \in Stoppers : Serve(StopMark(s)) \/ Serve(StopClose(s)) \/ Serve(StopReturn(s))
  \/ Serve(Exit)
  \/ \E p \in Procs :
       \/ Before(Open(p)) \/ Before(Look(p)) \/ Before(Exec(p)) \/ Before(Begin(p))
       \/ Before(Commit(p)) \/ Before(RebuildStep(p)) \/ Before(Up(p))
       \/ Before(Fault(p)) \/ Before(Tolerate(p))

LSpec == LInit /\ [][LNext]_lvars

\* The goroutines are scheduled, and a closure handed to the writer returns; nobody has to make
\* a call or to stop the writer.  A start goes on, and whatever runs the process starts it again.
LFairSpec ==
  /\ LSpec
  /\ WF_lvars(Serve(Loop))
  /\ \A c \in Sync : WF_lvars(Serve(SyncSend(c) \/ SyncReturn(c)))
  /\ \A s \in Stoppers : WF_lvars(Serve(StopClose(s) \/ StopReturn(s)))
  /\ \A p \in Procs : WF_lvars(Before(StartStep(p))) /\ WF_lvars(Before(Open(p)))
=============================================================================
