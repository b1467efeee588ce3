------------------------------- MODULE Writer -------------------------------
(***************************************************************************)
(* The single-writer queue of internal/db/writer.go: every goroutine that  *)
(* writes to the database hands a closure to one loop, and waits for it    *)
(* (DoSync) or does not (DoAsync).  Stop is called when the process shuts  *)
(* down, while handlers may still be running.                              *)
(*                                                                         *)
(* A Go channel serves blocked senders first come first served, and a      *)
(* receive from a full channel lets the first of them in, so the channel   *)
(* and the senders blocked on it form one sequence: what has been sent and *)
(* not been taken, the first Cap of it in the buffer.                      *)
(***************************************************************************)
EXTENDS Naturals, Sequences

CONSTANTS
  Sync, Async,  \* calls of DoSync and of DoAsync, each made at most once
  Stoppers,     \* calls of Stop
  Cap           \* the channel's buffer

ASSUME CallsAssumption ==
  Sync \intersect Async = {} /\ Stoppers \intersect (Sync \union Async) = {}
ASSUME CapAssumption == Cap \in Nat \ {0}

VARIABLES
  sent,      \* every call that has sent its closure, in that order
  taken,     \* how many of them the loop has received
  ran,       \* how many of them the loop has executed
  loop,      \* where the loop is
  closed,    \* Writer.closed
  stopCh,    \* Writer.stopCh is closed
  inflight,  \* the calls that Writer.inflight counts
  pc,        \* per call and stopper: where it is
  answer     \* per call: what became of it

vars == <<sent, taken, ran, loop, closed, stopCh, inflight, pc, answer>>

Calls   == Sync \union Async
Pending == Len(sent) - taken
Running == ran < taken

Init ==
  /\ sent = <<>> /\ taken = 0 /\ ran = 0
  /\ loop = "serve"
  /\ closed = FALSE /\ stopCh = FALSE
  /\ inflight = {}
  /\ pc = [c \in Calls \union Stoppers |-> "new"]
  /\ answer = [c \in Calls |-> "none"]

-----------------------------------------------------------------------------
(* DoAsync: the check is under the lock, the send is not. *)

AsyncCheck(c) ==
  /\ pc[c] = "new"
  /\ IF closed
       THEN pc' = [pc EXCEPT ![c] = "done"] /\ answer' = [answer EXCEPT ![c] = "refused"]
       ELSE pc' = [pc EXCEPT ![c] = "checked"] /\ UNCHANGED answer
  /\ UNCHANGED <<sent, taken, ran, loop, closed, stopCh, inflight>>

\* Without room in the buffer, the write is dropped.
AsyncSend(c) ==
  /\ pc[c] = "checked"
  /\ IF Pending < Cap
       THEN sent' = Append(sent, c) /\ UNCHANGED answer
       ELSE answer' = [answer EXCEPT ![c] = "dropped"] /\ UNCHANGED sent
  /\ pc' = [pc EXCEPT ![c] = "done"]
  /\ UNCHANGED <<taken, ran, loop, closed, stopCh, inflight>>

(* DoSync *)

SyncCheck(c) ==
  /\ pc[c] = "new"
  /\ IF closed
       THEN /\ pc' = [pc EXCEPT ![c] = "done"]
            /\ answer' = [answer EXCEPT ![c] = "refused"]
            /\ UNCHANGED inflight
       ELSE /\ pc' = [pc EXCEPT ![c] = "checked"]
            /\ inflight' = inflight \union {c}
            /\ UNCHANGED answer
  /\ UNCHANGED <<sent, taken, ran, loop, closed, stopCh>>

SyncSend(c) ==
  /\ pc[c] = "checked"
  /\ sent' = Append(sent, c)
  /\ pc' = [pc EXCEPT ![c] = "wait"]
  /\ UNCHANGED <<taken, ran, loop, closed, stopCh, inflight, answer>>

\* Mutant: a call that failed returns without inflight.Done.
SyncReturnIfGood(c) ==
  /\ pc[c] = "wait"
  /\ answer[c] # "none"
  /\ pc' = [pc EXCEPT ![c] = "done"]
  /\ inflight' = IF answer[c] = "ok" THEN inflight \ {c} ELSE inflight
  /\ UNCHANGED <<sent, taken, ran, loop, closed, stopCh, answer>>

SyncReturn(c) ==
  /\ pc[c] = "wait"
  /\ answer[c] # "none"
  /\ pc' = [pc EXCEPT ![c] = "done"]
  /\ inflight' = inflight \ {c}
  /\ UNCHANGED <<sent, taken, ran, loop, closed, stopCh, answer>>

-----------------------------------------------------------------------------
(* loop: it serves until it sees stopCh closed (a select with two ready     *)
(* channels picks either), then drains what is left and ends.               *)

Take ==
  /\ loop \in {"serve", "drain"} /\ ~Running
  /\ Pending > 0
  /\ taken' = taken + 1
  /\ UNCHANGED <<sent, ran, loop, closed, stopCh, inflight, pc, answer>>

\* The closure runs, well or not, and the result goes to who waits for it.
Run ==
  /\ Running
  /\ ran' = taken
  /\ \E res \in {"ok", "failed"} : answer' = [answer EXCEPT ![sent[taken]] = res]
  /\ UNCHANGED <<sent, taken, loop, closed, stopCh, inflight, pc>>

SeeStop ==
  /\ loop = "serve" /\ ~Running
  /\ stopCh
  /\ loop' = "drain"
  /\ UNCHANGED <<sent, taken, ran, closed, stopCh, inflight, pc, answer>>

EndDrain ==
  /\ loop = "drain" /\ ~Running
  /\ Pending = 0
  /\ loop' = "ended"
  /\ UNCHANGED <<sent, taken, ran, closed, stopCh, inflight, pc, answer>>

-----------------------------------------------------------------------------
(* Stop: the first caller does the work, the others return at once. *)

StopMark(s) ==
  /\ pc[s] = "new"
  /\ closed' = TRUE
  /\ pc' = [pc EXCEPT ![s] = IF closed THEN "done" ELSE "drain"]
  /\ UNCHANGED <<sent, taken, ran, loop, stopCh, inflight, answer>>

\* Mutant: stopCh is closed without waiting for the calls in flight.
StopCloseAtOnce(s) ==
  /\ pc[s] = "drain"
  /\ stopCh' = TRUE
  /\ pc' = [pc EXCEPT ![s] = "join"]
  /\ UNCHANGED <<sent, taken, ran, loop, closed, inflight, answer>>

StopClose(s) ==
  /\ pc[s] = "drain"
  /\ inflight = {}
  /\ stopCh' = TRUE
  /\ pc' = [pc EXCEPT ![s] = "join"]
  /\ UNCHANGED <<sent, taken, ran, loop, closed, inflight, answer>>

StopReturn(s) ==
  /\ pc[s] = "join"
  /\ loop = "ended"
  /\ pc' = [pc EXCEPT ![s] = "done"]
  /\ UNCHANGED <<sent, taken, ran, loop, closed, stopCh, inflight, answer>>

\* run returns, and the process exits.
Exit == (\A c \in Calls \union Stoppers : pc[c] = "done") /\ UNCHANGED vars

-----------------------------------------------------------------------------
Async1(c) == AsyncCheck(c) \/ AsyncSend(c)
Sync1(c)  == SyncCheck(c) \/ SyncSend(c) \/ SyncReturn(c)
Loop      == Take \/ Run \/ SeeStop \/ EndDrain
Stop1(s)  == StopMark(s) \/ StopClose(s) \/ StopReturn(s)

Next ==
  \/ \E c \in Async : Async1(c)
  \/ \E c \in Sync : Sync1(c)
  \/ Loop
  \/ \E s \in Stoppers : Stop1(s)
  \/ Exit

Spec == Init /\ [][Next]_vars

-----------------------------------------------------------------------------
(* Properties; Lifetime states the fairness. *)

\* The types, and the shape of the channel: one closure is executed at a time,
\* and those that wait for room in the buffer are calls of DoSync.
TypeOK ==
  /\ sent \in Seq(Calls)
  /\ taken \in Nat /\ taken <= Len(sent)
  /\ ran \in Nat /\ (ran = taken \/ ran + 1 = taken)
  /\ \A i \in 1..Len(sent) : i > taken + Cap => sent[i] \in Sync
  /\ loop \in {"serve", "drain", "ended"}
  /\ closed \in BOOLEAN /\ stopCh \in BOOLEAN
  /\ inflight \in SUBSET Sync
  /\ pc \in [Calls \union Stoppers -> {"new", "checked", "wait", "drain", "join", "done"}]
  /\ answer \in [Calls -> {"none", "ok", "failed", "refused", "dropped"}]

\* The writer executes accepted writes once and in order, tells the outcome to
\* those who wait only after the execution, and ends only when none of them is
\* left: DoSync racing Stop is either refused or served.
Told == {c \in Sync : pc[c] = "done" /\ answer[c] # "refused"}
WO == INSTANCE WriteOrder WITH order <- sent, upto <- ran, told <- Told, shut <- loop = "ended"
Implements == WO!Spec

\* A call of DoSync that began returns, even if Stop is called meanwhile and the
\* channel is full, and Stop returns: the calls in flight, the loop and Stop do not
\* wait for each other.
EveryoneReturns ==
  /\ \A c \in Sync : pc[c] = "checked" ~> pc[c] = "done"
  /\ \A s \in Stoppers : pc[s] = "drain" ~> pc[s] = "done"
=============================================================================
