----------------------------- MODULE WriteOrder -----------------------------
(***************************************************************************)
(* What the single-writer queue (internal/db/writer.go) promises those who *)
(* hand it writes: accepted writes are executed one at a time, each once,  *)
(* in the order they were accepted; whoever waits for an answer gets it    *)
(* when its write has been executed; and the writer shuts down only when   *)
(* every write that somebody waits for has been executed.                  *)
(***************************************************************************)
EXTENDS Naturals, Sequences

CONSTANTS Sync, Async  \* writes that somebody waits for, and fire-and-forget ones

VARIABLES order,       \* the accepted writes
          upto,        \* how many of them have been executed
          told,        \* the writes whose execution has been reported
          shut         \* the writer has shut down
vars == <<order, upto, told, shut>>

Accepted == {order[i] : i \in 1..Len(order)}
Executed == {order[i] : i \in 1..upto}

Init == order = <<>> /\ upto = 0 /\ told = {} /\ shut = FALSE

Accept(c) ==
  /\ c \notin Accepted
  /\ shut => c \in Async
  /\ order' = Append(order, c)
  /\ UNCHANGED <<upto, told, shut>>

Execute ==
  /\ ~shut
  /\ upto < Len(order)
  /\ upto' = upto + 1
  /\ UNCHANGED <<order, told, shut>>

Tell(c) ==
  /\ c \in Executed \intersect Sync
  /\ told' = told \union {c}
  /\ UNCHANGED <<order, upto, shut>>

Shut ==
  /\ Accepted \intersect Sync \subseteq Executed
  /\ shut' = TRUE
  /\ UNCHANGED <<order, upto, told>>

Next == (\E c \in Sync \union Async : Accept(c)) \/ Execute \/ (\E c \in Sync : Tell(c)) \/ Shut

Spec == Init /\ [][Next]_vars
=============================================================================
