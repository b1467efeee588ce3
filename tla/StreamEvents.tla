---------------------------- MODULE StreamEvents ----------------------------
(***************************************************************************)
(* The events of an answer that is streamed: translate.StreamEvent, which  *)
(* every decoder of internal/translate produces and every encoder takes.   *)
(*                                                                         *)
(* A frame sent to a client is written as a record of the same shape,      *)
(* named for the event it stands for, whatever its protocol calls it.      *)
(* A piece of content is a number, its place in what the upstream sent; a  *)
(* tool call is a number too.  The usage is the set of its parts that have *)
(* been reported: the tokens read ("in") and the tokens written ("out").   *)
(***************************************************************************)
EXTENDS Integers, Sequences, FiniteSets

Full    == {"in", "out"}
NoIndex == -1

StreamEvent(type, index, kind, val, usage) ==
  [type |-> type, index |-> index, kind |-> kind, val |-> val, usage |-> usage]

MessageStart(usage)      == StreamEvent("message_start", NoIndex, "", <<>>, usage)
BlockStart(i, kind, val) == StreamEvent("content_block_start", i, kind, val, {})
BlockDelta(i, kind, val) == StreamEvent("content_block_delta", i, kind, val, {})
BlockStop(i)             == StreamEvent("content_block_stop", i, "", <<>>, {})
MessageDelta(usage)      == StreamEvent("message_delta", NoIndex, "", <<>>, usage)
MessageStop(val, usage)  == StreamEvent("message_stop", NoIndex, "", val, usage)
ErrorEvent               == StreamEvent("error", NoIndex, "", <<>>, {})

Ended == MessageStop(<<>>, {})

BlockEvents == {"content_block_start", "content_block_delta", "content_block_stop"}

\* What the start of a block carries: its tool call, if it is one, and its
\* content, if it came at once.
Header(kind, call, frags) == IF kind = "tool_use" THEN <<call>> \o frags ELSE frags

\* The numbers of a set, in ascending order.
InOrder(S) == [i \in 1 .. Cardinality(S) |-> CHOOSE n \in S : Cardinality({m \in S : m < n}) = i - 1]

\* The map f, with v at k.
Put(f, k, v) == [x \in DOMAIN f \union {k} |-> IF x = k THEN v ELSE f[x]]
=============================================================================
