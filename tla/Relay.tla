-------------------------------- MODULE Relay --------------------------------
(***************************************************************************)
(* The relay of one streamed answer: streamLoop of internal/upstream reads *)
(* and decodes what the upstream sends, and hands the events through a     *)
(* bounded channel to pump of internal/gateway, which encodes them for the *)
(* client, and settles at the end what is flushed, saved and recorded.     *)
(*                                                                         *)
(* The upstream may stop at any point, in order, by an end of the body, by *)
(* a broken connection or by an error event; the client may leave at any   *)
(* point, which cancels the context that reader, upstream call and pump    *)
(* share.  Keep-alive pings change no state and are left out.              *)
(***************************************************************************)
EXTENDS StreamDecode, StreamEncode

CONSTANTS
  Upstreams,  \* formats of the endpoint that answers
  Clients,    \* formats of the client
  Kinds,      \* kinds of block an Anthropic upstream may send
  Cap,        \* the channel's buffer
  MaxBlocks,  \* bound: blocks or tool calls an upstream opens
  MaxFrags    \* bound: pieces of content an upstream sends

Formats == {"openai", "anthropic", "responses"}

ASSUME FormatsAssumption == Upstreams \subseteq Formats /\ Clients \subseteq Formats
ASSUME CapAssumption     == Cap \in Nat \ {0}
ASSUME BlocksAssumption  == MaxBlocks \in Nat /\ MaxFrags \in Nat

VARIABLES
  format,    \* the two formats, and whether the answer is a stream
  up,        \* the upstream: its phase, its blocks, the usage it reported
  sent,      \* every piece of content it sent
  dec,       \* the decoder of streamLoop
  reader,    \* where streamLoop is
  pending,   \* decoded events it has not sent to the channel
  chan,      \* the channel
  result,    \* Result: the usage, and whether the stream failed
  left,      \* the client has disconnected
  pump,      \* where pump is
  ending,    \* how its loop ended: "gone" and "signalled" are its two flags
  started,   \* blockStarted: blocks whose start the client has seen
  enc,       \* the encoder
  rec,       \* streamRecorder
  wire,      \* the frames written to the client
  saves,     \* what was saved in the session
  records    \* the usage records

upVars    == <<up, sent>>
readVars  == <<dec, reader, pending, result>>
outVars   == <<started, enc, rec, wire>>
endVars   == <<saves, records>>
relayVars == <<format, upVars, readVars, chan, left, pump, ending, outVars, endVars>>

RelayInit ==
  /\ format \in [up : Upstreams, client : Clients, stream : BOOLEAN]
  /\ up = [phase |-> "new", blocks |-> <<>>, usage |-> {}] /\ sent = <<>>
  /\ dec = Decoder(format.up)
  /\ reader = IF format.stream THEN "scan" ELSE "closed"
  /\ pending = <<>> /\ chan = <<>>
  /\ result = [usage |-> {}, err |-> FALSE]
  /\ left = FALSE
  /\ pump = "loop" /\ ending = "none"
  /\ started = {} /\ enc = Encoder(format.client) /\ rec = <<>> /\ wire = <<>>
  /\ saves = <<>> /\ records = <<>>

-----------------------------------------------------------------------------
(* streamLoop takes one payload at a time from the body. *)

\* Mutant: message_delta is not looked at.
UsageAfterStart(usage, evs) ==
  IF evs # <<>> /\ Head(evs).type = "message_start" THEN Head(evs).usage ELSE usage

\* The usage is set when an event is about to be sent, before the send.
UsageAfter(usage, evs) ==
  IF evs = <<>> THEN usage
  ELSE IF \/ Head(evs).type = "message_delta"
          \/ Head(evs).type = "message_start" /\ format.up = "anthropic"
    THEN Head(evs).usage ELSE usage

Scan(payload) ==
  /\ reader = "scan"
  /\ LET d == Decode(format.up, dec, payload)
     IN  /\ dec' = d.dec
         /\ pending' = d.evs
         /\ result' = [result EXCEPT !.usage = UsageAfter(@, d.evs)]
         /\ reader' = IF d.evs = <<>> THEN "scan" ELSE "send"
  /\ UNCHANGED <<format, chan, left, pump, ending, outVars, endVars>>

-----------------------------------------------------------------------------
(* The upstream: what it may send next, in each protocol as the decoders   *)
(* expect it.                                                              *)

Body     == up.phase = "body"
OpenNow  == {b \in DOMAIN up.blocks : up.blocks[b].open}
NewCall(kind) == IF kind = "tool_use"
                   THEN 1 + Len(SelectSeq(up.blocks, LAMBDA b : b.kind = "tool_use")) ELSE 0
Contents(b) == SelectSeq([n \in DOMAIN sent |-> n], LAMBDA n : sent[n].block = b)

\* Everything sent about block b came with its start.
CameWhole(b) == \E n \in DOMAIN sent : sent[n].block = b /\ sent[n].whole

\* One more piece of content, for block b (0: for none), if there is one.
Adds(frags, kind, call, b, whole) ==
  /\ Len(sent) + Len(frags) <= MaxFrags
  /\ sent' = sent \o [f \in DOMAIN frags |->
                      [kind |-> kind, call |-> call, block |-> b, whole |-> whole]]

Piece == <<Len(sent) + 1>>

\* An open block at the same place is over.
WithBlock(at, kind) ==
  Append([b \in DOMAIN up.blocks |->
            [up.blocks[b] EXCEPT !.open = @ /\ up.blocks[b].at # at]],
         [at |-> at, kind |-> kind, call |-> NewCall(kind), open |-> TRUE])

\* A payload that opens a block, with its first piece of content or without.
SendOpen(at, kind, frags) ==
  /\ Len(up.blocks) < MaxBlocks
  /\ up' = [up EXCEPT !.phase = "body", !.blocks = WithBlock(at, kind)]
  /\ Adds(frags, kind, NewCall(kind), Len(up.blocks) + 1, TRUE)
  /\ Scan(Payload("open", at, kind, NewCall(kind), frags, {}))

SendDelta(b) ==
  /\ ~CameWhole(b) /\ up.blocks[b].kind # "opaque"
  /\ Adds(Piece, up.blocks[b].kind, up.blocks[b].call, b, FALSE)
  /\ Scan(Payload("delta", up.blocks[b].at, up.blocks[b].kind, 0, Piece, {}))
  /\ UNCHANGED up

\* The end of a block, with all its content or with none of it.
SendClose(b, frags) ==
  /\ up' = [up EXCEPT !.blocks[b].open = FALSE]
  /\ Scan(Payload("close", up.blocks[b].at, up.blocks[b].kind, 0, frags, {}))

Send(part, phase, usage) ==
  /\ up' = [up EXCEPT !.phase = phase, !.usage = @ \union usage]
  /\ Scan(Payload(part, 0, "", 0, <<>>, usage))
  /\ UNCHANGED sent

\* Content comes without blocks; tool calls come under indices, and a new
\* call may take the index of an old one.
OpenAISends ==
  \/ /\ up.phase \in {"new", "body"}
     /\ \/ \E kind \in {"text", "thinking"} :
             /\ up' = [up EXCEPT !.phase = "body"]
             /\ Adds(Piece, kind, 0, 0, FALSE)
             /\ Scan(Payload("delta", 0, kind, 0, Piece, {}))
        \/ \E at \in 0..(MaxBlocks - 1), frags \in {<<>>, Piece} : SendOpen(at, "tool_use", frags)
        \/ \E b \in OpenNow :
             /\ Adds(Piece, "tool_use", up.blocks[b].call, b, FALSE)
             /\ Scan(Payload("delta", up.blocks[b].at, "tool_use", 0, Piece, {}))
             /\ UNCHANGED up
  \/ Body /\ \E usage \in {{}, Full} : Send("finish", "finished", usage)
  \/ up.phase = "finished" /\ up.usage = {} /\ Send("usage", "finished", Full)
  \/ up.phase \in {"new", "body", "finished"} /\ Send("done", "ended", {})

\* Blocks come one at a time, numbered.  Some upstreams leave out the start
\* of text and thinking blocks; a tool call is always started, since its id
\* comes with the start, and some send its whole input there.
AnthropicSends ==
  \/ up.phase = "new" /\ Send("created", "body", {"in"})
  \/ /\ Body /\ OpenNow = {}
     /\ \/ \E kind \in Kinds, frags \in {<<>>, Piece} :
             /\ frags # <<>> => kind \in {"tool_use", "opaque"}
             /\ SendOpen(Len(up.blocks), kind, frags)
        \/ \E kind \in Kinds \intersect {"text", "thinking"} :
             /\ Len(up.blocks) < MaxBlocks
             /\ up' = [up EXCEPT !.blocks = WithBlock(Len(up.blocks), kind)]
             /\ Adds(Piece, kind, 0, Len(up.blocks) + 1, FALSE)
             /\ Scan(Payload("delta", Len(up.blocks), kind, 0, Piece, {}))
        \/ Send("finish", "finished", {"out"})
  \/ \E b \in OpenNow : SendDelta(b) \/ (SendClose(b, <<>>) /\ UNCHANGED sent)
  \/ up.phase = "finished" /\ Send("done", "ended", {})
  \/ up.phase \in {"body", "finished"} /\ Send("error", "failed", {})

\* Items come one at a time, under ids; a call ends with all its arguments,
\* which may not have come before.
ResponsesSends ==
  \/ up.phase = "new" /\ Send("created", "body", {})
  \/ /\ Body /\ OpenNow = {}
     /\ \/ \E kind \in ItemKinds, frags \in {<<>>, Piece} :
             /\ frags # <<>> => kind = "tool_use"
             /\ SendOpen(Len(up.blocks) + 1, kind, frags)
        \/ Send("done", "ended", Full)
  \/ \E b \in OpenNow :
       \/ SendDelta(b)
       \/ up.blocks[b].kind # "tool_use" /\ SendClose(b, <<>>) /\ UNCHANGED sent
       \/ /\ up.blocks[b].kind = "tool_use"
          /\ \E frags \in {<<>>, Piece} :
               /\ frags # <<>> => Contents(b) = <<>>
               /\ Adds(frags, "tool_use", up.blocks[b].call, b, FALSE)
               /\ SendClose(b, Contents(b) \o frags)
  \/ up.phase \in {"new", "body"} /\ Send("error", "failed", {})

UpstreamSends ==
  \/ format.up = "openai"    /\ OpenAISends
  \/ format.up = "anthropic" /\ AnthropicSends
  \/ format.up = "responses" /\ ResponsesSends

-----------------------------------------------------------------------------
(* streamLoop: the select of every send, and the end of the body. *)

\* The request's context ends when the client leaves or the handler returns.
ContextDone == left \/ pump = "returned"

SendEvent ==
  /\ reader = "send" /\ Len(chan) < Cap
  /\ chan' = Append(chan, Head(pending))
  /\ pending' = Tail(pending)
  /\ reader' = IF Tail(pending) = <<>> THEN "scan" ELSE "send"
  /\ result' = [result EXCEPT !.usage = UsageAfter(@, Tail(pending))]
  /\ UNCHANGED <<format, upVars, dec, left, pump, ending, outVars, endVars>>

\* Mutant: only the client's leaving ends a send.
AbandonOnLeave ==
  /\ reader = "send" /\ left
  /\ reader' = "closed"
  /\ UNCHANGED <<format, upVars, dec, pending, result, chan, left, pump, ending, outVars, endVars>>

\* The other case of the select: the rest is dropped, without an error.
Abandon ==
  /\ reader = "send" /\ ContextDone
  /\ reader' = "closed"
  /\ UNCHANGED <<format, upVars, dec, pending, result, chan, left, pump, ending, outVars, endVars>>

BodyEnds ==
  /\ reader = "scan"
  /\ reader' = "closed"
  /\ UNCHANGED <<format, upVars, dec, pending, result, chan, left, pump, ending, outVars, endVars>>

\* The connection breaks, or the cancelled context ends the read.
ReadFails ==
  /\ reader = "scan"
  /\ reader' = "closed"
  /\ result' = [result EXCEPT !.err = TRUE]
  /\ UNCHANGED <<format, upVars, dec, pending, chan, left, pump, ending, outVars, endVars>>

-----------------------------------------------------------------------------
(* pump: the loop. *)

\* A client of the Anthropic protocol must see every block start.
LacksStart(ev) ==
  /\ format.client = "anthropic"
  /\ ev.type = "content_block_delta" /\ ev.index \notin started

MadeUpStart(ev) ==
  LET kind == IF ev.kind = "signature" THEN "thinking" ELSE ev.kind
  IN  BlockStart(ev.index, kind, Header(kind, 0, <<>>))

Relayed(ev) ==
  LET s == IF LacksStart(ev) THEN Encode(format.client, enc, MadeUpStart(ev))
           ELSE Encoded(enc, <<>>)
      r == Encode(format.client, s.enc, ev)
  IN  Encoded(r.enc, s.frames \o r.frames)

Forward ==
  /\ pump = "loop" /\ chan # <<>> /\ Head(chan).type # "error"
  /\ LET ev == Head(chan)
     IN  /\ rec' = RecordEvent(rec, ev)
         /\ started' = IF ev.type = "content_block_start" \/ LacksStart(ev)
                         THEN started \union {ev.index} ELSE started
         /\ enc' = Relayed(ev).enc
         /\ wire' = wire \o Relayed(ev).frames
  /\ chan' = Tail(chan)
  /\ UNCHANGED <<format, upVars, readVars, left, pump, ending, endVars>>

\* The upstream's error is written as an error frame, and ends the loop.
UpstreamError ==
  /\ pump = "loop" /\ chan # <<>> /\ Head(chan).type = "error"
  /\ wire' = Append(wire, ErrorEvent)
  /\ chan' = Tail(chan)
  /\ pump' = "settle" /\ ending' = "signalled"
  /\ UNCHANGED <<format, upVars, readVars, left, started, enc, rec, endVars>>

StreamOver ==
  /\ pump = "loop" /\ chan = <<>> /\ reader = "closed" /\ format.stream
  /\ pump' = "settle" /\ ending' = "over"
  /\ UNCHANGED <<format, upVars, readVars, chan, left, outVars, endVars>>

SeesClientGone ==
  /\ pump = "loop" /\ left /\ format.stream
  /\ pump' = "settle" /\ ending' = "gone"
  /\ UNCHANGED <<format, upVars, readVars, chan, left, outVars, endVars>>

-----------------------------------------------------------------------------
(* pump: what follows the loop. *)

Succeeds == ending = "over" /\ ~result.err

\* Only the Responses encoder has an end to flush and content to save.
Flushes == ending = "over" /\ format.client = "responses"

Saves == Flushes /\ ~result.err

Settle ==
  /\ pump = "settle"
  /\ wire' = IF Flushes THEN wire \o FlushResponses(enc) ELSE wire
  /\ saves' = IF Saves THEN Append(saves, ByIndex(enc.blocks)) ELSE saves
  /\ records' = Append(records, [status |-> IF Succeeds THEN "ok" ELSE "error",
                                usage  |-> result.usage])
  /\ pump' = "returned"
  /\ UNCHANGED <<format, upVars, readVars, chan, left, ending, started, enc, rec>>

-----------------------------------------------------------------------------
(* A complete answer where a stream was asked for: expandFullResponse. *)

\* The blocks of an answer whose block b is of kind kinds[b], and has
\* content if it is in full.
Answer(kinds, full) ==
  [b \in DOMAIN kinds |->
     Block(kinds[b],
           IF kinds[b] = "tool_use" THEN Cardinality({c \in 1..b : kinds[c] = "tool_use"}) ELSE 0,
           IF b \in full THEN <<Cardinality(full \intersect 1..b)>> ELSE <<>>)]

SentIn(body) ==
  LET with == SelectSeq([b \in DOMAIN body |-> b], LAMBDA b : body[b].frags # <<>>)
  IN  [n \in DOMAIN with |-> [kind  |-> body[with[n]].kind, call |-> body[with[n]].call,
                             block |-> with[n], whole |-> body[with[n]].kind = "opaque"]]

Answers == UNION {{Answer(kinds, full) : kinds \in [1..n -> Kinds], full \in SUBSET (1..n)} :
                  n \in 0..MaxBlocks}

ExpandFullResponse ==
  /\ pump = "loop" /\ ~format.stream
  /\ up' = [up EXCEPT !.phase = "ended", !.usage = Full]
  /\ \E body \in Answers :
       /\ sent' = SentIn(body)
       /\ enc' = EncodeAll(format.client, ResponseStreamEvents(body)).enc
       /\ wire' = EncodeAll(format.client, ResponseStreamEvents(body)).frames
       /\ rec' = body
       /\ saves' = IF format.client = "responses" THEN Append(saves, body) ELSE saves
  /\ result' = [result EXCEPT !.usage = Full]
  /\ records' = Append(records, [status |-> "ok", usage |-> Full])
  /\ pump' = "returned"
  /\ UNCHANGED <<format, dec, reader, pending, chan, left, ending, started>>

Leave ==
  /\ ~left /\ pump # "returned"
  /\ left' = TRUE
  /\ UNCHANGED <<format, upVars, readVars, chan, pump, ending, outVars, endVars>>

-----------------------------------------------------------------------------

Reader == UpstreamSends \/ SendEvent \/ Abandon \/ BodyEnds \/ ReadFails

Pump == Forward \/ UpstreamError \/ StreamOver \/ SeesClientGone \/ Settle \/ ExpandFullResponse

RelayNext == Reader \/ Pump \/ Leave

RelaySpec == RelayInit /\ [][RelayNext]_relayVars

\* The goroutine and the handler run; a read ends when the context does.
\* Nothing is asked of the upstream or of the client.
Fairness == WF_relayVars(SendEvent \/ Abandon \/ (ContextDone /\ ReadFails)) /\ WF_relayVars(Pump)

FairRelay == RelaySpec /\ Fairness

-----------------------------------------------------------------------------
(* What the client sees. *)

Opened(p) == wire[p].type = "content_block_start"

\* The start of the block that frame p belongs to.
OpeningsOf(p) == {q \in 1..p : Opened(q) /\ wire[q].index = wire[p].index}

\* The index discipline that assertAnthropicIndexDiscipline and the second
\* rule of translate/cross_stream_test.go ask for, of Anthropic and Responses clients:
\* a block is started once, and what is written for it comes between its
\* start and its stop; an Anthropic client sees indices from 0 on, without
\* gaps, and so does an OpenAI client for its tool calls.
BlockDiscipline ==
  /\ \A p, q \in DOMAIN wire : Opened(p) /\ Opened(q) /\ wire[p].index = wire[q].index => p = q
  /\ format.client # "openai" =>
       \A p \in DOMAIN wire : wire[p].type \in {"content_block_delta", "content_block_stop"} =>
         \E q \in OpeningsOf(p) : \A r \in q..(p - 1) :
           ~(wire[r].type = "content_block_stop" /\ wire[r].index = wire[p].index)
  /\ format.client # "responses" =>
       \A p \in DOMAIN wire : Opened(p) =>
         wire[p].index = Cardinality({q \in 1..(p - 1) : Opened(q)})

\* The pieces of content a frame carries, and the call it is about.
Pieces(p) ==
  CASE Opened(p) -> IF wire[p].kind = "tool_use" THEN Tail(wire[p].val) ELSE wire[p].val
    [] wire[p].type = "content_block_delta" -> wire[p].val
    [] OTHER -> <<>>

CallAt(p) ==
  IF wire[p].kind # "tool_use" THEN 0
  ELSE wire[Max(OpeningsOf(p))].val[1]

Ascending(s) == \A i \in 1..(Len(s) - 1) : s[i] < s[i + 1]

\* What the client's protocol can express.  A tool call whose input came
\* with its start loses it on the way to an OpenAI client.
Carried(piece) ==
  CASE format.client = "openai"    -> /\ piece.kind \in {"text", "tool_use"}
                                      /\ ~(piece.whole /\ format.up = "anthropic" /\ format.stream)
    [] format.client = "anthropic" -> TRUE
    [] format.client = "responses" -> piece.kind # "opaque"

EndedWell == records # <<>> /\ records[1].status = "ok" /\ ~left

\* Whatever the two protocols, content is never repeated, reordered or
\* attributed to another block or tool call, and none of it is lost in an
\* answer recorded as a success.
Delivered ==
  LET got == FlattenSeq([p \in DOMAIN wire |-> Pieces(p)])
  IN  /\ Ascending(got)
      /\ \A p \in DOMAIN wire : \A n \in ToSet(Pieces(p)) :
           /\ n \in DOMAIN sent
           /\ wire[p].kind = sent[n].kind /\ CallAt(p) = sent[n].call
      /\ EndedWell => \A n \in DOMAIN sent : Carried(sent[n]) => n \in ToSet(got)

\* The first rule of translate/cross_stream_test.go: the usage that the upstream
\* reported is the usage of the one record there is of the answer, and the client is
\* told the same.
UsageReaches ==
  /\ Len(records) = IF pump = "returned" THEN 1 ELSE 0
  /\ EndedWell /\ up.phase = "ended" =>
       /\ records[1].usage = up.usage
       /\ UNION {wire[p].usage : p \in DOMAIN wire} = up.usage

\* The frames that are the last a client gets: an end, or the report of an error.
Terminal == {p \in DOMAIN wire : wire[p].type \in {"message_stop", "error"}}

\* The third rule of translate/cross_stream_test.go: an answer that its upstream ended
\* ends with one end frame for the client.  After an error event of the stream
\* (handler_openai.go:570-572, 664-665) it ends with the error frame instead: no end
\* follows, nothing is saved, and the record says error.
OneEnd ==
  /\ Terminal \subseteq {Len(wire)}
  /\ EndedWell /\ up.phase = "ended" => Terminal # {}
  /\ format.stream /\ (\E p \in Terminal : wire[p].type = "error") =>
       saves = <<>> /\ \A r \in DOMAIN records : records[r].status = "error"

-----------------------------------------------------------------------------
(* What is kept of it. *)

Visible(blocks) == {b \in ToSet(blocks) : b.kind # "opaque"}

\* The blocks hold each piece sent once, in its block, in order.
HoldsAllSent(blocks) ==
  /\ \A b \in DOMAIN blocks : Ascending(blocks[b].frags)
  /\ \A n \in DOMAIN sent : sent[n].kind # "opaque" =>
       Cardinality({b \in DOMAIN blocks : /\ n \in ToSet(blocks[b].frags)
                                         /\ blocks[b].kind = sent[n].kind
                                         /\ blocks[b].call = sent[n].call}) = 1

\* A session is saved only by an answer recorded as a success (handler_openai.go:677-678),
\* and only once.  The two that gather the content on its way, under indices of their own,
\* agree: the archive holds all that was sent, in the blocks of the session.
ArchiveAgrees ==
  /\ Len(saves) <= 1
  /\ saves # <<>> => records # <<>> /\ records[1].status = "ok"
  /\ EndedWell => /\ HoldsAllSent(ByIndex(rec))
                  /\ saves # <<>> => Visible(ByIndex(rec)) = Visible(saves[1])

-----------------------------------------------------------------------------
(* Liveness. *)

\* Once the client has left, whatever the upstream does, or the handler has
\* returned, the handler returns and the goroutine that reads for it ends
\* (client.go:246-250).
Released == ContextDone ~> pump = "returned" /\ reader = "closed"

=============================================================================
