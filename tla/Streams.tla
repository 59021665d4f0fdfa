------------------------------- MODULE Streams -------------------------------
(***************************************************************************)
(* What the relay reads in the stream it passes on: the parser of          *)
(* server/http/sse.ts and the three accumulators of server/usage.          *)
(*                                                                         *)
(* Bytes are a sequence of symbols: "event", "data", "id" and ":" open a   *)
(* line, "c1" and "c2" are the two bytes of one character, "cr" and "lf"   *)
(* end a line, and anything else is a piece of text.  A chunk is any       *)
(* segment of it.  Text is what the decoder makes of bytes: the same       *)
(* symbols with "c" for a whole character and "?" for a broken one.        *)
(***************************************************************************)
EXTENDS Integers, Sequences, FiniteSets, SequencesExt

CONSTANTS
    NULL,
    Done,           \* the data of chat's last event, "[DONE]"
    MaxEventChars,  \* the cap on the data kept of one event
    Interesting     \* the event types a wire asks for

-----------------------------------------------------------------------------
(* the decoder and the lines *)

\* StringDecoder: the first half of a character waits for the second.
DecodeByte(acc, b) ==
    LET broken == IF acc.held # <<>> THEN Append(acc.text, "?") ELSE acc.text
    IN  CASE b = "c1" -> [held |-> <<"c1">>, text |-> broken]
          [] b = "c2" -> [held |-> <<>>,
                          text |-> Append(acc.text, IF acc.held # <<>> THEN "c" ELSE "?")]
          [] OTHER -> [held |-> <<>>, text |-> Append(broken, b)]

Decode(held, bytes) ==
    LET read[n \in 0..Len(bytes)] ==
            IF n = 0 THEN [held |-> held, text |-> <<>>]
            ELSE DecodeByte(read[n - 1], bytes[n])
    IN  read[Len(bytes)]

\* The last of some positions before one, and what is between the two.
Before(ends, n) ==
    CHOOSE i \in {0} \cup ends : i < n /\ \A k \in ends : k < n => k <= i
Piece(seq, ends, n) == SubSeq(seq, 1 + Before(ends, n), n - 1)

Ends(text) == {i \in DOMAIN text : text[i] = "lf"}
Line(text, end) == Piece(text, Ends(text), end)
WithoutCr(line) == IF line # <<>> /\ Last(line) = "cr" THEN Front(line) ELSE line

-----------------------------------------------------------------------------
(* the event being assembled *)

NoEvent == [type |-> NULL, parts |-> <<>>, chars |-> 0, saw |-> FALSE, drop |-> FALSE]
Blank == [held |-> <<>>, pending |-> <<>>, event |-> NoEvent, out |-> <<>>]

Dispatch(p) ==
    LET type == IF p.event.type = NULL THEN "message" ELSE p.event.type
    IN  [p EXCEPT !.event = NoEvent,
                  !.out = IF p.event.saw /\ type \in Interesting
                          THEN Append(@, [type |-> type, data |-> p.event.parts]) ELSE @]

EventField(event, type) ==
    [event EXCEPT !.saw = TRUE, !.type = type,
                  !.drop = @ \/ type \notin Interesting,
                  !.parts = IF type \in Interesting THEN @ ELSE <<>>]

\* Past the cap the event is kept and its data is not.
DataField(event, value) ==
    CASE event.drop -> [event EXCEPT !.saw = TRUE]
      [] ~event.drop /\ event.chars + Len(value) > MaxEventChars ->
            [event EXCEPT !.saw = TRUE, !.drop = TRUE, !.parts = <<>>]
      [] OTHER -> [event EXCEPT !.saw = TRUE, !.chars = @ + Len(value),
                                !.parts = Append(@, value)]

HandleLine(p, line) ==
    CASE line = <<>> -> Dispatch(p)
      [] line # <<>> /\ Head(line) = "event" ->
            [p EXCEPT !.event = EventField(@, Last(line))]
      [] line # <<>> /\ Head(line) = "data" ->
            [p EXCEPT !.event = DataField(@, Tail(line))]
      [] line # <<>> /\ Head(line) = "id" -> [p EXCEPT !.event.saw = TRUE]
      [] OTHER -> p

\* bug: a CR is taken off what the chunk ends with, not off the whole line
CompleteCrOfChunk(p, line) ==
    [HandleLine(p, p.pending \o WithoutCr(line)) EXCEPT !.pending = <<>>]

(***************************************************************************)
(* The first line completed by a chunk begins with what the chunks before  *)
(* it left; the CR goes once the line is whole.                            *)
(***************************************************************************)
Complete(p, line) == [HandleLine(p, WithoutCr(p.pending \o line)) EXCEPT !.pending = <<>>]

Consume(p, text) ==
    LET read[n \in 0..Len(text)] ==
            IF n = 0 THEN p
            ELSE LET before == read[n - 1]
                 IN  IF text[n] = "lf" THEN Complete(before, Line(text, n)) ELSE before
    IN  [read[Len(text)] EXCEPT !.pending = @ \o Line(text, Len(text) + 1)]

Push(p, chunk) ==
    LET decoded == Decode(p.held, chunk)
    IN  Consume([p EXCEPT !.held = decoded.held], decoded.text)

\* What the stream leaves unfinished is still a line, and still an event.
Flush(p) ==
    LET ended == Consume([p EXCEPT !.held = <<>>], IF p.held = <<>> THEN <<>> ELSE <<"?">>)
    IN  Dispatch(IF ended.pending = <<>> THEN ended
                 ELSE [HandleLine(ended, ended.pending) EXCEPT !.pending = <<>>])

EventsOf(chunks) ==
    LET read[n \in 0..Len(chunks)] == IF n = 0 THEN Blank ELSE Push(read[n - 1], chunks[n])
    IN  Flush(read[Len(chunks)]).out

-----------------------------------------------------------------------------
(***************************************************************************)
(* Three accumulators.  A usage report is a record of what the vendor says,*)
(* NULL for what it leaves out; a payload is Fest's disjoint buckets.      *)
(***************************************************************************)
EmptyUsage == [input |-> 0, read |-> 0, write5m |-> 0, write1h |-> 0, output |-> 0]
Empty == [usage |-> EmptyUsage, split |-> FALSE, error |-> NULL, terminal |-> FALSE]
Or(x, y) == IF x = NULL THEN y ELSE x
Positive(n) == IF n < 0 THEN 0 ELSE n

\* bug: the flat total is believed whatever was said of its parts
MergeFlatAgain(acc, report) ==
    [acc EXCEPT
        !.usage = [input |-> Or(report.input, @.input), read |-> Or(report.read, @.read),
                   write5m |-> Or(report.write5m, Or(report.flat, @.write5m)),
                   write1h |-> Or(report.write1h, @.write1h),
                   output |-> Or(report.output, @.output)]]

(***************************************************************************)
(* mergeUsage: the last report of a field wins, nothing is added up, and   *)
(* the flat total of the cache writes counts only as long as nothing said  *)
(* how it divides.                                                         *)
(***************************************************************************)
MergeUsage(acc, report) ==
    LET split == report.write5m # NULL \/ report.write1h # NULL
        flat == IF acc.split \/ split THEN NULL ELSE report.flat
    IN  [acc EXCEPT
            !.split = @ \/ split,
            !.usage = [input |-> Or(report.input, @.input),
                       read |-> Or(report.read, @.read),
                       write5m |-> Or(report.write5m, Or(flat, @.write5m)),
                       write1h |-> Or(report.write1h, @.write1h),
                       output |-> Or(report.output, @.output)]]

\* createUsageAccumulator, on a parsed event; NULL is data that does not parse.
ApplyMessages(acc, event) ==
    CASE event.data = NULL -> acc
      [] event.data # NULL /\ event.type \in {"message_start", "message_delta"} ->
            MergeUsage(acc, event.data)
      [] event.data # NULL /\ event.type = "error" -> [acc EXCEPT !.error = event.data.type]
      [] OTHER -> acc

\* The Responses wire: its input includes what was read from the cache and what
\* was written to it.
FromUsage(report) ==
    [EmptyUsage EXCEPT
        !.input = Positive(Or(report.input, 0) - Or(report.read, 0) - Or(report.flat, 0)),
        !.read = Or(report.read, 0), !.write5m = Or(report.flat, 0),
        !.output = Or(report.output, 0)]

\* The Chat wire: the cached part is in the prompt, and it writes no cache.
FromChatUsage(report) ==
    [EmptyUsage EXCEPT
        !.input = Positive(Or(report.input, 0) - Or(report.read, 0)),
        !.read = Or(report.read, 0), !.output = Or(report.output, 0)]

\* Nothing in a report is usable unless one of the two is there.
Reported(report) == report # NULL /\ (report.input # NULL \/ report.output # NULL)

\* createResponsesAccumulator: every response event that is parsed is terminal.
ApplyResponses(acc, event) ==
    CASE event.data = NULL -> acc
      [] event.data # NULL /\ event.type = "error" -> [acc EXCEPT !.error = "error"]
      [] OTHER ->
            [acc EXCEPT !.terminal = TRUE,
                        !.usage = IF Reported(event.data) THEN FromUsage(event.data) ELSE @,
                        !.error = IF event.type = "response.failed" THEN "failed" ELSE @]

\* createChatAccumulator: a chunk is the end, an error, or a report.
ApplyChat(acc, event) ==
    CASE event.data = Done -> [acc EXCEPT !.terminal = TRUE]
      [] event.data = NULL -> acc
      [] OTHER ->
            IF "type" \in DOMAIN event.data THEN [acc EXCEPT !.error = event.data.type]
            ELSE IF Reported(event.data) THEN [acc EXCEPT !.usage = FromChatUsage(event.data)]
            ELSE acc

Apply(wire, acc, event) ==
    CASE wire = "messages" -> ApplyMessages(acc, event)
      [] wire = "responses" -> ApplyResponses(acc, event)
      [] wire = "chat" -> ApplyChat(acc, event)

Snapshot(wire, events) ==
    LET after[n \in 0..Len(events)] ==
            IF n = 0 THEN Empty ELSE Apply(wire, after[n - 1], events[n])
    IN  after[Len(events)]

-----------------------------------------------------------------------------
(* What the parser and the accumulators promise.                           *)

(***************************************************************************)
(* The events are those of the stream, however it was cut: the blocks      *)
(* between blank lines of the whole text, each of the type it names last   *)
(* and with the data of its lines, and none of a type nobody asked for     *)
(* (sse.ts:10-20).  An event loses its data when it is past the cap, and   *)
(* when it also names a type nobody asked for (sse.ts:113-121).            *)
(***************************************************************************)
InOrder(set) ==
    [n \in 1..Cardinality(set) |->
        CHOOSE i \in set : Cardinality({j \in set : j <= i}) = n]

Lines(text) ==
    LET ends == InOrder(Ends(text))
        rest == Line(text, Len(text) + 1)
    IN  [i \in DOMAIN ends |-> WithoutCr(Line(text, ends[i]))]
        \o (IF rest = <<>> THEN <<>> ELSE <<rest>>)

Blanks(lines) == {i \in DOMAIN lines : lines[i] = <<>>}
Block(lines, end) == Piece(lines, Blanks(lines), end)

Fields(block, field) == {i \in DOMAIN block : Head(block[i]) = field}
TypesOf(block) == {Last(block[i]) : i \in Fields(block, "event")}
DataOf(block) ==
    LET told == InOrder(Fields(block, "data")) IN [n \in DOMAIN told |-> Tail(block[told[n]])]
Chars(parts) ==
    LET sum[n \in 0..Len(parts)] == IF n = 0 THEN 0 ELSE sum[n - 1] + Len(parts[n])
    IN  sum[Len(parts)]

BlockEvent(block) ==
    LET events == Fields(block, "event")
    IN  [type |-> IF events = {} THEN "message" ELSE Last(block[Max(events)]),
         data |-> IF Chars(DataOf(block)) <= MaxEventChars /\ TypesOf(block) \subseteq Interesting
                  THEN DataOf(block) ELSE <<>>]

BlocksMeant(lines) ==
    LET Meant(end) == BlockEvent(Block(lines, end))
        Said(end) == \E field \in {"event", "data", "id"} : Fields(Block(lines, end), field) # {}
        kept == InOrder({end \in Blanks(lines) : Said(end) /\ Meant(end).type \in Interesting})
    IN  [i \in DOMAIN kept |-> Meant(kept[i])]

EventsMeant(bytes) ==
    LET decoded == Decode(<<>>, bytes)
        text == decoded.text \o (IF decoded.held = <<>> THEN <<>> ELSE <<"?">>)
    IN  BlocksMeant(Append(Lines(text), <<>>))

CutAnywhere(bytes, cuts) ==
    LET ends == InOrder(cuts \cup {Len(bytes)})
        chunks == [i \in DOMAIN ends |->
                      SubSeq(bytes, 1 + (IF i = 1 THEN 0 ELSE ends[i - 1]), ends[i])]
    IN  EventsOf(chunks) = EventsMeant(bytes)

(***************************************************************************)
(* No token is counted twice or lost, on any wire and in any order of the  *)
(* reports a vendor may send: the buckets add up to what the last report   *)
(* of each figure says, the cached part once (accumulator.ts:54-60,        *)
(* responses.ts:21-35, chat.ts:19-25); and nobody is charged for a cache   *)
(* that was written on the Chat wire, which has no such figure.            *)
(***************************************************************************)
LastSaid(events, field) ==
    LET said == {i \in DOMAIN events : events[i].data[field] # NULL}
    IN  IF said = {} THEN 0 ELSE events[CHOOSE i \in said : \A j \in said : j <= i].data[field]

CountedOnce(wire, events) ==
    LET u == Snapshot(wire, events).usage
        Said(field) == LastSaid(events, field)
    IN  /\ u.output = Said("output")
        /\ u.read = Said("read")
        /\ u.write5m + u.write1h = IF wire = "chat" THEN 0 ELSE Said("flat")
        /\ Said("input") = IF wire = "messages" THEN u.input
                           ELSE u.input + u.read + u.write5m + u.write1h
=============================================================================
