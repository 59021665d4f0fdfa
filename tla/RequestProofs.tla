--------------------------- MODULE RequestProofs ---------------------------
(***************************************************************************)
(* Proofs about what a worker does with a request: about MessageRelay, which *)
(* answers it and records it, and about UsageSink, which queues the record *)
(* and writes it.  The two share no state; each is proved for its own      *)
(* specification.                                                          *)
(***************************************************************************)
EXTENDS UsageSink, MessageRelay, SequenceTheorems, FiniteSetTheorems, TLAPS

-----------------------------------------------------------------------------
(***************************************************************************)
(* For any high-water mark, any length of stream and either kind of wire:  *)
(* a request is recorded at most once, and what its record says happened.  *)
(* Neither is inductive.  What a record says is decided by what the        *)
(* handler knew when it made it, and that is related to the upstream and   *)
(* the client by where the handler is (Placed); a chunk is written before  *)
(* it is observed, so that the two counts differ by the one the handler is *)
(* waiting with (Metered); and the socket has room for another chunk       *)
(* wherever one may be written (Roomy).                                    *)
(***************************************************************************)

\* The types, those of the records apart.
Counters ==
    relayed \in 0..MaxChunks /\ observed \in 0..MaxChunks /\ buffered \in Nat

Flags ==
    /\ paid \in BOOLEAN /\ drainOwed \in BOOLEAN /\ terminal \in BOOLEAN /\ streamErr \in BOOLEAN
    /\ aborted \in BOOLEAN /\ failing \in BOOLEAN

Places ==
    /\ identity \in {"resolved", "dead", "none"}
    /\ pc \in {"start", "body", "fetch", "refusal", "text", "read", "drain", "cancel", "done"}
    /\ client \in {"here", "gone"}
    /\ upstream \in {"idle", "asked", "open", "ended", "failed", "cancelled"}
    /\ chunk \in Event
    /\ answer \in {"none", "own", "upstream", "frame"}

RecordsTyped == records \in Seq([status : Status, partial : BOOLEAN])

\* Where the handler is, and what is then the case of the upstream.
Placed ==
    /\ pc \in {"start", "body"} => upstream = "idle"
    /\ pc = "fetch" => upstream = "asked"
    /\ pc \in {"refusal", "text"} => upstream = "open"
    /\ pc \in {"read", "drain"} =>
          upstream \in {"open", "cancelled"} /\ (aborted <=> upstream = "cancelled") /\ ~failing
    /\ pc = "cancel" =>
          /\ upstream \in {"failed", "cancelled"}
          /\ aborted <=> upstream = "cancelled"
          /\ failing <=> ~aborted
    /\ pc \in {"start", "body", "fetch", "refusal", "text"} => relayed = 0 /\ ~aborted /\ ~failing
    /\ aborted => client = "gone"

Metered ==
    /\ observed = IF pc = "drain" THEN relayed - 1 ELSE relayed
    /\ pc = "drain" => relayed > 0

Roomy ==
    /\ buffered <= HighWater
    /\ pc # "drain" /\ pc # "done" /\ pc # "cancel" /\ client = "here" => buffered < HighWater

Unrecorded == pc # "done" => records = <<>>

RelayInv ==
    /\ Counters /\ Flags /\ Places /\ RecordsTyped
    /\ Placed
    /\ Metered
    /\ Roomy
    /\ Unrecorded
    /\ RecordedOnce
    /\ StatusTruthful

-----------------------------------------------------------------------------
\* A record made where there was none is the only one.
LEMMA OneRecord ==
    ASSUME records = <<>>, NEW status \in Status, NEW partial \in BOOLEAN,
           Finish(status, partial)
    PROVE  /\ RecordsTyped'
           /\ Len(records') = 1 /\ DOMAIN records' = {1} /\ records' # <<>>
           /\ records'[1] = [status |-> status, partial |-> partial]
<1>1. records' = <<[status |-> status, partial |-> partial]>>
    BY DEF Finish
<1> QED
    BY <1>1 DEF RecordsTyped

LEMMA NoRecord ==
    /\ records = <<>> =>
          /\ StatusTruthful /\ Len(records) = 0
          /\ RecordsTyped
    /\ records' = <<>> =>
          /\ StatusTruthful' /\ Len(records') = 0
          /\ RecordsTyped'
<1>1. DOMAIN <<>> = {} /\ Len(<<>>) = 0 /\ <<>> \in Seq([status : Status, partial : BOOLEAN])
    OBVIOUS
<1> QED
    BY <1>1 DEF StatusTruthful, RecordsTyped

LEMMA RelayInitially == RelayInit => RelayInv
<1> SUFFICES ASSUME RelayInit PROVE RelayInv
    OBVIOUS
<1>1. records = <<>> /\ StatusTruthful /\ RecordedOnce
      /\ RecordsTyped
    BY NoRecord DEF RelayInit, RecordedOnce
<1>2. Counters
    BY RelayAssumption DEF RelayInit, Counters
<1>3. Flags
    BY DEF RelayInit, Flags
<1>4. Places
    BY DEF RelayInit, Places, Event
<1>5. Placed /\ Metered /\ Roomy /\ Unrecorded
    BY RelayAssumption DEF RelayInit, Placed, Metered, Roomy, Unrecorded
<1> QED
    BY <1>1, <1>2, <1>3, <1>4, <1>5 DEF RelayInv

\* The end of a stream: what the handler knows of the client and of the
\* terminal event is what the record says.
LEMMA Concluding ==
    ASSUME RelayInv, pc \in {"read", "cancel"}, ConcludeRelay,
           upstream' \in {"ended", "failed", "cancelled"},
           aborted <=> upstream' = "cancelled",
           failing <=> upstream' = "failed",
           UNCHANGED <<client, terminal>>
    PROVE  /\ RecordsTyped'
           /\ answer' \in {"none", "own", "upstream", "frame"}
           /\ Len(records') = 1
           /\ records' # <<>>
           /\ StatusTruthful'
<1>1. records = <<>> /\ aborted \in BOOLEAN /\ failing \in BOOLEAN /\ terminal \in BOOLEAN
      /\ streamErr \in BOOLEAN /\ answer \in {"none", "own", "upstream", "frame"}
      /\ (aborted => client = "gone")
    BY DEF RelayInv, Counters, Flags, Places, Placed, Unrecorded
<1>2. CASE ~failing /\ aborted /\ ~terminal
    <2>1. Finish("client_abort", TRUE) /\ answer' = answer
        BY <1>1, <1>2 DEF ConcludeRelay, finished
    <2>2. records'[1] = [status |-> "client_abort", partial |-> TRUE] /\ DOMAIN records' = {1}
          /\ Len(records') = 1 /\ records' # <<>>
          /\ RecordsTyped'
        BY <1>1, <2>1, OneRecord DEF Status
    <2> QED
        BY <1>1, <1>2, <2>1, <2>2 DEF StatusTruthful
<1>3. CASE ~failing /\ (~aborted \/ terminal) /\ streamErr
    <2>1. Finish("stream_error", FALSE) /\ answer' \in {answer, "upstream"}
        BY <1>1, <1>3 DEF ConcludeRelay, finished
    <2>2. records'[1] = [status |-> "stream_error", partial |-> FALSE] /\ DOMAIN records' = {1}
          /\ Len(records') = 1 /\ records' # <<>>
          /\ RecordsTyped'
        BY <1>1, <2>1, OneRecord DEF Status
    <2> QED
        BY <1>1, <1>3, <2>1, <2>2 DEF StatusTruthful
<1>4. CASE ~failing /\ (~aborted \/ terminal) /\ ~streamErr
    <2>1. Finish("ok", FALSE) /\ answer' \in {answer, "upstream"}
        BY <1>1, <1>4 DEF ConcludeRelay, finished
    <2>2. records'[1] = [status |-> "ok", partial |-> FALSE] /\ DOMAIN records' = {1}
          /\ Len(records') = 1 /\ records' # <<>>
          /\ RecordsTyped'
        BY <1>1, <2>1, OneRecord DEF Status
    <2> QED
        BY <1>1, <1>4, <2>1, <2>2 DEF StatusTruthful
<1>5. CASE failing
    <2>1. Finish("stream_error", TRUE) /\ answer' = "frame"
        BY <1>1, <1>5 DEF ConcludeRelay
    <2>2. records'[1] = [status |-> "stream_error", partial |-> TRUE] /\ DOMAIN records' = {1}
          /\ Len(records') = 1 /\ records' # <<>>
          /\ RecordsTyped'
        BY <1>1, <2>1, OneRecord DEF Status
    <2> QED
        BY <1>1, <1>5, <2>1, <2>2 DEF StatusTruthful
<1> QED
    BY <1>1, <1>2, <1>3, <1>4, <1>5

-----------------------------------------------------------------------------
(* the steps before the stream, and those that make a record of their own *)

\* Nothing is said of a handler that has not finished ...
LEMMA Unfinished ==
    ASSUME RelayInv, pc # "done", pc' # "done", UNCHANGED records
    PROVE  RecordsTyped' /\ Unrecorded' /\ RecordedOnce' /\ StatusTruthful'
<1>1. records = <<>> /\ records' = <<>>
    BY DEF RelayInv, Unrecorded
<1> QED
    BY <1>1, NoRecord DEF Unrecorded, RecordedOnce

\* ... and what is said of one stands, whatever the socket does.
LEMMA LeftAlone ==
    ASSUME RelayInv, UNCHANGED <<pc, client, upstream, relayed, terminal, records>>
    PROVE  RecordsTyped' /\ Unrecorded' /\ RecordedOnce' /\ StatusTruthful'
BY DEF RelayInv, RecordsTyped, Unrecorded, RecordedOnce, StatusTruthful

LEMMA BeforeTheStream ==
    ASSUME RelayInv, ReadBody \/ Fetch \/ FetchResolves
    PROVE  RelayInv'
<1>1. /\ pc \in {"start", "body", "fetch"} /\ pc' \in {"body", "fetch", "refusal", "text", "read"}
      /\ UNCHANGED <<request, socket, accumulator, pipe, outcome>>
      /\ upstream' = CASE pc' = "body" -> upstream [] pc' = "fetch" -> "asked" [] OTHER -> "open"
      /\ pc' = "body" => pc = "start"
    BY DEF ReadBody, Fetch, FetchResolves, RelayInv, Places
<1>2. RecordsTyped' /\ Unrecorded' /\ RecordedOnce' /\ StatusTruthful'
    BY <1>1, Unfinished DEF outcome
<1>3. Counters' /\ Flags' /\ Places'
    BY <1>1 DEF RelayInv, Counters, Flags, Places, request, socket, accumulator, pipe, outcome
<1>4. Placed'
    BY <1>1 DEF RelayInv, Placed, socket, pipe
<1>5. Metered' /\ Roomy'
    BY <1>1 DEF RelayInv, Metered, Roomy, socket, accumulator, pipe
<1> QED
    BY <1>2, <1>3, <1>4, <1>5 DEF RelayInv

\* An answer of the gateway's own, or one that was buffered whole.
LEMMA AnsweredAtOnce ==
    ASSUME RelayInv, DenyIdentity \/ RefuseBody \/ FetchRejects \/ TextResolves
    PROVE  RelayInv'
<1>1. PICK status \in Status :
          /\ Finish(status, FALSE)
          /\ status = "ok" => upstream' = "ended"
          /\ status # "client_abort"
    BY DEF DenyIdentity, RefuseBody, FetchRejects, TextResolves, Status, RelayInv, Counters, Flags, Places
<1>2. pc' = "done" /\ pc \notin {"read", "drain", "cancel", "done"} /\ relayed = 0 /\ records = <<>>
      /\ answer' \in {"own", "upstream"}
      /\ upstream' \in {"idle", "asked", "open", "ended", "failed", "cancelled"}
      /\ UNCHANGED <<request, socket, accumulator, pipe>>
      /\ (aborted => client = "gone")
    BY DEF DenyIdentity, RefuseBody, FetchRejects, TextResolves, RelayInv, Counters, Flags, Places, Placed, Unrecorded
<1>3. /\ RecordsTyped'
      /\ Len(records') = 1 /\ DOMAIN records' = {1} /\ records' # <<>>
      /\ records'[1] = [status |-> status, partial |-> FALSE]
    BY <1>1, <1>2, OneRecord
<1>4. Counters' /\ Flags' /\ Places' /\ RecordsTyped'
    BY <1>2, <1>3 DEF Counters, Flags, Places, RelayInv, request, socket, accumulator, pipe
<1>5. Placed' /\ Metered' /\ Roomy' /\ Unrecorded'
    BY <1>2 DEF RelayInv, Placed, Metered, Roomy, Unrecorded, request, socket, accumulator, pipe
<1>6. RecordedOnce' /\ StatusTruthful'
    BY <1>1, <1>3 DEF RecordedOnce, StatusTruthful
<1> QED
    BY <1>4, <1>5, <1>6 DEF RelayInv

\* The two ways to end without a record.
LEMMA EndsUnrecorded ==
    ASSUME RelayInv, BodyRejects \/ TextRejects
    PROVE  RelayInv'
BY DEF BodyRejects, TextRejects, RelayInv, Counters, Flags, Places, RecordsTyped, Placed, Metered, Roomy, Unrecorded,
       RecordedOnce, StatusTruthful, request, socket, accumulator, pipe, outcome

-----------------------------------------------------------------------------
(* the stream *)

LEMMA ObserverTypes ==
    ASSUME RelayInv, NEW e \in Event, Observe(e)
    PROVE  terminal' \in BOOLEAN /\ streamErr' \in BOOLEAN /\ observed' = observed + 1
<1>1. terminal \in BOOLEAN /\ streamErr \in BOOLEAN
    BY DEF RelayInv, Counters, Flags, Places
<1>2. EndsAnswer(e) \in BOOLEAN
    BY RelayAssumption DEF EndsAnswer
<1> QED
    BY <1>1, <1>2 DEF Observe

LEMMA Reading ==
    ASSUME RelayInv, NEW e \in Event, ReadChunk(e)
    PROVE  RelayInv'
<1>1. /\ pc = "read" /\ pc' \in {"read", "drain"} /\ upstream = "open" /\ ~aborted
      /\ relayed' = relayed + 1 /\ relayed < MaxChunks
      /\ chunk' = e /\ buffered' = IF client = "here" THEN buffered + 1 ELSE buffered
      /\ UNCHANGED <<identity, paid, upstream, client, aborted, failing, records, answer>>
    BY DEF ReadChunk, request, outcome
<1>2. RecordsTyped' /\ Unrecorded' /\ RecordedOnce' /\ StatusTruthful'
    BY <1>1, Unfinished
<1>3. Placed'
    BY <1>1 DEF RelayInv, Placed
<1>4. /\ terminal' \in BOOLEAN /\ streamErr' \in BOOLEAN
      /\ observed' = IF pc' = "drain" THEN observed ELSE observed + 1
    <2>1. CASE Full /\ pc' = "drain" /\ UNCHANGED accumulator
        BY <2>1 DEF RelayInv, Flags, accumulator
    <2>2. CASE ~Full /\ Observe(e) /\ UNCHANGED pc
        BY <1>1, <2>2, ObserverTypes
    <2> QED
        BY <2>1, <2>2 DEF ReadChunk
<1>5. drainOwed' \in BOOLEAN
    <2>1. drainOwed' = (drainOwed \/ (client = "here" /\ buffered + 1 >= HighWater))
        BY DEF ReadChunk
    <2> QED
        BY <2>1 DEF RelayInv, Flags
<1>6. Flags' /\ Places'
    BY <1>1, <1>4, <1>5 DEF RelayInv, Flags, Places
<1>7. Counters' /\ Metered'
    BY <1>1, <1>4, RelayAssumption DEF RelayInv, Counters, Metered
<1>8. Roomy'
    <2>1. pc' # "drain" => ~Full
        BY <1>1 DEF ReadChunk
    <2> QED
        BY <1>1, <2>1, RelayAssumption DEF Full, RelayInv, Counters, Roomy
<1> QED
    BY <1>2, <1>3, <1>6, <1>7, <1>8 DEF RelayInv

LEMMA Draining ==
    ASSUME RelayInv, SocketSends \/ Drain
    PROVE  RelayInv'
<1>1. UNCHANGED <<identity, paid, upstream, client, relayed, chunk, aborted, failing, records, answer>>
      /\ client = "here"
    BY DEF SocketSends, Drain, request, pipe, outcome
<1>2. CASE UNCHANGED <<pc, accumulator>>
    <2>1. drainOwed' \in BOOLEAN /\ buffered' \in {buffered - 1, buffered} /\ buffered' \in Nat
        <3>1. buffered \in Nat /\ drainOwed \in BOOLEAN
            BY DEF RelayInv, Counters, Flags
        <3>2. CASE SocketSends
            BY <3>1, <3>2 DEF SocketSends
        <3>3. CASE Drain
            BY <3>1, <3>3 DEF Drain
        <3> QED
            BY <3>2, <3>3
    <2>2. RecordsTyped' /\ Unrecorded' /\ RecordedOnce' /\ StatusTruthful'
        BY <1>1, <1>2, LeftAlone DEF accumulator
    <2>3. Flags' /\ Places' /\ Placed'
        BY <1>1, <1>2, <2>1 DEF RelayInv, Flags, Places, Placed, accumulator
    <2>4. Counters' /\ Metered' /\ Roomy'
        BY <1>1, <1>2, <2>1, RelayAssumption DEF RelayInv, Counters, Metered, Roomy, accumulator
    <2> QED
        BY <2>2, <2>3, <2>4 DEF RelayInv
<1>3. CASE Drain /\ pc = "drain" /\ pc' = "read" /\ Observe(chunk)
    <2>1. chunk \in Event
        BY DEF RelayInv, Places
    <2>2. terminal' \in BOOLEAN /\ streamErr' \in BOOLEAN /\ observed' = observed + 1
        BY <1>3, <2>1, ObserverTypes
    <2>3. drainOwed' = FALSE /\ buffered = 0 /\ buffered' = 0
        BY <1>3 DEF Drain
    <2>4. RecordsTyped' /\ Unrecorded' /\ RecordedOnce' /\ StatusTruthful'
        BY <1>1, <1>3, Unfinished
    <2>5. Flags' /\ Places' /\ Placed'
        BY <1>1, <1>3, <2>2, <2>3 DEF RelayInv, Flags, Places, Placed
    <2>6. Counters' /\ Metered' /\ Roomy'
        BY <1>1, <1>3, <2>2, <2>3, RelayAssumption DEF RelayInv, Counters, Metered, Roomy
    <2> QED
        BY <2>4, <2>5, <2>6 DEF RelayInv
<1> QED
    BY <1>2, <1>3 DEF SocketSends, Drain

LEMMA HangingUp ==
    ASSUME RelayInv, HangUp
    PROVE  RelayInv'
<1>1. /\ client' = "gone" /\ buffered' = 0 /\ drainOwed' = FALSE /\ pc # "done"
      /\ UNCHANGED <<identity, paid, pc, observed, terminal, streamErr, relayed, chunk, failing,
                    records, answer>>
    BY DEF HangUp, request, accumulator, outcome
<1>2. RecordsTyped' /\ Unrecorded' /\ RecordedOnce' /\ StatusTruthful'
    BY <1>1, Unfinished
<1>3. /\ pc \in {"read", "drain"} => aborted' = TRUE /\ upstream' = "cancelled"
      /\ pc \notin {"read", "drain"} => aborted' = aborted /\ upstream' = upstream
    BY DEF HangUp, streaming, RelayInv, Placed, Flags
<1>4. Flags'
    <2>1. aborted' \in BOOLEAN
        BY <1>3 DEF RelayInv, Flags
    <2> QED
        BY <1>1, <2>1 DEF RelayInv, Flags
<1>5. Places'
    BY <1>1, <1>3 DEF RelayInv, Places
<1>6. Placed'
    BY <1>1, <1>3 DEF RelayInv, Placed
<1>7. Counters' /\ Metered' /\ Roomy'
    BY <1>1, RelayAssumption DEF RelayInv, Counters, Metered, Roomy
<1> QED
    BY <1>2, <1>4, <1>5, <1>6, <1>7 DEF RelayInv

LEMMA RelayEnding ==
    ASSUME RelayInv, ReadEnds \/ ReadRejects \/ Cancelled
    PROVE  RelayInv'
<1>1. CASE ReadRejects
    BY <1>1 DEF ReadRejects, RelayInv, Counters, Flags, Places, RecordsTyped, Placed, Metered, Roomy, Unrecorded, RecordedOnce,
        StatusTruthful, request, socket, accumulator, outcome
<1>2. CASE ReadEnds \/ Cancelled
    <2>1. /\ ConcludeRelay /\ pc \in {"read", "cancel"} /\ pc' = "done"
          /\ upstream' \in {"ended", "failed", "cancelled"}
          /\ aborted <=> upstream' = "cancelled"
          /\ failing <=> upstream' = "failed"
          /\ UNCHANGED <<request, socket, accumulator, pipe>>
        BY <1>2 DEF ReadEnds, Cancelled, ConcludeRelay, RelayInv, Counters, Flags, Places, Placed
    <2>2. /\ RecordsTyped'
          /\ answer' \in {"none", "own", "upstream", "frame"}
          /\ Len(records') = 1
          /\ records' # <<>>
          /\ StatusTruthful'
        BY <2>1, Concluding DEF socket, accumulator
    <2>3. Counters' /\ Flags' /\ Places' /\ RecordsTyped'
        BY <2>1, <2>2 DEF RelayInv, Counters, Flags, Places, request, socket, accumulator, pipe
    <2>4. Placed' /\ Metered' /\ Roomy' /\ Unrecorded' /\ RecordedOnce'
        BY <2>1, <2>2
           DEF RelayInv, Placed, Metered, Roomy, Unrecorded, RecordedOnce, request, socket,
               accumulator, pipe
    <2> QED
        BY <2>2, <2>3, <2>4 DEF RelayInv
<1> QED
    BY <1>1, <1>2

-----------------------------------------------------------------------------
LEMMA RelaySteps == RelayInv /\ [RelayNext]_relayVars => RelayInv'
<1> SUFFICES ASSUME RelayInv, [RelayNext]_relayVars PROVE RelayInv'
    OBVIOUS
<1>1. CASE UNCHANGED relayVars
    <2>1. RecordsTyped' /\ Unrecorded' /\ RecordedOnce' /\ StatusTruthful'
        BY <1>1, LeftAlone DEF relayVars, socket, accumulator, pipe, outcome
    <2>2. Counters' /\ Flags' /\ Places'
        BY <1>1 DEF relayVars, request, socket, accumulator, pipe, outcome, RelayInv, Counters, Flags, Places
    <2>3. Placed' /\ Metered' /\ Roomy'
        BY <1>1 DEF relayVars, socket, accumulator, pipe, RelayInv, Placed, Metered, Roomy
    <2> QED
        BY <2>1, <2>2, <2>3 DEF RelayInv
<1>2. CASE RelayNext
    BY <1>2, BeforeTheStream, AnsweredAtOnce, EndsUnrecorded, Reading, Draining, HangingUp, RelayEnding
       DEF RelayNext, Handler, Upstream
<1> QED
    BY <1>1, <1>2

LEMMA RelayInvariant == RelaySpec => []RelayInv
BY RelayInitially, RelaySteps, PTL DEF RelaySpec

\* A request is recorded at most once, and goes unrecorded only when its body
\* or its buffered answer was abandoned (passthrough.ts).
THEOREM RelayRecordsOnce == RelaySpec => []RecordedOnce
<1>1. RelayInv => RecordedOnce
    BY DEF RelayInv
<1> QED
    BY <1>1, RelayInvariant, PTL

\* What a record says is what happened, what was relayed was metered, and a
\* slow client does not grow the socket's buffer beyond its mark (pipe.ts).
THEOREM RelayRecordsTruthfully == RelaySpec => []RecordTruthful
<1>1. RelayInv => RecordTruthful
    BY DEF RelayInv, RecordTruthful, RelayTypeOK, Counters, Flags, Places, RecordsTyped,
           RelayedIsMetered, SocketBounded, Metered, Roomy, Unrecorded
<1> QED
    BY <1>1, RelayInvariant, PTL

-----------------------------------------------------------------------------
(* after the record *)

\* Finished is finished: whatever the client and the socket do afterwards, the
\* record that was handed to the sink and the answer stand (passthrough.ts:
\* `finish` is the last thing each path does).
LEMMA DoneStands ==
    RelayInv /\ [RelayNext]_relayVars => (pc = "done" => UNCHANGED <<pc, records, answer>>)
<1> SUFFICES ASSUME RelayInv, [RelayNext]_relayVars, pc = "done" PROVE UNCHANGED <<pc, records, answer>>
    OBVIOUS
<1> QED
    BY DEF RelayNext, relayVars, Handler, Upstream, DenyIdentity, ReadBody, Fetch, Cancelled, RefuseBody,
           BodyRejects, FetchRejects, FetchResolves, TextResolves, TextRejects, ReadChunk,
           ReadEnds, ReadRejects, SocketSends, Drain, HangUp, outcome

\* What was recorded and answered stands, whatever still happens on the socket.
THEOREM RecordStands == RelaySpec => [][pc = "done" => UNCHANGED <<pc, records, answer>>]_relayVars
BY RelayInvariant, DoneStands, PTL DEF RelaySpec

\* The safety half of PatientClientAnswered: a handler that has finished has
\* answered, unless there is nobody to answer.
Answered == pc = "done" /\ client = "here" => answer # "none"

LEMMA AnsweredSteps == RelayInv /\ Answered /\ [RelayNext]_relayVars => Answered'
<1> SUFFICES ASSUME RelayInv, Answered, [RelayNext]_relayVars, pc' = "done", client' = "here"
             PROVE  answer' # "none"
    BY DEF Answered
<1>1. client = "here"
    BY DEF RelayNext, relayVars, Handler, Upstream, DenyIdentity, ReadBody, Fetch, Cancelled, RefuseBody,
           BodyRejects, FetchRejects, FetchResolves, TextResolves, TextRejects, ReadChunk,
           ReadEnds, ReadRejects, SocketSends, Drain, HangUp, socket
<1>2. CASE pc = "done"
    BY <1>1, <1>2, DoneStands DEF Answered
<1>3. CASE pc # "done"
    <2>1. ~aborted
        BY <1>1 DEF RelayInv, Placed
    <2>2. DenyIdentity \/ RefuseBody \/ FetchRejects \/ TextResolves \/ TextRejects \/ ConcludeRelay
        BY <1>1, <1>3
           DEF RelayNext, relayVars, Handler, Upstream, ReadBody, Fetch, Cancelled, BodyRejects,
               FetchResolves, ReadChunk, ReadEnds, ReadRejects, SocketSends, Drain, HangUp
    <2> QED
        BY <2>1, <2>2
           DEF DenyIdentity, RefuseBody, FetchRejects, TextResolves, TextRejects, ConcludeRelay
<1> QED
    BY <1>2, <1>3

\* Whoever is still there when the handler finishes has an answer.
THEOREM FinishedIsAnswered == RelaySpec => []Answered
<1>1. RelayInit => Answered
    BY DEF RelayInit, Answered
<1> QED
    BY <1>1, RelayInvariant, AnsweredSteps, PTL DEF RelaySpec

-----------------------------------------------------------------------------
(***************************************************************************)
(* Proofs about UsageSink, for every queue limit, batch size and number of *)
(* records, with and without a trail.  The types, the bound on the queue   *)
(* and the accounting of every record form one inductive invariant; the    *)
(* order of the records and what close() leaves form a second, and with it *)
(* every step of the sink is a step of the ledger of MeteringLedger.       *)
(***************************************************************************)

(***************************************************************************)
(* Splicing a batch off a queue loses and invents nothing (sink.ts:103).   *)
(***************************************************************************)
LEMMA SpliceLength ==
    ASSUME NEW q \in Seq(Nat)
    PROVE  /\ Taken(q) \in Seq(Nat)
           /\ Left(q) \in Seq(Nat)
           /\ Len(Taken(q)) \in Nat
           /\ Len(Left(q)) \in Nat
           /\ Len(q) \in Nat
           /\ Len(Taken(q)) + Len(Left(q)) = Len(q)
PROOF
<1> DEFINE n == Least(MaxBatch, Len(q))
<1>1. n \in Nat /\ n <= Len(q) /\ Len(q) \in Nat
  BY SinkAssumption DEF Least
<1>2. Taken(q) \in Seq(Nat) /\ Len(Taken(q)) = n
  BY <1>1, SubSeqProperties DEF Taken
<1>3. Left(q) \in Seq(Nat) /\ Len(Left(q)) = Len(q) - n
  BY <1>1, SubSeqProperties DEF Left
<1> QED
  BY <1>1, <1>2, <1>3

(***************************************************************************)
(* record() on a bounded queue leaves it bounded, and the record that came *)
(* in is balanced by one more queued or one more dropped (sink.ts:147-151).*)
(***************************************************************************)
LEMMA PushLength ==
    ASSUME TypeOK, QueueBounded
    PROVE  /\ Pushed \in Seq(Nat)
           /\ Len(Pushed) \in Nat
           /\ Len(Pushed) <= MaxQueue
           /\ Shed \in Nat
           /\ Len(Pushed) + Shed = Len(queue) + dropped + 1
PROOF
<1>1. queue \in Seq(Nat) /\ accepted + 1 \in Nat /\ dropped \in Nat /\ Len(queue) \in Nat
  BY DEF TypeOK
<1>2. CASE Len(queue) >= MaxQueue
  <2>1. queue # <<>>
    BY <1>2, SinkAssumption
  <2>2. Tail(queue) \in Seq(Nat) /\ Len(Tail(queue)) = Len(queue) - 1
    BY <1>1, <2>1, HeadTailProperties
  <2>3. Pushed \in Seq(Nat) /\ Len(Pushed) = Len(queue)
    BY <1>1, <1>2, <2>2, AppendProperties DEF Pushed
  <2> QED
    BY <1>1, <1>2, <2>3 DEF QueueBounded, Shed
<1>3. CASE ~(Len(queue) >= MaxQueue)
  <2>1. Pushed \in Seq(Nat) /\ Len(Pushed) = Len(queue) + 1
    BY <1>1, <1>3, AppendProperties DEF Pushed
  <2> QED
    BY <1>1, <1>3, <2>1, SinkAssumption DEF Shed
<1> QED
  BY <1>2, <1>3

(***************************************************************************)
(* However a flush ends, its batch is written, queued again or counted as  *)
(* dropped, and the queue stays within its limit (sink.ts:131-139).        *)
(***************************************************************************)
LEMMA ConcludeAccounts ==
    ASSUME NEW q \in Seq(Nat), NEW b \in Seq(Nat), NEW ok \in BOOLEAN, NEW d \in Nat,
           written \in Nat,
           Len(q) <= MaxQueue,
           Conclude(q, b, ok, d)
    PROVE  /\ queue' \in Seq(Nat)
           /\ Len(queue') \in Nat
           /\ Len(queue') <= MaxQueue
           /\ written' \in Nat
           /\ dropped' \in Nat
           /\ written' = written + (IF ok THEN Len(b) ELSE 0)
           /\ Len(queue') + dropped' + (IF ok THEN Len(b) ELSE 0) = Len(q) + Len(b) + d
PROOF
<1>1. Len(q) \in Nat /\ Len(b) \in Nat /\ MaxQueue \in Nat
  BY SinkAssumption
<1>2. b \o q \in Seq(Nat) /\ Len(b \o q) = Len(b) + Len(q)
  BY ConcatProperties
<1>3. CASE ok
  <2>1. queue' = q /\ written' = written + Len(b) /\ dropped' = d
    BY <1>3 DEF Conclude
  <2> QED
    BY <1>1, <1>3, <2>1
<1>4. CASE ~ok /\ Len(q) + Len(b) <= MaxQueue
  <2>1. queue' = b \o q /\ written' = written /\ dropped' = d
    BY <1>4 DEF Conclude
  <2> QED
    BY <1>1, <1>2, <1>4, <2>1
<1>5. CASE ~ok /\ ~(Len(q) + Len(b) <= MaxQueue)
  <2>1. queue' = q /\ written' = written /\ dropped' = d + Len(b)
    BY <1>5 DEF Conclude
  <2> QED
    BY <1>1, <1>5, <2>1
<1> QED
  BY <1>3, <1>4, <1>5

(***************************************************************************)
(* A flush started on queue q with drop counter d keeps the books: what    *)
(* was accounted for as queued or dropped before still is after.           *)
(***************************************************************************)
LEMMA FlushAccounts ==
    ASSUME NEW q \in Seq(Nat), NEW d \in Nat,
           TypeOK, ~inFlight,
           Len(q) <= MaxQueue,
           DoFlush(q, d)
    PROVE  /\ queue' \in Seq(Nat)
           /\ batch' \in Seq(Nat)
           /\ stored' \in Seq(Nat)
           /\ written' \in Nat
           /\ dropped' \in Nat
           /\ writeErrors' \in Nat
           /\ persisted' \in BOOLEAN
           /\ QueueBounded'
           /\ Len(queue') \in Nat /\ Len(batch') \in Nat
           /\ Len(stored') \in Nat /\ Len(Unwritten') \in Nat
           /\ Len(stored') + Len(Unwritten') + Len(queue') + dropped' = Len(stored) + Len(q) + d
           /\ Len(stored) = written
                => Len(stored') = written' + (IF persisted' THEN Len(batch') ELSE 0)
PROOF
<1>1. /\ stored \in Seq(Nat) /\ Len(stored) \in Nat /\ written \in Nat
      /\ storeUp \in BOOLEAN /\ writeErrors \in Nat
  BY DEF TypeOK
<1>2. /\ Taken(q) \in Seq(Nat) /\ Left(q) \in Seq(Nat)
      /\ Len(Taken(q)) \in Nat /\ Len(Left(q)) \in Nat /\ Len(q) \in Nat
      /\ Len(Taken(q)) + Len(Left(q)) = Len(q)
  BY SpliceLength
<1>3. Len(Left(q)) <= MaxQueue
  BY <1>2, SinkAssumption
<1>4. writeErrors' \in Nat /\ persisted' = storeUp /\ persisted' \in BOOLEAN
  BY <1>1, SinkAssumption DEF DoFlush, Count
<1>5. /\ stored' \in Seq(Nat)
      /\ Len(stored') = Len(stored) + (IF storeUp THEN Len(Taken(q)) ELSE 0)
  BY <1>1, <1>2, ConcatProperties DEF DoFlush
<1>sizes. /\ Len(stored) \in Nat /\ written \in Nat /\ d \in Nat /\ Len(q) \in Nat
      /\ Len(Taken(q)) \in Nat /\ Len(Left(q)) \in Nat
      /\ Len(Taken(q)) + Len(Left(q)) = Len(q)
  BY <1>1, <1>2
<1>6. CASE hasTrail
  <2>1. /\ batch' = Taken(q) /\ queue' = Left(q) /\ dropped' = d /\ written' = written
    BY <1>6 DEF DoFlush
  <2>2. Len(Unwritten') = IF storeUp THEN 0 ELSE Len(Taken(q))
    BY <1>4, <2>1 DEF Unwritten
  <2>3. /\ Len(batch') = Len(Taken(q)) /\ Len(queue') = Len(Left(q))
        /\ Len(stored') \in Nat /\ Len(Unwritten') \in Nat
    BY <1>2, <1>5, <2>1, <2>2
  <2>4. QueueBounded'
    BY <1>3, <2>1 DEF QueueBounded
  <2>sizes. /\ Len(queue') = Len(Left(q)) /\ dropped' = d
        /\ Len(stored') \in Nat /\ Len(Unwritten') \in Nat
    BY <2>1, <2>3
  <2>5. Len(stored') + Len(Unwritten') = Len(stored) + Len(Taken(q))
    BY <1>1, <1>2, <1>5, <2>2
  <2>6. Len(stored') + Len(Unwritten') + Len(queue') + dropped' = Len(stored) + Len(q) + d
    BY <1>sizes, <2>5, <2>sizes
  <2>7. Len(stored) = written
          => Len(stored') = written' + (IF persisted' THEN Len(batch') ELSE 0)
    BY <1>1, <1>4, <1>5, <2>1, <2>3
  <2> QED
    BY <1>1, <1>2, <1>4, <1>5, <2>1, <2>3, <2>4, <2>6, <2>7
<1>7. CASE ~hasTrail
  <2>1. batch' = <<>> /\ Conclude(Left(q), Taken(q), storeUp, d)
    BY <1>7 DEF DoFlush
  <2>2. /\ queue' \in Seq(Nat) /\ Len(queue') \in Nat /\ Len(queue') <= MaxQueue
        /\ written' \in Nat /\ dropped' \in Nat
        /\ written' = written + (IF storeUp THEN Len(Taken(q)) ELSE 0)
        /\ Len(queue') + dropped' + (IF storeUp THEN Len(Taken(q)) ELSE 0)
             = Len(Left(q)) + Len(Taken(q)) + d
    BY <1>1, <1>2, <1>3, <2>1, ConcludeAccounts
  <2>3. batch' \in Seq(Nat) /\ Len(batch') = 0 /\ Len(Unwritten') = 0
    BY <2>1, EmptySeq DEF Unwritten
  <2>4. QueueBounded'
    BY <2>2 DEF QueueBounded
  <2>5. Len(stored') + (Len(queue') + dropped') = Len(stored) + Len(q) + d
    <3>1. CASE storeUp
      <4>1. /\ Len(queue') + dropped' + Len(Taken(q)) = Len(Left(q)) + Len(Taken(q)) + d
            /\ Len(queue') \in Nat /\ dropped' \in Nat
            /\ Len(stored') = Len(stored) + Len(Taken(q))
        BY <1>5, <2>2, <3>1
      <4> QED
        BY <1>sizes, <4>1
    <3>2. CASE ~storeUp
      <4>1. stored' = stored
        BY <3>2 DEF DoFlush
      <4>2. /\ Len(queue') + dropped' + 0 = Len(Left(q)) + Len(Taken(q)) + d
            /\ Len(queue') \in Nat /\ dropped' \in Nat
        BY <2>2, <3>2
      <4>3. Len(queue') + dropped' = Len(q) + d
        BY <1>sizes, <4>2
      <4> QED
        BY <1>sizes, <4>1, <4>2, <4>3
    <3> QED
      BY <3>1, <3>2
  <2>6. Len(stored') \in Nat /\ Len(batch') \in Nat /\ Len(Unwritten') \in Nat
    BY <1>5, <2>3
  <2>sizes. /\ Len(queue') \in Nat /\ dropped' \in Nat
        /\ Len(stored') \in Nat /\ Len(Unwritten') = 0
    BY <2>2, <2>3, <2>6
  <2>7. Len(stored') + Len(Unwritten') + Len(queue') + dropped' = Len(stored) + Len(q) + d
    BY <1>sizes, <2>5, <2>sizes
  <2>8. Len(stored) = written
          => Len(stored') = written' + (IF persisted' THEN Len(batch') ELSE 0)
    BY <1>1, <1>2, <1>4, <1>5, <2>2, <2>3
  <2> QED
    BY <1>4, <1>5, <2>2, <2>3, <2>4, <2>6, <2>7, <2>8
<1> QED
  BY <1>6, <1>7

-----------------------------------------------------------------------------

(***************************************************************************)
(* The inductive invariant.  The bound is needed to know that a batch put  *)
(* back fits, the accounting needs the types, and neither needs more.      *)
(***************************************************************************)
Books == TypeOK /\ QueueBounded /\ LossAccounted

LEMMA BooksInit == Init => Books
  BY SinkAssumption, EmptySeq
     DEF Init, Books, TypeOK, QueueBounded, LossAccounted, Unwritten

LEMMA BooksNext == Books /\ [Next]_vars => Books'
PROOF
<1> SUFFICES ASSUME Books, [Next]_vars
             PROVE  Books'
  OBVIOUS
<1> USE SinkAssumption
<1>0. /\ TypeOK /\ QueueBounded
      /\ queue \in Seq(Nat) /\ batch \in Seq(Nat) /\ stored \in Seq(Nat)
      /\ Len(queue) \in Nat /\ Len(batch) \in Nat /\ Len(stored) \in Nat
      /\ dropped \in Nat /\ written \in Nat /\ accepted \in Nat
      /\ Len(Unwritten) \in Nat
      /\ persisted \in BOOLEAN /\ Len(queue) <= MaxQueue
      /\ accepted = Len(stored) + Len(Unwritten) + Len(queue) + dropped
      /\ Len(stored) = written + (IF persisted THEN Len(batch) ELSE 0)
  <2>1. Len(Unwritten) \in Nat
    BY EmptySeq DEF Books, TypeOK, Unwritten
  <2> QED
    BY <2>1 DEF Books, TypeOK, QueueBounded, LossAccounted
<1>sizes. /\ Len(queue) \in Nat /\ Len(batch) \in Nat /\ Len(stored) \in Nat
      /\ Len(Unwritten) \in Nat /\ dropped \in Nat /\ written \in Nat /\ accepted \in Nat
      /\ accepted = Len(stored) + Len(Unwritten) + Len(queue) + dropped
  BY <1>0
<1>idle. ASSUME ~inFlight
      PROVE  Len(Unwritten) = 0 /\ Len(batch) = 0 /\ Len(stored) = written
  BY <1>0, <1>idle DEF inFlight, Unwritten
<1>1. CASE Record
  <2>1. /\ Pushed \in Seq(Nat) /\ Len(Pushed) \in Nat /\ Len(Pushed) <= MaxQueue
        /\ Shed \in Nat /\ Len(Pushed) + Shed = Len(queue) + dropped + 1
    BY <1>0, PushLength
  <2>2. /\ accepted' = accepted + 1
        /\ UNCHANGED <<refused, closeVars, trailErrors, hasTrail, storeUp>>
    BY <1>1 DEF Record
  <2>3. CASE ~inFlight /\ DoFlush(Pushed, Shed)
    <3>1. /\ queue' \in Seq(Nat) /\ batch' \in Seq(Nat) /\ stored' \in Seq(Nat)
          /\ written' \in Nat /\ dropped' \in Nat /\ writeErrors' \in Nat
          /\ persisted' \in BOOLEAN /\ QueueBounded'
          /\ Len(queue') \in Nat /\ Len(batch') \in Nat
          /\ Len(stored') \in Nat /\ Len(Unwritten') \in Nat
          /\ Len(stored') + Len(Unwritten') + Len(queue') + dropped'
               = Len(stored) + Len(Pushed) + Shed
          /\ Len(stored') = written' + (IF persisted' THEN Len(batch') ELSE 0)
      BY <1>0, <1>idle, <2>1, <2>3, FlushAccounts
    <3>2. TypeOK'
      BY <2>2, <3>1, <1>0 DEF TypeOK, closeVars
    <3>3. accepted = Len(stored) + Len(queue) + dropped
      BY <1>sizes, <1>idle, <2>3
    <3>4. /\ Len(Pushed) \in Nat /\ Shed \in Nat
          /\ Len(Pushed) + Shed = Len(queue) + dropped + 1
          /\ accepted' = accepted + 1
          /\ Len(stored') + Len(Unwritten') + Len(queue') + dropped'
               = Len(stored) + Len(Pushed) + Shed
      BY <2>1, <2>2, <3>1
    <3>6. accepted' = Len(stored) + Len(Pushed) + Shed
      BY <1>sizes, <3>3, <3>4
    <3>5. LossAccounted'
      BY <3>1, <3>4, <3>6 DEF LossAccounted
    <3> QED
      BY <3>1, <3>2, <3>5 DEF Books
  <2>4. CASE queue' = Pushed /\ dropped' = Shed /\ UNCHANGED flushVars
    <3>1. TypeOK'
      BY <1>0, <2>1, <2>2, <2>4 DEF TypeOK, closeVars, flushVars
    <3>2. QueueBounded'
      BY <2>1, <2>4 DEF QueueBounded
    <3>3. Unwritten' = Unwritten /\ UNCHANGED <<stored, written, persisted, batch>>
      BY <2>4 DEF flushVars, Unwritten
    <3>4. /\ Len(queue') + dropped' = Len(queue) + dropped + 1
          /\ Len(queue') \in Nat /\ dropped' \in Nat
          /\ accepted' = accepted + 1
      BY <2>1, <2>2, <2>4
    <3>5. accepted' = Len(stored) + Len(Unwritten) + Len(queue') + dropped'
      BY <1>sizes, <3>4
    <3>6. LossAccounted'
      BY <1>0, <3>3, <3>5 DEF LossAccounted
    <3> QED
      BY <3>1, <3>2, <3>6 DEF Books
  <2> QED
    BY <1>1, <2>3, <2>4 DEF Record
<1>2. CASE RecordAfterClose
  <2>1. /\ refused' = refused + 1
        /\ UNCHANGED <<accepted, queueVars, flushVars, closeVars, trailErrors, hasTrail, storeUp>>
    BY <1>2 DEF RecordAfterClose
  <2>2. TypeOK'
    BY <1>0, <2>1 DEF TypeOK, queueVars, flushVars, closeVars
  <2>3. QueueBounded' /\ LossAccounted'
    BY <1>0, <2>1 DEF QueueBounded, LossAccounted, Unwritten, queueVars, flushVars
  <2> QED
    BY <2>2, <2>3 DEF Books
<1>3. ASSUME ~inFlight, DoFlush(queue, dropped),
             UNCHANGED <<arrivalVars, trailErrors, hasTrail, storeUp>>,
             closer' \in {"open", "joining", "draining", "closed"}, before' \in Nat
      PROVE  Books'
  <2>1. /\ queue' \in Seq(Nat) /\ batch' \in Seq(Nat) /\ stored' \in Seq(Nat)
        /\ written' \in Nat /\ dropped' \in Nat /\ writeErrors' \in Nat
        /\ persisted' \in BOOLEAN /\ QueueBounded'
        /\ Len(queue') \in Nat /\ Len(batch') \in Nat
        /\ Len(stored') \in Nat /\ Len(Unwritten') \in Nat
        /\ Len(stored') + Len(Unwritten') + Len(queue') + dropped'
             = Len(stored) + Len(queue) + dropped
        /\ Len(stored') = written' + (IF persisted' THEN Len(batch') ELSE 0)
    BY <1>0, <1>idle, <1>3, FlushAccounts
  <2>2. TypeOK'
    BY <1>0, <1>3, <2>1 DEF TypeOK, arrivalVars
  <2>3. LossAccounted'
    BY <1>0, <1>idle, <1>3, <2>1 DEF LossAccounted, arrivalVars
  <2> QED
    BY <2>1, <2>2, <2>3 DEF Books
<1>4. CASE TimerFlush
  <2>1. closer' \in {"open", "joining", "draining", "closed"} /\ before' \in Nat
    BY <1>0, <1>4 DEF TimerFlush, TypeOK, closeVars
  <2> QED
    BY <1>3, <1>4, <2>1 DEF TimerFlush
<1>5. CASE TrailSettled
  <2>1. /\ queue' \in Seq(Nat) /\ Len(queue') \in Nat /\ Len(queue') <= MaxQueue
        /\ written' \in Nat /\ dropped' \in Nat
        /\ written' = written + (IF persisted THEN Len(batch) ELSE 0)
        /\ Len(queue') + dropped' + (IF persisted THEN Len(batch) ELSE 0)
             = Len(queue) + Len(batch) + dropped
    BY <1>0, <1>5, ConcludeAccounts DEF TrailSettled
  <2>2. /\ batch' = <<>> /\ trailErrors' \in {trailErrors, Count(trailErrors)}
        /\ UNCHANGED <<persisted, writeErrors, stored, closeVars, arrivalVars, hasTrail, storeUp>>
    BY <1>5 DEF TrailSettled
  <2>3. Count(trailErrors) \in Nat
    BY <1>0 DEF TypeOK, Count
  <2>4. TypeOK'
    BY <1>0, <2>1, <2>2, <2>3, EmptySeq DEF TypeOK, closeVars, arrivalVars
  <2>5. Len(Unwritten) = (IF persisted THEN 0 ELSE Len(batch)) /\ Len(Unwritten') = 0 /\ Len(batch') = 0
    BY <1>0, <2>2, EmptySeq DEF Unwritten
  <2>6. /\ accepted' = accepted /\ Len(stored') = Len(stored)
        /\ Len(queue') \in Nat /\ dropped' \in Nat /\ Len(Unwritten') = 0
    BY <2>1, <2>2, <2>5 DEF arrivalVars
  <2>7. Len(queue') + dropped' = Len(Unwritten) + Len(queue) + dropped
    <3>1. CASE persisted
      <4>1. /\ Len(queue') + dropped' + Len(batch) = Len(queue) + Len(batch) + dropped
            /\ Len(queue') \in Nat /\ dropped' \in Nat /\ Len(Unwritten) = 0
        BY <2>1, <2>5, <3>1
      <4> QED
        BY <1>sizes, <4>1
    <3>2. CASE ~persisted
      <4>1. /\ Len(queue') + dropped' + 0 = Len(queue) + Len(batch) + dropped
            /\ Len(queue') \in Nat /\ dropped' \in Nat /\ Len(Unwritten) = Len(batch)
        BY <2>1, <2>5, <3>2
      <4> QED
        BY <1>sizes, <4>1
    <3> QED
      BY <3>1, <3>2
  <2>8. accepted' = Len(stored') + Len(Unwritten') + Len(queue') + dropped'
    BY <1>sizes, <2>6, <2>7
  <2>9. Len(stored') = written' + (IF persisted' THEN Len(batch') ELSE 0)
    BY <1>0, <2>1, <2>2, <2>5
  <2> QED
    BY <2>1, <2>4, <2>8, <2>9 DEF Books, QueueBounded, LossAccounted
<1>6. CASE Close
  BY <1>0, <1>6 DEF Books, Close, TypeOK, QueueBounded, LossAccounted,
                    Unwritten, queueVars, flushVars, arrivalVars
<1>7. CASE CloseRound
  <2>1. closer' \in {"open", "joining", "draining", "closed"} /\ before' \in Nat
    BY <1>0, <1>7 DEF CloseRound
  <2> QED
    BY <1>3, <1>7, <2>1 DEF CloseRound
<1>8. CASE CloseDone
  BY <1>0, <1>8 DEF Books, CloseDone, TypeOK, QueueBounded, LossAccounted,
                    Unwritten, queueVars, flushVars, arrivalVars
<1>9. CASE StoreChanges
  BY <1>0, <1>9 DEF Books, StoreChanges, TypeOK, QueueBounded, LossAccounted,
                    Unwritten, queueVars, flushVars, arrivalVars, closeVars
<1>10. CASE UNCHANGED vars
  BY <1>0, <1>10 DEF Books, vars, TypeOK, QueueBounded, LossAccounted,
                     Unwritten, queueVars, flushVars, arrivalVars, closeVars
<1> QED
  BY <1>1, <1>2, <1>4, <1>5, <1>6, <1>7, <1>8, <1>9, <1>10 DEF Next

(***************************************************************************)
(* The sink's state always has its types.                                  *)
(***************************************************************************)
THEOREM SinkTypes == Spec => []TypeOK
PROOF
<1>1. Books => TypeOK
  BY DEF Books
<1> QED
  BY <1>1, BooksInit, BooksNext, PTL DEF Spec

(***************************************************************************)
(* The queue of server/ingest/sink.ts never exceeds maxQueue.              *)
(***************************************************************************)
THEOREM SinkQueueBounded == Spec => []QueueBounded
PROOF
<1>1. Books => QueueBounded
  BY DEF Books
<1> QED
  BY <1>1, BooksInit, BooksNext, PTL DEF Spec

(***************************************************************************)
(* Every record the sink accepted is stored, in memory, or counted.        *)
(***************************************************************************)
THEOREM SinkLossAccounted == Spec => []LossAccounted
PROOF
<1>1. Books => LossAccounted
  BY DEF Books
<1> QED
  BY <1>1, BooksInit, BooksNext, PTL DEF Spec

-----------------------------------------------------------------------------
(* Order: what is stored, in flight and queued is increasing, and what is  *)
(* lost is older than what is queued.  First, sequences.                   *)

Below(S, T) == \A x \in S, y \in T : x < y

LEMMA ConcatOrder ==
    ASSUME NEW s \in Seq(Nat), NEW t \in Seq(Nat)
    PROVE  /\ Elements(s \o t) = Elements(s) \cup Elements(t)
           /\ Increasing(s \o t) <=>
                 Increasing(s) /\ Increasing(t) /\ Below(Elements(s), Elements(t))
PROOF
<1>1. /\ Len(s) \in Nat /\ Len(t) \in Nat
      /\ Len(s \o t) = Len(s) + Len(t)
      /\ \A i \in 1..Len(s) : s[i] \in Nat
      /\ \A i \in 1..Len(t) : t[i] \in Nat
  BY ConcatProperties
<1>2. /\ \A i \in 1..Len(s) : i \in 1..Len(s \o t) /\ (s \o t)[i] = s[i]
      /\ \A j \in 1..Len(t) : Len(s) + j \in 1..Len(s \o t) /\ (s \o t)[Len(s) + j] = t[j]
  BY <1>1, ConcatProperties
<1>3. \A k \in 1..Len(s \o t) : k \in 1..Len(s) \/ (k - Len(s) \in 1..Len(t) /\ k = Len(s) + (k - Len(s)))
  BY <1>1
<1>4. Elements(s \o t) = Elements(s) \cup Elements(t)
  <2>1. ASSUME NEW x \in Elements(s \o t)
        PROVE  x \in Elements(s) \cup Elements(t)
    <3>1. PICK k \in 1..Len(s \o t) : x = (s \o t)[k]
      BY DEF Elements
    <3> QED
      BY <1>2, <1>3, <3>1 DEF Elements
  <2>2. Elements(s) \subseteq Elements(s \o t) /\ Elements(t) \subseteq Elements(s \o t)
    BY <1>2 DEF Elements
  <2> QED
    BY <2>1, <2>2
<1>5. ASSUME Increasing(s \o t)
      PROVE  Increasing(s) /\ Increasing(t) /\ Below(Elements(s), Elements(t))
  <2>1. Increasing(s)
    BY <1>2, <1>5 DEF Increasing
  <2>2. Increasing(t)
    <3> SUFFICES ASSUME NEW i \in 1..Len(t), NEW j \in 1..Len(t), i < j
                 PROVE  t[i] < t[j]
      BY DEF Increasing
    <3>1. Len(s) + i < Len(s) + j
      BY <1>1
    <3> QED
      BY <1>2, <1>5, <3>1 DEF Increasing
  <2>3. ASSUME NEW i \in 1..Len(s), NEW j \in 1..Len(t)
        PROVE  s[i] < t[j]
    <3>1. i < Len(s) + j
      BY <1>1
    <3> QED
      BY <1>2, <1>5, <3>1 DEF Increasing
  <2> QED
    BY <2>1, <2>2, <2>3 DEF Below, Elements
<1>6. ASSUME Increasing(s), Increasing(t), Below(Elements(s), Elements(t))
      PROVE  Increasing(s \o t)
  <2> SUFFICES ASSUME NEW i \in 1..Len(s \o t), NEW j \in 1..Len(s \o t), i < j
               PROVE  (s \o t)[i] < (s \o t)[j]
    BY DEF Increasing
  <2>1. CASE j \in 1..Len(s)
    <3>1. i \in 1..Len(s)
      BY <1>1, <2>1
    <3> QED
      BY <1>2, <1>6, <2>1, <3>1 DEF Increasing
  <2>2. CASE i \in 1..Len(s) /\ j \notin 1..Len(s)
    <3>1. s[i] \in Elements(s) /\ t[j - Len(s)] \in Elements(t)
      BY <1>3, <2>2 DEF Elements
    <3>2. s[i] < t[j - Len(s)]
      BY <1>6, <3>1 DEF Below
    <3> QED
      BY <1>2, <1>3, <2>2, <3>2
  <2>3. CASE i \notin 1..Len(s) /\ j \notin 1..Len(s)
    <3>1. i - Len(s) \in 1..Len(t) /\ j - Len(s) \in 1..Len(t) /\ i - Len(s) < j - Len(s)
      BY <1>1, <1>3, <2>3
    <3>2. t[i - Len(s)] < t[j - Len(s)]
      BY <1>6, <3>1 DEF Increasing
    <3> QED
      BY <1>2, <1>3, <2>3, <3>2
  <2> QED
    BY <2>1, <2>2, <2>3
<1> QED
  BY <1>4, <1>5, <1>6

(***************************************************************************)
(* The batch and the rest of a queue, end to end, are the queue.           *)
(***************************************************************************)
LEMMA SpliceJoins ==
    ASSUME NEW q \in Seq(Nat)
    PROVE  q = Taken(q) \o Left(q)
PROOF
<1> DEFINE n == Least(MaxBatch, Len(q))
<1>1. n \in Nat /\ n <= Len(q) /\ Len(q) \in Nat
  BY SinkAssumption DEF Least
<1> HIDE DEF n
<1>2. SubSeq(q, 1, n) \o SubSeq(q, n + 1, Len(q)) = SubSeq(q, 1, Len(q))
  <2>1. 1 \in 1..Len(q) + 1 /\ n \in (1 - 1)..Len(q) /\ Len(q) \in n..Len(q)
    BY <1>1
  <2> QED
    BY <2>1, ConcatAdjacentSubSeq
<1>3. SubSeq(q, 1, Len(q)) = q
  BY SubSeqFull
<1> QED
  BY <1>2, <1>3 DEF Taken, Left, n

(***************************************************************************)
(* An increasing sequence has as many elements as it is long.              *)
(***************************************************************************)
LEMMA IncreasingCounts ==
    ASSUME NEW s \in Seq(Nat), Increasing(s)
    PROVE  Cardinality(Elements(s)) = Len(s)
PROOF
<1>1. Len(s) \in Nat /\ s \in [1..Len(s) -> Elements(s)] /\ \A i \in 1..Len(s) : s[i] \in Nat
  BY LenProperties DEF Elements
<1>2. \A i, j \in 1..Len(s) : s[i] = s[j] => i = j
  <2> SUFFICES ASSUME NEW i \in 1..Len(s), NEW j \in 1..Len(s), i # j
               PROVE  s[i] # s[j]
    OBVIOUS
  <2>1. i < j \/ j < i
    OBVIOUS
  <2> QED
    BY <1>1, <2>1 DEF Increasing
<1>3. \A x \in Elements(s) : \E i \in 1..Len(s) : s[i] = x
  BY DEF Elements
<1>4. s \in Bijection(1..Len(s), Elements(s))
  BY <1>1, <1>2, <1>3 DEF Bijection, Injection, Surjection, IsInjective
<1> QED
  BY <1>1, <1>4, FS_CountingElements DEF ExistsBijection

(***************************************************************************)
(* Now the sink: where each accepted record is, and in which order.  What  *)
(* is lost is older than what is queued, and than the batch in flight too, *)
(* unless the queue is full behind it: then the batch cannot come back.    *)
(***************************************************************************)
Stored == Elements(stored)
Flying == Elements(Unwritten)
Queued == Elements(queue)
Known  == Stored \cup Flying \cup Queued

Orderly ==
    /\ Increasing(stored) /\ Increasing(Unwritten) /\ Increasing(queue)
    /\ Below(Stored, Flying) /\ Below(Stored, Queued) /\ Below(Flying, Queued)
    /\ Known \subseteq 1..accepted

LostFirst ==
    /\ Below(Lost, Queued)
    /\ Below(Lost, Flying) \/ Len(queue) >= MaxQueue

(***************************************************************************)
(* What a step does to the records: it may accept one, and gives up `shed` *)
(* with a count.                                                           *)
(***************************************************************************)
Moves(shed) ==
    /\ accepted' \in {accepted, accepted + 1}
    /\ shed \subseteq Flying \cup Queued
    /\ Stored \subseteq Stored'
    /\ Known' = (Known \ shed) \cup ((accepted + 1)..accepted')
    /\ dropped' = dropped + Cardinality(shed)

LEMMA EmptyOrder == Elements(<<>>) = {} /\ Increasing(<<>>) /\ Cardinality({}) = 0
  BY FS_EmptySet DEF Elements, Increasing

(***************************************************************************)
(* A flush begun on queue q loses nothing, whether or not the store takes  *)
(* the batch, and leaves everything in order (sink.ts:103-139).            *)
(***************************************************************************)
LEMMA FlushOrder ==
    ASSUME NEW q \in Seq(Nat), NEW d \in Nat,
           TypeOK, ~inFlight, Len(q) <= MaxQueue, DoFlush(q, d),
           Increasing(stored), Increasing(q), Below(Stored, Elements(q))
    PROVE  /\ Increasing(stored') /\ Increasing(Unwritten') /\ Increasing(queue')
           /\ Below(Stored', Flying') /\ Below(Stored', Queued') /\ Below(Flying', Queued')
           /\ Known' = Stored \cup Elements(q)
           /\ Stored \subseteq Stored'
           /\ Flying' \cup Queued' \subseteq Elements(q)
           /\ dropped' = d
PROOF
<1> DEFINE t == Taken(q)  l == Left(q)
<1>1. /\ stored \in Seq(Nat) /\ t \in Seq(Nat) /\ l \in Seq(Nat)
      /\ Len(t) \in Nat /\ Len(l) \in Nat /\ Len(t) + Len(l) <= MaxQueue
      /\ storeUp \in BOOLEAN
  BY SpliceLength DEF TypeOK
<1>2. q = t \o l
  BY SpliceJoins
<1>3. /\ Elements(q) = Elements(t) \cup Elements(l)
      /\ Increasing(t) /\ Increasing(l) /\ Below(Elements(t), Elements(l))
  BY <1>1, <1>2, ConcatOrder
<1>4. Below(Stored, Elements(t)) /\ Below(Stored, Elements(l))
  BY <1>3 DEF Below
<1>5. Elements(stored \o t) = Stored \cup Elements(t) /\ Increasing(stored \o t)
  BY <1>1, <1>3, <1>4, ConcatOrder DEF Stored
<1>6. Below(Stored \cup Elements(t), Elements(l))
  BY <1>3, <1>4 DEF Below
<1>7. \A X : Below(X, {}) /\ Below({}, X)
  BY DEF Below
<1>8. persisted' = storeUp /\ stored' = IF storeUp THEN stored \o t ELSE stored
  BY DEF DoFlush
<1>9. CASE hasTrail
  <2>1. batch' = t /\ queue' = l /\ dropped' = d
    BY <1>9 DEF DoFlush
  <2>2. CASE storeUp
    <3>1. Unwritten' = <<>> /\ stored' = stored \o t
      BY <1>8, <2>2 DEF Unwritten
    <3> QED
      BY <1>3, <1>5, <1>6, <1>7, <2>1, <3>1, EmptyOrder DEF Stored, Flying, Queued, Known
  <2>3. CASE ~storeUp
    <3>1. Unwritten' = t /\ stored' = stored
      BY <1>8, <2>1, <2>3 DEF Unwritten
    <3> QED
      BY <1>3, <1>4, <2>1, <3>1 DEF Stored, Flying, Queued, Known
  <2> QED
    BY <1>1, <2>2, <2>3
<1>10. CASE ~hasTrail
  <2>1. batch' = <<>> /\ Conclude(l, t, storeUp, d)
    BY <1>10 DEF DoFlush
  <2>2. Unwritten' = <<>>
    BY <2>1 DEF Unwritten
  <2>3. CASE storeUp
    <3>1. queue' = l /\ dropped' = d /\ stored' = stored \o t
      BY <1>8, <2>1, <2>3 DEF Conclude
    <3> QED
      BY <1>3, <1>5, <1>6, <1>7, <2>2, <3>1, EmptyOrder DEF Stored, Flying, Queued, Known
  <2>4. CASE ~storeUp
    <3>1. Len(l) + Len(t) <= MaxQueue
      BY <1>1, SinkAssumption
    <3>2. queue' = t \o l /\ dropped' = d /\ stored' = stored
      BY <1>8, <2>1, <2>4, <3>1 DEF Conclude
    <3>3. queue' = q
      BY <1>2, <3>2
    <3> QED
      BY <1>7, <2>2, <3>2, <3>3, EmptyOrder DEF Stored, Flying, Queued, Known
  <2> QED
    BY <1>1, <2>3, <2>4
<1> QED
  BY <1>9, <1>10

(***************************************************************************)
(* record() sheds nothing, or the oldest record of a full queue, and the   *)
(* new record is the last (sink.ts:147-151).                               *)
(***************************************************************************)
ShedNow == IF Len(queue) >= MaxQueue THEN {Head(queue)} ELSE {}

LEMMA PushOrder ==
    ASSUME TypeOK, QueueBounded, Orderly
    PROVE  /\ Increasing(Pushed)
           /\ Elements(Pushed) = (Queued \ ShedNow) \cup {accepted + 1}
           /\ ShedNow \subseteq Queued
           /\ Below(ShedNow, Elements(Pushed))
           /\ Shed = dropped + Cardinality(ShedNow)
           /\ ShedNow # {} => Len(Pushed) >= MaxQueue
PROOF
<1>1. /\ queue \in Seq(Nat) /\ Len(queue) \in Nat /\ accepted \in Nat /\ dropped \in Nat
      /\ Increasing(queue) /\ Queued \subseteq 1..accepted
  BY DEF TypeOK, Orderly, Known
<1>2. /\ <<accepted + 1>> \in Seq(Nat) /\ Elements(<<accepted + 1>>) = {accepted + 1}
      /\ Increasing(<<accepted + 1>>)
  BY <1>1 DEF Elements, Increasing
<1>new. \A x \in Queued : x < accepted + 1
  <2> SUFFICES ASSUME NEW x \in Queued
               PROVE  x < accepted + 1
    OBVIOUS
  <2>1. x \in 1..accepted
    BY <1>1
  <2> QED
    BY <1>1, <2>1
<1>3. ASSUME NEW q \in Seq(Nat), Increasing(q), Elements(q) \subseteq Queued
      PROVE  /\ Elements(Append(q, accepted + 1)) = Elements(q) \cup {accepted + 1}
             /\ Increasing(Append(q, accepted + 1))
  <2>1. Below(Elements(q), {accepted + 1})
    BY <1>new, <1>3 DEF Below
  <2>2. Append(q, accepted + 1) = q \o <<accepted + 1>>
    BY <1>1, AppendIsConcat
  <2> QED
    <3>1. /\ Elements(q \o <<accepted + 1>>) = Elements(q) \cup Elements(<<accepted + 1>>)
          /\ Increasing(q \o <<accepted + 1>>)
      BY <1>2, <1>3, <2>1, ConcatOrder
    <3> QED
      BY <1>2, <2>2, <3>1
<1>4. CASE Len(queue) >= MaxQueue
  <2> DEFINE h == Head(queue)  r == Tail(queue)
  <2>1. queue # <<>>
    BY <1>4, SinkAssumption
  <2>2. h \in Nat /\ r \in Seq(Nat) /\ Len(r) = Len(queue) - 1
    BY <1>1, <2>1, HeadTailProperties
  <2>3. queue = <<h>> \o r /\ <<h>> \in Seq(Nat) /\ Elements(<<h>>) = {h}
    <3>1. 1 \in 1..Len(queue) /\ Len(queue) \in 1..Len(queue)
      BY <1>1, <2>1
    <3>2. SubSeq(queue, 1, Len(queue)) = <<queue[1]>> \o SubSeq(queue, 1 + 1, Len(queue))
      BY <1>1, <3>1, SubSeqRecursiveFirst
    <3>3. SubSeq(queue, 1, Len(queue)) = queue /\ SubSeq(queue, 2, Len(queue)) = r
      BY <1>1, <2>1, SubSeqFull, TailIsSubSeq
    <3>4. h = queue[1] /\ 1 + 1 = 2
      BY <2>1
    <3> QED
      BY <2>2, <3>2, <3>3, <3>4 DEF Elements
  <2>4. Queued = {h} \cup Elements(r) /\ Increasing(r) /\ Below({h}, Elements(r))
    BY <1>1, <2>2, <2>3, ConcatOrder DEF Queued
  <2>5. h \notin Elements(r) /\ Elements(r) \subseteq Queued
    BY <2>2, <2>4 DEF Below
  <2>6. Pushed = Append(r, accepted + 1) /\ Shed = dropped + 1 /\ ShedNow = {h}
    BY <1>4 DEF Pushed, Shed, ShedNow
  <2>7. Elements(Pushed) = Elements(r) \cup {accepted + 1} /\ Increasing(Pushed)
    BY <1>3, <2>2, <2>4, <2>5, <2>6
  <2>8. h < accepted + 1
    BY <1>new, <2>4
  <2>9. Len(Pushed) >= MaxQueue
    BY <1>1, <1>4, <2>2, <2>6, AppendProperties
  <2>10. Below(ShedNow, Elements(Pushed))
    BY <2>4, <2>6, <2>7, <2>8 DEF Below
  <2>11. Cardinality(ShedNow) = 1
    BY <2>6, FS_Singleton
  <2> HIDE DEF h, r
  <2> QED
    BY <1>1, <2>4, <2>5, <2>6, <2>7, <2>9, <2>10, <2>11
<1>5. CASE ~(Len(queue) >= MaxQueue)
  <2>1. Pushed = Append(queue, accepted + 1) /\ Shed = dropped /\ ShedNow = {}
    BY <1>5 DEF Pushed, Shed, ShedNow
  <2>2. Elements(Pushed) = Queued \cup {accepted + 1} /\ Increasing(Pushed)
    BY <1>1, <1>3, <2>1 DEF Queued
  <2> QED
    BY <1>1, <2>1, <2>2, EmptyOrder DEF Below
<1> QED
  BY <1>4, <1>5

LEMMA LostMoves ==
    ASSUME TypeOK, Orderly, NEW shed, Moves(shed)
    PROVE  /\ Lost' = Lost \cup shed
           /\ shed = {} => Lost' = Lost
           /\ Known' \subseteq 1..accepted'
           /\ Lost \subseteq 1..accepted
PROOF
<1>1. accepted \in Nat /\ Known \subseteq 1..accepted /\ shed \subseteq Known
  BY DEF TypeOK, Orderly, Moves, Known
<1>2. Lost = (1..accepted) \ Known /\ Lost' = (1..accepted') \ Known'
  BY DEF Lost, Known, Stored, Flying, Queued
<1>3. 1..accepted' = (1..accepted) \cup ((accepted + 1)..accepted')
  BY <1>1 DEF Moves
<1>4. (1..accepted) \cap ((accepted + 1)..accepted') = {}
  BY <1>1 DEF Moves
<1> QED
  BY <1>1, <1>2, <1>3, <1>4 DEF Moves

(***************************************************************************)
(* record(): its record is the newest, and what it sheds the oldest of the *)
(* queue.                                                                  *)
(***************************************************************************)
LEMMA RecordOrder ==
    ASSUME Books, Orderly, LostFirst, Record
    PROVE  Orderly' /\ LostFirst' /\ Moves(ShedNow)
PROOF
<1>1. TypeOK /\ QueueBounded /\ accepted \in Nat /\ accepted' = accepted + 1
  BY DEF Books, TypeOK, Record
<1>2. /\ Increasing(Pushed)
      /\ Elements(Pushed) = (Queued \ ShedNow) \cup {accepted + 1}
      /\ ShedNow \subseteq Queued
      /\ Below(ShedNow, Elements(Pushed))
      /\ Shed = dropped + Cardinality(ShedNow)
      /\ ShedNow # {} => Len(Pushed) >= MaxQueue
  BY <1>1, PushOrder
<1>3. /\ Pushed \in Seq(Nat) /\ Len(Pushed) \in Nat /\ Len(Pushed) <= MaxQueue /\ Shed \in Nat
      /\ Len(Pushed) + Shed = Len(queue) + dropped + 1
  BY <1>1, PushLength
<1>4. (accepted + 1)..accepted' = {accepted + 1}
  BY <1>1
<1>new. \A x \in 1..accepted : x \in Nat /\ x < accepted + 1
  BY <1>1
<1>5. Stored \cap ShedNow = {} /\ Flying \cap ShedNow = {}
  <2>1. \A x \in Queued : x \in Nat
    BY <1>new DEF Orderly, Known
  <2> QED
    BY <1>2, <2>1 DEF Orderly, Below
<1>6. /\ Below(Stored, Elements(Pushed)) /\ Below(Flying, Elements(Pushed))
  BY <1>2, <1>new DEF Orderly, Below, Known
<1>7. Below(Lost \cup ShedNow, Elements(Pushed))
  <2>1. Lost \subseteq 1..accepted
    BY DEF Lost
  <2> QED
    BY <1>2, <1>new, <2>1 DEF LostFirst, Below
<1>8. CASE ~inFlight /\ DoFlush(Pushed, Shed)
  <2>1. Flying = {}
    BY <1>8, EmptyOrder DEF inFlight, Unwritten, Flying
  <2>2. /\ Increasing(stored') /\ Increasing(Unwritten') /\ Increasing(queue')
        /\ Below(Stored', Flying') /\ Below(Stored', Queued') /\ Below(Flying', Queued')
        /\ Known' = Stored \cup Elements(Pushed)
        /\ Stored \subseteq Stored'
        /\ Flying' \cup Queued' \subseteq Elements(Pushed)
        /\ dropped' = Shed
    BY <1>1, <1>2, <1>3, <1>6, <1>8, FlushOrder DEF Orderly
  <2>3. Known' = (Known \ ShedNow) \cup {accepted + 1}
    BY <1>2, <1>5, <2>1, <2>2 DEF Known
  <2>4. Moves(ShedNow)
    BY <1>1, <1>2, <1>4, <2>2, <2>3 DEF Moves
  <2>5. Lost' = Lost \cup ShedNow /\ Known' \subseteq 1..accepted'
    BY <1>1, <2>4, LostMoves
  <2>6. Below(Lost', Queued') /\ Below(Lost', Flying')
    BY <1>7, <2>2, <2>5 DEF Below
  <2> QED
    BY <2>2, <2>4, <2>5, <2>6 DEF Orderly, LostFirst
<1>9. CASE queue' = Pushed /\ dropped' = Shed /\ UNCHANGED flushVars
  <2>1. /\ Queued' = Elements(Pushed) /\ Stored' = Stored /\ Flying' = Flying
        /\ stored' = stored /\ Unwritten' = Unwritten
    BY <1>9 DEF flushVars, Queued, Stored, Flying, Unwritten
  <2>2. Known' = (Known \ ShedNow) \cup {accepted + 1}
    BY <1>2, <1>5, <2>1 DEF Known
  <2>3. Moves(ShedNow)
    BY <1>1, <1>2, <1>4, <1>9, <2>1, <2>2 DEF Moves
  <2>4. Lost' = Lost \cup ShedNow /\ Known' \subseteq 1..accepted'
    BY <1>1, <2>3, LostMoves
  <2>5. Below(Lost', Flying') \/ Len(queue') >= MaxQueue
    <3>1. CASE ShedNow = {}
      <4>1. Len(queue') = Len(queue) + 1 /\ Len(queue) \in Nat
        <5>1. ~(Len(queue) >= MaxQueue)
          BY <3>1 DEF ShedNow
        <5>2. Shed = dropped /\ Len(queue) \in Nat /\ dropped \in Nat
          BY <1>1, <5>1 DEF Shed, TypeOK
        <5> QED
          BY <1>3, <1>9, <5>2
      <4> QED
        BY <2>1, <2>4, <3>1, <4>1, SinkAssumption DEF LostFirst
    <3>2. CASE ShedNow # {}
      BY <1>2, <1>9, <3>2
    <3> QED
      BY <3>1, <3>2
  <2>6. Orderly'
    BY <1>2, <1>6, <1>9, <2>1, <2>4 DEF Orderly
  <2>7. Below(Lost', Queued')
    BY <1>7, <2>1, <2>4
  <2> QED
    BY <2>3, <2>5, <2>6, <2>7 DEF LostFirst
<1> QED
  BY <1>8, <1>9 DEF Record

(***************************************************************************)
(* A flush of the queue itself, by the timer or by close().                *)
(***************************************************************************)
LEMMA QueueFlushOrder ==
    ASSUME Books, Orderly, LostFirst, ~inFlight, DoFlush(queue, dropped), UNCHANGED accepted
    PROVE  Orderly' /\ LostFirst' /\ Moves({})
PROOF
<1>1. /\ TypeOK /\ queue \in Seq(Nat) /\ dropped \in Nat /\ Len(queue) <= MaxQueue
      /\ accepted \in Nat
  BY DEF Books, TypeOK, QueueBounded
<1>2. Flying = {}
  BY EmptyOrder DEF inFlight, Unwritten, Flying
<1>3. /\ Increasing(stored') /\ Increasing(Unwritten') /\ Increasing(queue')
      /\ Below(Stored', Flying') /\ Below(Stored', Queued') /\ Below(Flying', Queued')
      /\ Known' = Stored \cup Queued
      /\ Stored \subseteq Stored'
      /\ Flying' \cup Queued' \subseteq Queued
      /\ dropped' = dropped
  BY <1>1, FlushOrder DEF Orderly, Queued
<1>4. (accepted + 1)..accepted' = {}
  BY <1>1
<1>5. Moves({})
  BY <1>1, <1>2, <1>3, <1>4, EmptyOrder DEF Moves, Known
<1>6. Lost' = Lost /\ Known' \subseteq 1..accepted'
  BY <1>1, <1>5, LostMoves
<1>7. Below(Lost', Queued') /\ Below(Lost', Flying')
  BY <1>3, <1>6 DEF LostFirst, Below
<1> QED
  BY <1>3, <1>5, <1>6, <1>7 DEF Orderly, LostFirst

(***************************************************************************)
(* A refused batch goes back to the front of the queue, or is given up     *)
(* whole because the queue is full behind it (sink.ts:131-139).            *)
(***************************************************************************)
LEMMA SettleOrder ==
    ASSUME Books, Orderly, LostFirst, TrailSettled
    PROVE  Orderly' /\ LostFirst' /\ \E shed : Moves(shed)
PROOF
<1>1. /\ TypeOK /\ queue \in Seq(Nat) /\ batch \in Seq(Nat) /\ dropped \in Nat
      /\ Len(queue) \in Nat /\ Len(batch) \in Nat /\ accepted \in Nat
      /\ persisted \in BOOLEAN
      /\ batch # <<>> /\ batch' = <<>> /\ UNCHANGED <<persisted, stored, accepted>>
      /\ Conclude(queue, batch, persisted, dropped)
  BY DEF Books, TypeOK, TrailSettled, inFlight, arrivalVars
<1>2. Unwritten' = <<>> /\ Flying' = {} /\ Increasing(Unwritten') /\ Stored' = Stored
  BY <1>1, EmptyOrder DEF Unwritten, Flying, Stored
<1>3. (accepted + 1)..accepted' = {}
  BY <1>1
<1>4. \A X : Below(X, {}) /\ Below({}, X)
  BY DEF Below
<1>5. CASE persisted
  <2>1. queue' = queue /\ dropped' = dropped /\ Queued' = Queued
    BY <1>1, <1>5 DEF Conclude, Queued
  <2>2. Flying = {}
    BY <1>5, EmptyOrder DEF Flying, Unwritten
  <2>3. Moves({})
    BY <1>1, <1>2, <1>3, <2>1, <2>2, EmptyOrder DEF Moves, Known
  <2>4. Lost' = Lost /\ Known' \subseteq 1..accepted'
    BY <1>1, <2>3, LostMoves
  <2>5. Orderly' /\ LostFirst'
    BY <1>1, <1>2, <1>4, <2>1, <2>4 DEF Orderly, LostFirst
  <2> QED
    BY <2>3, <2>5
<1>6. CASE ~persisted /\ Len(queue) + Len(batch) <= MaxQueue
  <2>1. Unwritten = batch /\ Flying = Elements(batch) /\ Increasing(batch)
    BY <1>6 DEF Unwritten, Flying, Orderly
  <2>2. queue' = batch \o queue /\ dropped' = dropped
    BY <1>1, <1>6 DEF Conclude
  <2>3. Queued' = Flying \cup Queued /\ Increasing(queue')
    BY <1>1, <2>1, <2>2, ConcatOrder DEF Orderly, Queued
  <2>4. Moves({})
    BY <1>1, <1>2, <1>3, <2>2, <2>3, EmptyOrder DEF Moves, Known
  <2>5. Lost' = Lost /\ Known' \subseteq 1..accepted'
    BY <1>1, <2>4, LostMoves
  <2>6. Len(batch) > 0
    BY <1>1
  <2>7. Len(queue) < MaxQueue
    BY <1>1, <1>6, <2>6, SinkAssumption
  <2>8. Below(Lost, Flying) /\ Below(Lost, Queued)
    BY <1>1, <2>7, SinkAssumption DEF LostFirst
  <2>9. LostFirst'
    BY <1>2, <1>4, <2>3, <2>5, <2>8 DEF LostFirst, Below
  <2>10. Below(Stored', Queued')
    BY <1>2, <2>3 DEF Orderly, Below
  <2> QED
    BY <1>1, <1>2, <1>4, <2>3, <2>4, <2>5, <2>9, <2>10 DEF Orderly
<1>7. CASE ~persisted /\ ~(Len(queue) + Len(batch) <= MaxQueue)
  <2>1. Unwritten = batch /\ Flying = Elements(batch) /\ Increasing(batch)
    BY <1>7 DEF Unwritten, Flying, Orderly
  <2>2. queue' = queue /\ dropped' = dropped + Len(batch) /\ Queued' = Queued
    BY <1>1, <1>7 DEF Conclude, Queued
  <2>3. Cardinality(Flying) = Len(batch)
    BY <1>1, <2>1, IncreasingCounts
  <2>4. Flying \cap Stored = {} /\ Flying \cap Queued = {}
    <3>1. \A x \in Flying : x \in Nat
      BY <1>1, <2>1 DEF Elements
    <3> QED
      BY <3>1 DEF Orderly, Below
  <2>5. Known' = Known \ Flying
    BY <1>2, <2>2, <2>4 DEF Known
  <2>6. Moves(Flying)
    BY <1>1, <1>2, <1>3, <2>2, <2>3, <2>5 DEF Moves
  <2>7. Lost' = Lost \cup Flying /\ Known' \subseteq 1..accepted'
    BY <1>1, <2>6, LostMoves
  <2>8. LostFirst'
    BY <1>2, <1>4, <2>2, <2>7 DEF LostFirst, Orderly, Below
  <2>9. Orderly'
    BY <1>1, <1>2, <1>4, <2>2, <2>7 DEF Orderly
  <2> QED
    BY <2>6, <2>8, <2>9
<1> QED
  BY <1>1, <1>5, <1>6, <1>7

(***************************************************************************)
(* A flush of close() shrinks the queue unless the store refuses, so that  *)
(* NoProgress is never seen behind a batch the store has taken.            *)
(***************************************************************************)
Ending ==
    /\ closer = "draining" /\ (persisted \/ inFlight) => Len(queue) < before
    /\ closer = "closed" => ~inFlight /\ (queue = <<>> \/ ~persisted)

LEMMA EndingNext ==
    ASSUME Books, Ending, [Next]_vars
    PROVE  Ending'
PROOF
<1>1. /\ queue \in Seq(Nat) /\ batch \in Seq(Nat) /\ Len(queue) \in Nat
      /\ before \in Nat /\ persisted \in BOOLEAN /\ storeUp \in BOOLEAN
      /\ closer \in {"open", "joining", "draining", "closed"}
  BY DEF Books, TypeOK
<1>2. CASE Record \/ TimerFlush
  BY <1>2 DEF Record, TimerFlush, closed, closeVars, Ending
<1>3. CASE RecordAfterClose \/ StoreChanges \/ UNCHANGED vars
  BY <1>3 DEF RecordAfterClose, StoreChanges, vars, queueVars, flushVars, closeVars,
              Ending, inFlight
<1>4. CASE TrailSettled
  <2>1. /\ inFlight /\ batch' = <<>> /\ UNCHANGED <<persisted, closeVars>>
        /\ persisted => queue' = queue
    BY <1>4 DEF TrailSettled, Conclude
  <2> QED
    BY <1>1, <2>1 DEF Ending, inFlight, closeVars
<1>5. CASE Close
  BY <1>5 DEF Close, Ending
<1>6. CASE CloseRound
  <2> DEFINE t == Taken(queue)  l == Left(queue)
  <2>1. /\ queue # <<>> /\ closer' = "draining" /\ before' = Len(queue)
        /\ DoFlush(queue, dropped)
    BY <1>6 DEF CloseRound
  <2>2. /\ t \in Seq(Nat) /\ l \in Seq(Nat) /\ Len(t) \in Nat /\ Len(l) \in Nat
        /\ Len(t) + Len(l) = Len(queue)
    BY <1>1, SpliceLength
  <2>3. Len(t) > 0
    <3>1. Least(MaxBatch, Len(queue)) \in Nat /\ Least(MaxBatch, Len(queue)) > 0
          /\ Least(MaxBatch, Len(queue)) <= Len(queue)
      BY <1>1, <2>1, SinkAssumption DEF Least
    <3> QED
      BY <1>1, <3>1, SubSeqProperties DEF Taken
  <2>4. Len(l) < Len(queue)
    BY <1>1, <2>2, <2>3
  <2>5. CASE hasTrail
    BY <2>1, <2>4, <2>5 DEF DoFlush, Ending
  <2>6. CASE ~hasTrail
    <3>1. batch' = <<>> /\ persisted' = storeUp /\ Conclude(l, t, storeUp, dropped)
      BY <2>1, <2>6 DEF DoFlush
    <3>2. storeUp => queue' = l
      BY <3>1 DEF Conclude
    <3> QED
      BY <2>1, <2>4, <3>1, <3>2 DEF Ending, inFlight
  <2> QED
    BY <2>5, <2>6
<1>7. CASE CloseDone
  <2>1. /\ closer' = "closed" /\ ~inFlight /\ (queue = <<>> \/ NoProgress)
        /\ UNCHANGED <<queue, batch, persisted>>
    BY <1>7 DEF CloseDone, queueVars, flushVars
  <2>2. NoProgress => ~persisted
    BY <1>1 DEF NoProgress, Ending
  <2> QED
    BY <2>1, <2>2 DEF Ending, inFlight
<1> QED
  BY <1>2, <1>3, <1>4, <1>5, <1>6, <1>7 DEF Next

-----------------------------------------------------------------------------

Honest == Books /\ Orderly /\ LostFirst /\ Ending

LEMMA HonestInit == Init => Honest
PROOF
<1> SUFFICES ASSUME Init
             PROVE  Honest
  OBVIOUS
<1>1. Books
  BY BooksInit
<1>2. stored = <<>> /\ Unwritten = <<>> /\ queue = <<>>
  BY DEF Init, Unwritten
<1>3. Stored = {} /\ Flying = {} /\ Queued = {} /\ Increasing(<<>>)
  BY <1>2, EmptyOrder DEF Stored, Flying, Queued
<1>4. Orderly /\ LostFirst
  BY <1>2, <1>3 DEF Orderly, LostFirst, Below, Known
<1>5. Ending
  BY DEF Init, Ending
<1> QED
  BY <1>1, <1>4, <1>5 DEF Honest

(***************************************************************************)
(* Every step keeps the invariant and moves records as the ledger allows,  *)
(* or concerns no record at all.                                           *)
(***************************************************************************)
LEMMA HonestNext ==
    ASSUME Honest, [Next]_vars
    PROVE  Honest' /\ ((\E shed : Moves(shed)) \/ UNCHANGED <<accepted, dropped, stored, Lost>>)
PROOF
<1> USE DEF Honest
<1>1. Books' /\ Ending'
  BY BooksNext, EndingNext
<1>2. CASE Record
  BY <1>1, <1>2, RecordOrder
<1>3. CASE TimerFlush \/ CloseRound
  <2>1. ~inFlight /\ DoFlush(queue, dropped) /\ UNCHANGED accepted
    BY <1>3 DEF TimerFlush, CloseRound, arrivalVars
  <2> QED
    BY <1>1, <2>1, QueueFlushOrder
<1>4. CASE TrailSettled
  BY <1>1, <1>4, SettleOrder
<1>5. CASE RecordAfterClose \/ Close \/ CloseDone \/ StoreChanges \/ UNCHANGED vars
  <2>1. UNCHANGED <<accepted, queueVars, flushVars>>
    BY <1>5 DEF RecordAfterClose, Close, CloseDone, StoreChanges, vars, arrivalVars
  <2>2. UNCHANGED <<accepted, dropped, stored, queue, Unwritten>>
    BY <2>1 DEF queueVars, flushVars, Unwritten
  <2>3. UNCHANGED <<Stored, Flying, Queued, Known, Lost>>
    BY <2>2 DEF Stored, Flying, Queued, Known, Lost
  <2>4. Orderly' /\ LostFirst'
    BY <2>2, <2>3 DEF Orderly, LostFirst
  <2> QED
    BY <1>1, <2>2, <2>3, <2>4
<1> QED
  BY <1>2, <1>3, <1>4, <1>5 DEF Next

(***************************************************************************)
(* The store receives records in the order requests finished and none      *)
(* twice, what is dropped is the oldest, and close() leaves a record only  *)
(* to a store that refused (server/ingest/sink.ts).                        *)
(***************************************************************************)
THEOREM SinkQueueHonest == Spec => []QueueHonest
PROOF
<1>1. ASSUME Honest
      PROVE  QueueHonest
  <2>1. stored \in Seq(Nat) /\ Unwritten \in Seq(Nat) /\ queue \in Seq(Nat)
    BY <1>1, EmptySeq DEF Honest, Books, TypeOK, Unwritten
  <2>2. /\ stored \o Unwritten \in Seq(Nat)
        /\ Elements(stored \o Unwritten) = Stored \cup Flying
        /\ Increasing(stored \o Unwritten)
    BY <1>1, <2>1, ConcatOrder, ConcatProperties DEF Honest, Orderly, Stored, Flying
  <2>3. Below(Stored \cup Flying, Queued)
    BY <1>1 DEF Honest, Orderly, Below
  <2>4. InOrder
    BY <1>1, <2>1, <2>2, <2>3, ConcatOrder DEF InOrder, Honest, Orderly, Queued
  <2>5. DropsOldest
    BY <1>1 DEF DropsOldest, Honest, LostFirst, Below, Queued
  <2>6. CloseDrains
    BY <1>1 DEF CloseDrains, Honest, Ending
  <2> QED
    BY <2>4, <2>5, <2>6 DEF QueueHonest
<1> QED
  BY <1>1, HonestInit, HonestNext, PTL DEF Spec

(***************************************************************************)
(* The sink implements the ledger: whatever is queued, retried or dropped, *)
(* each step accepts at most one record, stores the oldest of those still  *)
(* unsettled, and counts what it gives up.                                 *)
(***************************************************************************)
THEOREM SinkImplementsLedger == Spec => LedgerSpec
PROOF
<1>1. Init => Ledger!Init
  <2> SUFFICES ASSUME Init
               PROVE  Ledger!Init
    OBVIOUS
  <2>1. accepted = 0 /\ dropped = 0 /\ Elements(stored) = {}
    BY EmptyOrder DEF Init
  <2>2. Lost = {}
    BY <2>1 DEF Lost
  <2> QED
    BY <2>1, <2>2 DEF Ledger!Init
<1>2. ASSUME Honest, Honest', [Next]_vars
      PROVE  [Ledger!Settle]_(Ledger!vars)
  <2>1. CASE UNCHANGED <<accepted, dropped, stored, Lost>>
    BY <2>1 DEF Ledger!vars
  <2>2. ASSUME NEW shed, Moves(shed)
        PROVE  Ledger!Settle
    <3> DEFINE fresh == (accepted + 1)..accepted'
               newly == Stored' \ Stored
               unsettled == (1..accepted') \ (Stored \cup Lost)
    <3>1. /\ TypeOK /\ Orderly /\ Orderly' /\ accepted \in Nat /\ dropped \in Nat
          /\ Known \subseteq 1..accepted
      BY <1>2 DEF Honest, Books, TypeOK, Orderly
    <3>2. Lost' = Lost \cup shed /\ Known' \subseteq 1..accepted'
      BY <2>2, <3>1, LostMoves
    <3>3. Lost = (1..accepted) \ Known
      BY DEF Lost, Known, Stored, Flying, Queued
    <3>4. /\ 1..accepted' = (1..accepted) \cup fresh
          /\ (1..accepted) \cap fresh = {}
      BY <2>2, <3>1 DEF Moves
    <3>disjoint. Stored \cap (Flying \cup Queued) = {}
      <4>1. \A x \in Stored : x \in Nat
        BY <3>1 DEF Known
      <4> QED
        BY <3>1, <4>1 DEF Orderly, Below
    <3>5. unsettled = Flying \cup Queued \cup fresh
      BY <3>1, <3>3, <3>4, <3>disjoint DEF Known
    <3>6. /\ shed \subseteq unsettled
          /\ Known' = (Known \ shed) \cup fresh
      BY <2>2, <3>5 DEF Moves
    <3>7. newly \subseteq unsettled /\ newly \cap shed = {}
      <4>1. shed \cap fresh = {}
        BY <2>2, <3>1, <3>4 DEF Moves, Known
      <4>2. Stored' \subseteq (Known \ shed) \cup fresh
        BY <3>6 DEF Known
      <4> QED
        BY <3>5, <4>1, <4>2 DEF Known
    <3>8. unsettled \ (newly \cup shed) \subseteq Flying' \cup Queued'
      <4>1. ASSUME NEW u \in unsettled \ (newly \cup shed)
            PROVE  u \in Flying' \cup Queued'
        <5>1. u \in Known'
          BY <3>5, <3>6, <4>1 DEF Known
        <5>2. u \notin Stored'
          BY <4>1
        <5> QED
          BY <5>1, <5>2 DEF Known
      <4> QED
        BY <4>1
    <3>9. \A w \in newly, u \in unsettled \ (newly \cup shed) : w < u
      BY <3>1, <3>8 DEF Orderly, Below
    <3>10. Stored' = Stored \cup newly /\ dropped' = dropped + Cardinality(shed)
      BY <2>2 DEF Moves
    <3> HIDE DEF newly, unsettled
    <3>11. \E w, s \in SUBSET unsettled :
              /\ w \cap s = {}
              /\ \A x \in w, u \in unsettled \ (w \cup s) : x < u
              /\ Stored' = Stored \cup w
              /\ Lost' = Lost \cup s
              /\ dropped' = dropped + Cardinality(s)
      BY <3>2, <3>6, <3>7, <3>9, <3>10
    <3>12. accepted' \in {accepted, accepted + 1}
      BY <2>2 DEF Moves
    <3>13. \A S : Ledger!Cardinality(S) = Cardinality(S)
      BY DEF Cardinality, Ledger!Cardinality
    <3> QED
      BY <3>11, <3>12, <3>13 DEF unsettled, Stored, Ledger!Settle
  <2> QED
    BY <1>2, <2>1, <2>2, HonestNext
<1>3. ASSUME Honest, [Next]_vars
      PROVE  Honest' /\ [Ledger!Settle]_(Ledger!vars)
  BY <1>2, <1>3, HonestNext
<1> QED
  BY <1>1, <1>3, HonestInit, PTL DEF Spec, LedgerSpec, Ledger!Spec
=============================================================================
