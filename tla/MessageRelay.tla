---------------------------- MODULE MessageRelay ----------------------------
(***************************************************************************)
(* One model request through the pass-through relay: handleMessages of     *)
(* server/pipeline/passthrough.ts, pipeWithTee and beginStream of          *)
(* server/http/pipe.ts, and the catch of server/http/server.ts that an     *)
(* error thrown by handleMessages ends in.                                 *)
(*                                                                         *)
(* `pc` names the await the handler is suspended at; what runs between two *)
(* awaits is one action.  Everything else is the environment: the client,  *)
(* who may hang up at any moment; the socket to it, which holds HighWater  *)
(* chunks before res.write asks for a drain; and the upstream, which       *)
(* answers with a refusal, a JSON body or a stream, and may fail at any    *)
(* point.  A chunk is reduced to the one event that matters in it.         *)
(*                                                                         *)
(* Of node:http the model uses: res.write queues a chunk and returns false *)
(* when the queue has reached its mark; "drain" is emitted once, when the  *)
(* queue has emptied after such a write; "close" is emitted once, when the *)
(* client goes, and "drain" never after it; a write to a closed response   *)
(* is discarded and returns false.                                         *)
(***************************************************************************)
EXTENDS Integers, Sequences

CONSTANTS
    RequireIdentity,  \* FEST_REQUIRE_IDENTITY
    WireSaysTerminal, \* whether the accumulator of the wire has sawTerminal
    HighWater,        \* chunks the socket queues before write returns false
    MaxChunks         \* bound of the model: chunks of one upstream stream

ASSUME RelayAssumption ==
    /\ RequireIdentity \in BOOLEAN
    /\ WireSaysTerminal \in BOOLEAN
    /\ HighWater \in Nat \ {0}
    /\ MaxChunks \in Nat

Event == {"data", "terminal", "error"}
Status == {"ok", "identity_denied", "bad_request", "upstream_error",
           "preflight_refused", "client_abort", "stream_error"}

VARIABLES
    identity,  \* the token presented: "resolved", "dead", or "none"
    paid,      \* whether the request can be forwarded: it carries an upstream
               \* credential, or its credential position is not our own token
    pc,        \* the await the handler is suspended at, or "done"
    client,    \* "here" or "gone"
    upstream,  \* "idle", "asked", "open", "ended", "failed" or "cancelled"
    relayed,   \* chunks given to res.write
    buffered,  \* chunks the socket has not sent yet
    drainOwed, \* whether the socket owes a "drain" event
    chunk,     \* the event of the chunk being relayed
    observed,  \* chunks the observer has seen, or thrown at
    terminal,  \* acc.sawTerminal()
    streamErr, \* acc.streamError() # null
    aborted,   \* clientAborted
    failing,   \* whether pipeWithTee is on its way to rethrow
    records,   \* what finish() handed to the sink
    answer     \* how the response ended: "none", "own", "upstream", "frame"

request     == <<identity, paid>>
socket      == <<client, buffered, drainOwed>>
accumulator == <<observed, terminal, streamErr>>
pipe        == <<relayed, chunk, aborted, failing>>
outcome     == <<records, answer>>
relayVars == <<request, pc, upstream, socket, accumulator, pipe, outcome>>

streaming == pc \in {"read", "drain"}
Finish(status, partial) ==
    records' = Append(records, [status |-> status, partial |-> partial])

-----------------------------------------------------------------------------

RelayInit ==
    /\ identity \in {"resolved", "dead", "none"}
    /\ paid \in BOOLEAN
    /\ pc = "start"
    /\ client = "here"
    /\ upstream = "idle"
    /\ relayed = 0
    /\ buffered = 0
    /\ drainOwed = FALSE
    /\ chunk = "data"
    /\ observed = 0
    /\ terminal = FALSE
    /\ streamErr = FALSE
    /\ aborted = FALSE
    /\ failing = FALSE
    /\ records = <<>>
    /\ answer = "none"

Denied == identity = "dead" \/ (RequireIdentity /\ identity = "none")

\* bug: no return after the denial
DenyIdentityGoesOn ==
    /\ pc = "start"
    /\ Denied
    /\ Finish("identity_denied", FALSE)
    /\ answer' = "own"
    /\ pc' = "body"
    /\ UNCHANGED <<request, upstream, socket, accumulator, pipe>>

(***************************************************************************)
(* A token that does not resolve is always refused, a missing one when the *)
(* deployment requires identity.  Otherwise the body is read next.         *)
(***************************************************************************)
DenyIdentity ==
    /\ pc = "start"
    /\ Denied
    /\ Finish("identity_denied", FALSE)
    /\ answer' = "own"
    /\ pc' = "done"
    /\ UNCHANGED <<request, upstream, socket, accumulator, pipe>>

ReadBody ==
    /\ pc = "start"
    /\ ~Denied
    /\ pc' = "body"
    /\ UNCHANGED <<request, upstream, socket, accumulator, pipe, outcome>>

(***************************************************************************)
(* The body has been read: it is too large, or nothing can be forwarded    *)
(* for it, or it goes upstream.                                            *)
(***************************************************************************)
RefuseBody ==
    /\ pc = "body"
    /\ Finish("bad_request", FALSE)
    /\ answer' = "own"
    /\ pc' = "done"
    /\ UNCHANGED <<request, upstream, socket, accumulator, pipe>>

Fetch ==
    /\ pc = "body"
    /\ paid
    /\ pc' = "fetch"
    /\ upstream' = "asked"
    /\ UNCHANGED <<request, socket, accumulator, pipe, outcome>>

(***************************************************************************)
(* The client hangs up in the middle of its body: the read rejects, and    *)
(* the catch of the server answers nobody.                                 *)
(***************************************************************************)
BodyRejects ==
    /\ pc = "body"
    /\ client = "gone"
    /\ pc' = "done"
    /\ UNCHANGED <<request, upstream, socket, accumulator, pipe, outcome>>

(***************************************************************************)
(* fetch settles: rejected, or resolved with the headers of a refusal or a *)
(* JSON body, which is buffered whole, or of a stream.                     *)
(***************************************************************************)
FetchRejects ==
    /\ pc = "fetch"
    /\ upstream' = "failed"
    /\ Finish("upstream_error", FALSE)
    /\ answer' = "own"
    /\ pc' = "done"
    /\ UNCHANGED <<request, socket, accumulator, pipe>>

FetchResolves ==
    /\ pc = "fetch"
    /\ upstream' = "open"
    /\ pc' \in {"refusal", "text", "read"}
    /\ UNCHANGED <<request, socket, accumulator, pipe, outcome>>

TextResolves ==
    /\ pc \in {"refusal", "text"}
    /\ upstream' = "ended"
    /\ \E status \in IF pc = "text" THEN {"ok"} ELSE {"upstream_error", "preflight_refused"} :
          Finish(status, FALSE)
    /\ answer' = "upstream"
    /\ pc' = "done"
    /\ UNCHANGED <<request, socket, accumulator, pipe>>

(***************************************************************************)
(* The upstream dies while its body is being buffered: upstream.text()     *)
(* rejects, handleMessages with it, and the server's catch answers 500.    *)
(***************************************************************************)
TextRejects ==
    /\ pc \in {"refusal", "text"}
    /\ upstream' = "failed"
    /\ answer' = "own"
    /\ pc' = "done"
    /\ UNCHANGED <<request, socket, accumulator, pipe, records>>

-----------------------------------------------------------------------------
(* pipeWithTee.  Its close listener is attached while pc is "read" or      *)
(* "drain" (`streaming`).                                                  *)

EndsAnswer(e) == e = "terminal" /\ WireSaysTerminal

(***************************************************************************)
(* The observer is handed the chunk: the accumulator applies its event, or *)
(* throws, which is counted and goes no further.                           *)
(***************************************************************************)
Observe(e) ==
    /\ observed' = observed + 1
    /\ \/ /\ terminal' = (terminal \/ EndsAnswer(e))
          /\ streamErr' = (streamErr \/ e = "error")
       \/ UNCHANGED <<terminal, streamErr>>

\* bug: every write waits for a drain, the ones that fitted included
FullAlways == TRUE

(***************************************************************************)
(* Whether res.write returns false, and the handler must wait for a drain. *)
(***************************************************************************)
Full == client = "gone" \/ buffered + 1 >= HighWater

(***************************************************************************)
(* A chunk arrives: it is written to the client first, and then observed,  *)
(* at once or after the drain.                                             *)
(***************************************************************************)
ReadChunk(e) ==
    /\ pc = "read"
    /\ upstream = "open"
    /\ ~aborted
    /\ relayed < MaxChunks
    /\ relayed' = relayed + 1
    /\ chunk' = e
    /\ buffered' = IF client = "here" THEN buffered + 1 ELSE buffered
    /\ drainOwed' = (drainOwed \/ (client = "here" /\ buffered + 1 >= HighWater))
    /\ \/ /\ Full
          /\ pc' = "drain"
          /\ UNCHANGED accumulator
       \/ /\ ~Full
          /\ Observe(e)
          /\ UNCHANGED pc
    /\ UNCHANGED <<request, upstream, client, aborted, failing, outcome>>

(***************************************************************************)
(* The socket sends a chunk, and emits "drain" once it has sent them all;  *)
(* a handler waiting for that observes its chunk and reads on.             *)
(***************************************************************************)
SocketSends ==
    /\ client = "here"
    /\ buffered > 0
    /\ buffered' = buffered - 1
    /\ UNCHANGED <<request, pc, upstream, client, drainOwed, accumulator, pipe, outcome>>

Drain ==
    /\ client = "here"
    /\ buffered = 0
    /\ drainOwed
    /\ drainOwed' = FALSE
    /\ \/ /\ pc = "drain"
          /\ pc' = "read"
          /\ Observe(chunk)
       \/ /\ pc # "drain"
          /\ UNCHANGED <<pc, accumulator>>
    /\ UNCHANGED <<request, upstream, client, buffered, pipe, outcome>>

(***************************************************************************)
(* The client goes.  While the listener is attached it takes note and      *)
(* aborts the fetch.                                                       *)
(***************************************************************************)
HangUp ==
    /\ client = "here"
    /\ pc # "done"
    /\ client' = "gone"
    /\ buffered' = 0
    /\ drainOwed' = FALSE
    /\ aborted' = (aborted \/ streaming)
    /\ upstream' = IF streaming /\ upstream = "open" THEN "cancelled" ELSE upstream
    /\ UNCHANGED <<request, pc, accumulator, relayed, chunk, failing, outcome>>

\* bug: a hang-up after the terminal event counts as an abort
ConcludeTerminalUnseen ==
    /\ pc' = "done"
    /\ Finish(IF aborted THEN "client_abort"
              ELSE IF failing \/ streamErr THEN "stream_error" ELSE "ok", aborted \/ failing)
    /\ answer' = IF failing THEN "frame" ELSE "upstream"

(***************************************************************************)
(* The stream is over.  A read that ends after the client has gone, or     *)
(* rejects then, is an abort; one that rejects otherwise is rethrown.      *)
(* Unless the stream ran to its end, what is left of it is cancelled,      *)
(* which is awaited.  A read that still yields a chunk after an abort      *)
(* leaves the loop as a rejected one does.                                 *)
(***************************************************************************)
finished == ~aborted \/ terminal

ConcludeRelay ==
    /\ pc' = "done"
    /\ \/ /\ ~failing
          /\ Finish(IF aborted /\ ~finished THEN "client_abort"
                    ELSE IF streamErr THEN "stream_error" ELSE "ok", ~finished)
          /\ answer' = IF aborted THEN answer ELSE "upstream"
       \/ /\ failing
          /\ Finish("stream_error", TRUE)
          /\ answer' = "frame"

ReadEnds ==
    /\ pc = "read"
    /\ upstream = "open"
    /\ upstream' = "ended"
    /\ ConcludeRelay
    /\ UNCHANGED <<request, socket, accumulator, pipe>>

ReadRejects ==
    /\ pc = "read"
    /\ upstream \in {"open", "cancelled"}
    /\ upstream' = IF upstream = "open" THEN "failed" ELSE upstream
    /\ failing' = ~aborted
    /\ pc' = "cancel"
    /\ UNCHANGED <<request, socket, accumulator, relayed, chunk, aborted, outcome>>

Cancelled ==
    /\ pc = "cancel"
    /\ ConcludeRelay
    /\ UNCHANGED <<request, upstream, socket, accumulator, pipe>>

Handler == DenyIdentity \/ ReadBody \/ Fetch \/ Cancelled
Upstream ==
    \/ FetchRejects \/ FetchResolves
    \/ TextResolves \/ TextRejects
    \/ \E e \in Event : ReadChunk(e)
    \/ ReadEnds \/ ReadRejects

RelayNext ==
    \/ Handler
    \/ RefuseBody \/ BodyRejects
    \/ Upstream
    \/ SocketSends \/ Drain
    \/ HangUp

RelaySpec == RelayInit /\ [][RelayNext]_relayVars

(***************************************************************************)
(* The handler runs on when what it awaits has settled, the upstream goes  *)
(* on until its stream has ended or failed, and the socket of a client who *)
(* is there empties.  Nothing obliges a client to hang up.                 *)
(***************************************************************************)
FairRelay ==
    /\ RelaySpec
    /\ WF_relayVars(Handler \/ RefuseBody \/ BodyRejects)
    /\ WF_relayVars(Upstream)
    /\ WF_relayVars(SocketSends)
    /\ WF_relayVars(Drain)

-----------------------------------------------------------------------------

RelayTypeOK ==
    /\ identity \in {"resolved", "dead", "none"}
    /\ paid \in BOOLEAN
    /\ pc \in {"start", "body", "fetch", "refusal", "text", "read", "drain", "cancel", "done"}
    /\ client \in {"here", "gone"}
    /\ upstream \in {"idle", "asked", "open", "ended", "failed", "cancelled"}
    /\ relayed \in 0..MaxChunks
    /\ buffered \in Nat
    /\ drainOwed \in BOOLEAN
    /\ chunk \in Event
    /\ observed \in 0..MaxChunks
    /\ terminal \in BOOLEAN
    /\ streamErr \in BOOLEAN
    /\ aborted \in BOOLEAN
    /\ failing \in BOOLEAN
    /\ records \in Seq([status : Status, partial : BOOLEAN])
    /\ answer \in {"none", "own", "upstream", "frame"}

(***************************************************************************)
(* A request is recorded at most once, and one that ends without a record  *)
(* is one whose body the client abandoned or whose buffered answer the     *)
(* upstream did: no other way through the handler loses a request or       *)
(* counts it twice.                                                        *)
(***************************************************************************)
RecordedOnce ==
    /\ Len(records) <= 1
    /\ pc = "done" /\ records = <<>> =>
          (upstream = "idle" /\ client = "gone") \/ (upstream = "failed" /\ relayed = 0)

(***************************************************************************)
(* A record's status is true: "ok" means the upstream finished its answer  *)
(* or was seen to end it, "client_abort" that the client went before that, *)
(* and only an answer cut short is marked partial.                         *)
(***************************************************************************)
StatusTruthful ==
    \A i \in DOMAIN records :
        LET r == records[i]
        IN  /\ r.status = "ok" => upstream = "ended" \/ terminal
            /\ r.status = "client_abort" => client = "gone" /\ upstream = "cancelled" /\ ~terminal
            /\ r.partial => upstream \in {"failed", "cancelled"}

(***************************************************************************)
(* The record tells what happened.  Its status is true; what was relayed   *)
(* was metered: when a stream's record is made, every chunk the client was *)
(* sent has been handed to the observer; and a slow client does not become *)
(* memory growth meanwhile (pipe.ts:48-50).                                *)
(***************************************************************************)
RelayedIsMetered == records # <<>> => observed = relayed
SocketBounded == buffered <= HighWater

RecordTruthful == RelayTypeOK /\ StatusTruthful /\ RelayedIsMetered /\ SocketBounded

(***************************************************************************)
(* A client who stays is answered, whatever the upstream does.             *)
(***************************************************************************)
PatientClientAnswered == [](client = "here") => <>(answer # "none")
=============================================================================
