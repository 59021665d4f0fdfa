------------------------------ MODULE Cluster -------------------------------
(***************************************************************************)
(* `fest serve` with FEST_WORKERS > 1: the life of its processes and the   *)
(* way of a usage record from the worker that relayed the request to the   *)
(* store, which only the primary writes.  server/cluster/primary.ts,       *)
(* server/cluster/worker.ts, and serveWorker and startHttp of              *)
(* server/bin/fest.ts.                                                     *)
(*                                                                         *)
(* A record is the request it is about.  It passes from `open` (in flight) *)
(* through the worker's sink, the link (sent, but not yet out of the       *)
(* process), the pipe and the primary's sink to the store.  The two sinks  *)
(* are modelled by what UsageSink shows of them with a store that is up;   *)
(* each flush may take any part of its queue.                              *)
(*                                                                         *)
(* Of node:cluster the model uses: a worker exits when the primary is      *)
(* gone, and the primary reads what a worker left in its pipe before it is *)
(* told that the worker has exited.                                        *)
(***************************************************************************)
EXTENDS Integers, FiniteSets

CONSTANTS
    Worker,      \* worker slots: cfg.workers of them are forked
    Request,     \* model requests clients send
    MaxExits     \* bound of the model: worker exits while the primary serves

ASSUME ClusterAssumption ==
    /\ IsFiniteSet(Worker)
    /\ MaxExits \in Nat

VARIABLES
    primary,  \* "serving", "stopping" (shutdown called), "closing" (finish
              \* called: its sink is closed to new records), or "exited"
    worker,   \* worker -> "up", "draining" (shutdown called), "leaving" (sink
              \* closed), "dead", "gone" (exit noticed) or "respawn" (timer set)
    open,     \* worker -> requests in flight
    local,    \* worker -> records in its sink
    link,     \* worker -> records sent whose send has not completed
    pipe,     \* worker -> records in the channel, not yet read
    queue,    \* records in the primary's sink
    stored,   \* records in the database
    lost,     \* records no process has any more
    calm,     \* whether nothing has crashed, been killed or timed out
    exits     \* how many workers have exited while the primary served

places == <<open, local, link, pipe, queue, stored, lost>>
vars == <<primary, worker, places, calm, exits>>

shuttingDown == primary # "serving"
running(w) == worker[w] \in {"up", "draining", "leaving"}

Held(f) == UNION {f[w] : w \in Worker}
Sent == Held(open) \cup Held(local) \cup Held(link) \cup Held(pipe) \cup queue \cup stored \cup lost

-----------------------------------------------------------------------------

Init ==
    /\ primary = "serving"
    /\ worker = [w \in Worker |-> "up"]
    /\ open = [w \in Worker |-> {}]
    /\ local = [w \in Worker |-> {}]
    /\ link = [w \in Worker |-> {}]
    /\ pipe = [w \in Worker |-> {}]
    /\ queue = {}
    /\ stored = {}
    /\ lost = {}
    /\ calm = TRUE
    /\ exits = 0

(***************************************************************************)
(* A client's request is accepted by a worker, and later ends: its record  *)
(* enters the worker's sink, or finds it closed.                           *)
(***************************************************************************)
Accept(w, r) ==
    /\ worker[w] = "up"
    /\ r \notin Sent
    /\ open' = [open EXCEPT ![w] = @ \cup {r}]
    /\ UNCHANGED <<primary, worker, local, link, pipe, queue, stored, lost, calm, exits>>

RequestEnds(w, r) ==
    /\ running(w)
    /\ r \in open[w]
    /\ open' = [open EXCEPT ![w] = @ \ {r}]
    /\ \/ /\ worker[w] # "leaving"
          /\ local' = [local EXCEPT ![w] = @ \cup {r}]
          /\ UNCHANGED lost
       \/ /\ worker[w] = "leaving"
          /\ lost' = lost \cup {r}
          /\ UNCHANGED local
    /\ UNCHANGED <<primary, worker, link, pipe, queue, stored, calm, exits>>

(***************************************************************************)
(* A flush of the worker's sink hands a batch to process.send, which       *)
(* completes once the batch is in the channel.                             *)
(***************************************************************************)
Flush(w, batch) ==
    /\ worker[w] \in {"up", "draining"}
    /\ local' = [local EXCEPT ![w] = @ \ batch]
    /\ link' = [link EXCEPT ![w] = @ \cup batch]
    /\ UNCHANGED <<primary, worker, open, pipe, queue, stored, lost, calm, exits>>

\* bug: a batch is taken off only when the next one has been sent
SendRepeats(w) ==
    /\ running(w)
    /\ link[w] # {}
    /\ pipe' = [pipe EXCEPT ![w] = @ \cup link[w]]
    /\ UNCHANGED <<primary, worker, open, local, link, queue, stored, lost, calm, exits>>

SendCompletes(w) ==
    /\ running(w)
    /\ link[w] # {}
    /\ pipe' = [pipe EXCEPT ![w] = @ \cup link[w]]
    /\ link' = [link EXCEPT ![w] = {}]
    /\ UNCHANGED <<primary, worker, open, local, queue, stored, lost, calm, exits>>

(***************************************************************************)
(* The primary reads a worker's usage messages into its own sink, which    *)
(* refuses them once it is closed; a flush of that sink stores a batch.    *)
(***************************************************************************)
Receive(w) ==
    /\ primary # "exited"
    /\ pipe[w] # {}
    /\ pipe' = [pipe EXCEPT ![w] = {}]
    /\ \/ /\ primary # "closing"
          /\ queue' = queue \cup pipe[w]
          /\ UNCHANGED lost
       \/ /\ primary = "closing"
          /\ lost' = lost \cup pipe[w]
          /\ UNCHANGED queue
    /\ UNCHANGED <<primary, worker, open, local, link, stored, calm, exits>>

Store(batch) ==
    /\ primary # "exited"
    /\ stored' = stored \cup batch
    /\ queue' = queue \ batch
    /\ UNCHANGED <<primary, worker, open, local, link, pipe, lost, calm, exits>>

-----------------------------------------------------------------------------
(* A worker stops.                                                         *)

(***************************************************************************)
(* shutdown() of startHttp, on SIGTERM or SIGINT, from the primary or from *)
(* the terminal: the server stops accepting.                               *)
(***************************************************************************)
Signal(w) ==
    /\ worker[w] = "up"
    /\ worker' = [worker EXCEPT ![w] = "draining"]
    /\ UNCHANGED <<primary, places, calm, exits>>

(***************************************************************************)
(* finish() of startHttp: when the last request has ended, or when the     *)
(* grace has expired and the connections still open have been closed.      *)
(* sink.close() sends what is left; a worker's sink has no trail to wait   *)
(* for, so it is done at once.                                             *)
(***************************************************************************)
CloseSink(w) ==
    /\ worker' = [worker EXCEPT ![w] = "leaving"]
    /\ link' = [link EXCEPT ![w] = @ \cup local[w]]
    /\ local' = [local EXCEPT ![w] = {}]

Drained(w) ==
    /\ worker[w] = "draining"
    /\ open[w] = {}
    /\ CloseSink(w)
    /\ UNCHANGED <<primary, open, pipe, queue, stored, lost, calm, exits>>

GraceExpires(w) ==
    /\ worker[w] = "draining"
    /\ open[w] # {}
    /\ CloseSink(w)
    /\ calm' = FALSE
    /\ UNCHANGED <<primary, open, pipe, queue, stored, lost, exits>>

(***************************************************************************)
(* The process ends: requests still in flight and records still in its     *)
(* memory go with it.                                                      *)
(***************************************************************************)
Die(dying) ==
    /\ worker' = [w \in Worker |-> IF w \in dying THEN "dead" ELSE worker[w]]
    /\ lost' = lost \cup UNION {open[w] \cup local[w] \cup link[w] : w \in dying}
    /\ open' = [w \in Worker |-> IF w \in dying THEN {} ELSE open[w]]
    /\ local' = [w \in Worker |-> IF w \in dying THEN {} ELSE local[w]]
    /\ link' = [w \in Worker |-> IF w \in dying THEN {} ELSE link[w]]

\* bug: the exit does not wait for what the final flush has sent
ExitAtOnce(w) ==
    /\ worker[w] = "leaving"
    /\ primary = "serving" => exits < MaxExits
    /\ exits' = IF primary = "serving" THEN exits + 1 ELSE exits
    /\ Die({w})
    /\ UNCHANGED <<primary, pipe, queue, stored, calm>>

(***************************************************************************)
(* drained(): the worker exits when every send has completed, or after two *)
(* seconds, whatever it still holds.                                       *)
(***************************************************************************)
Exit(w) ==
    /\ worker[w] = "leaving"
    /\ link[w] = {} /\ open[w] = {}
    /\ primary = "serving" => exits < MaxExits
    /\ exits' = IF primary = "serving" THEN exits + 1 ELSE exits
    /\ Die({w})
    /\ UNCHANGED <<primary, pipe, queue, stored, calm>>

ExitHasty(w) ==
    /\ worker[w] = "leaving"
    /\ link[w] # {} \/ open[w] # {}
    /\ primary = "serving" => exits < MaxExits
    /\ exits' = IF primary = "serving" THEN exits + 1 ELSE exits
    /\ Die({w})
    /\ calm' = FALSE
    /\ UNCHANGED <<primary, pipe, queue, stored>>

Crash(w) ==
    /\ running(w)
    /\ primary = "serving" => exits < MaxExits
    /\ exits' = IF primary = "serving" THEN exits + 1 ELSE exits
    /\ Die({w})
    /\ calm' = FALSE
    /\ UNCHANGED <<primary, pipe, queue, stored>>

\* bug: only a crash is followed by a respawn
NoticeExitOnce(w) ==
    /\ primary # "exited"
    /\ worker[w] = "dead"
    /\ pipe[w] = {}
    /\ worker' = [worker EXCEPT ![w] = IF shuttingDown \/ calm THEN "gone" ELSE "respawn"]
    /\ UNCHANGED <<primary, places, calm, exits>>

(***************************************************************************)
(* The exit event: the primary sets a timer to fork another worker, and,   *)
(* when it fires, forks it, unless it is shutting down by then.            *)
(***************************************************************************)
NoticeExit(w) ==
    /\ primary # "exited"
    /\ worker[w] = "dead"
    /\ pipe[w] = {}
    /\ worker' = [worker EXCEPT ![w] = IF shuttingDown THEN "gone" ELSE "respawn"]
    /\ UNCHANGED <<primary, places, calm, exits>>
Fork(w) ==
    /\ ~shuttingDown
    /\ worker[w] = "respawn"
    /\ worker' = [worker EXCEPT ![w] = "up"]
    /\ UNCHANGED <<primary, places, calm, exits>>

-----------------------------------------------------------------------------
(* The primary stops.                                                      *)

live == {w \in Worker : running(w) \/ worker[w] = "dead"}

(***************************************************************************)
(* shutdown(): the workers that live are told to stop.                     *)
(***************************************************************************)
Shutdown ==
    /\ primary = "serving"
    /\ primary' = "stopping"
    /\ worker' = [w \in Worker |-> IF worker[w] = "up" THEN "draining" ELSE worker[w]]
    /\ UNCHANGED <<places, calm, exits>>

(***************************************************************************)
(* The 50 ms check: finish() once the primary has noticed every exit.      *)
(***************************************************************************)
WorkersGone ==
    /\ primary = "stopping"
    /\ live = {}
    /\ primary' = "closing"
    /\ UNCHANGED <<worker, places, calm, exits>>

\* bug: no deadline for the workers
WaitsForever == FALSE /\ UNCHANGED vars

(***************************************************************************)
(* The deadline: workers that have outlived their own grace are killed,    *)
(* and finish() does not wait for them.                                    *)
(***************************************************************************)
ForceStop ==
    /\ primary = "stopping"
    /\ live # {}
    /\ primary' = "closing"
    /\ Die({w \in Worker : running(w)})
    /\ calm' = FALSE
    /\ UNCHANGED <<pipe, queue, stored, exits>>

(***************************************************************************)
(* The sink has drained into the store, and the primary exits.  What still *)
(* sits in a pipe is never read.                                           *)
(***************************************************************************)
PrimaryExits ==
    /\ primary = "closing"
    /\ primary' = "exited"
    /\ stored' = stored \cup queue
    /\ queue' = {}
    /\ lost' = lost \cup Held(pipe)
    /\ pipe' = [w \in Worker |-> {}]
    /\ UNCHANGED <<worker, open, local, link, calm, exits>>

(***************************************************************************)
(* The primary crashes and takes every worker with it.                     *)
(***************************************************************************)
PrimaryCrash ==
    /\ primary # "exited"
    /\ primary' = "exited"
    /\ worker' = [w \in Worker |-> "gone"]
    /\ lost' = Sent \ stored
    /\ open' = [w \in Worker |-> {}]
    /\ local' = [w \in Worker |-> {}]
    /\ link' = [w \in Worker |-> {}]
    /\ pipe' = [w \in Worker |-> {}]
    /\ queue' = {}
    /\ calm' = FALSE
    /\ UNCHANGED <<stored, exits>>

Next ==
    \/ \E w \in Worker :
          \/ \E r \in Request : Accept(w, r) \/ RequestEnds(w, r)
          \/ \E batch \in (SUBSET local[w]) \ {{}} : Flush(w, batch)
          \/ SendCompletes(w) \/ Receive(w)
          \/ Signal(w) \/ Drained(w) \/ GraceExpires(w)
          \/ Exit(w) \/ ExitHasty(w) \/ Crash(w)
          \/ NoticeExit(w) \/ Fork(w)
    \/ \E batch \in (SUBSET queue) \ {{}} : Store(batch)
    \/ Shutdown \/ WorkersGone \/ ForceStop \/ PrimaryExits \/ PrimaryCrash

Spec == Init /\ [][Next]_vars

(***************************************************************************)
(* The primary reads its pipes, its timers fire and its sink drains.       *)
(* Nothing is assumed of the workers: one may be wedged for ever.          *)
(***************************************************************************)
FairSpec ==
    /\ Spec
    /\ \A w \in Worker : WF_vars(Receive(w)) /\ WF_vars(NoticeExit(w)) /\ WF_vars(Fork(w))
    /\ WF_vars(WorkersGone)
    /\ WF_vars(ForceStop)
    /\ WF_vars(PrimaryExits)

-----------------------------------------------------------------------------

TypeOK ==
    /\ primary \in {"serving", "stopping", "closing", "exited"}
    /\ worker \in [Worker -> {"up", "draining", "leaving", "dead", "gone", "respawn"}]
    /\ \A f \in {open, local, link, pipe} : f \in [Worker -> SUBSET Request]
    /\ queue \subseteq Request
    /\ stored \subseteq Request
    /\ lost \subseteq Request
    /\ calm \in BOOLEAN
    /\ exits \in 0..MaxExits

(***************************************************************************)
(* A record is in one place at a time: no two processes, and no process    *)
(* and the store, ever hold the same one, so it cannot be stored twice.    *)
(***************************************************************************)
Disjoint(f) == \A v, w \in Worker : v # w => f[v] \cap f[w] = {}

OnePlace ==
    /\ TypeOK
    /\ Disjoint(open) /\ Disjoint(local) /\ Disjoint(link) /\ Disjoint(pipe)
    /\ LET stage == <<Held(open), Held(local), Held(link), Held(pipe), queue, stored, lost>>
       IN  \A i, j \in DOMAIN stage : i # j => stage[i] \cap stage[j] = {}

(***************************************************************************)
(* primary.ts:171 "Their final batches arrived before their exits, so this *)
(* drains them": unless something crashed, was killed or timed out, a      *)
(* stopped cluster has stored every request its workers accepted.          *)
(***************************************************************************)
CleanStopLosesNothing == primary = "exited" /\ calm => Sent = stored

(***************************************************************************)
(* A worker that exits, however it does, is replaced, unless the cluster   *)
(* is being stopped.                                                       *)
(***************************************************************************)
WorkersComeBack ==
    \A w \in Worker : (worker[w] = "dead" /\ ~shuttingDown) ~> (worker[w] = "up" \/ shuttingDown)

(***************************************************************************)
(* primary.ts:189 "A worker that outlives its own grace is wedged; do not  *)
(* let it hold the metering of every other worker hostage": a cluster told *)
(* to stop does, and forks no worker meanwhile, whom nobody would tell.    *)
(***************************************************************************)
StopEnds ==
    /\ (primary = "stopping") ~> (primary = "exited")
    /\ [][shuttingDown => \A w \in Worker : worker'[w] = "up" => worker[w] = "up"]_vars
=============================================================================
