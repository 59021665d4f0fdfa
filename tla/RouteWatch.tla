----------------------------- MODULE RouteWatch -----------------------------
(***************************************************************************)
(* Hot reload of the routing table, server/routes/watch.ts: a watcher with *)
(* a settle timer, a poll of the file's mtime behind it, and reloads that  *)
(* read the file across an await, so that several may be in flight.        *)
(*                                                                         *)
(* `file` is the routing file with a number that grows with every edit,    *)
(* its mtime.  A read takes the file as it is when the read happens and    *)
(* ends in a later callback; so does a stat.  A watch event may be lost,   *)
(* or there may be no watcher at all.  `newest` and `missed` are history:  *)
(* the newest edit a reload has dealt with, and whether the edit now in    *)
(* the file has been read in vain, because the read failed or because an   *)
(* older one ended after it.                                               *)
(***************************************************************************)
EXTENDS RouteTable

CONSTANTS
    Files,    \* what the operator may save
    NoFile,   \* the path is free for a moment: an editor between two steps
    Unseen,   \* lastMtimeMs === null
    MaxEdits, \* bound: edits
    MaxReads  \* bound: reloads in flight at once

ASSUME WatchAssumption ==
    MaxEdits \in Nat /\ MaxReads \in Nat /\ Unseen \notin Int /\ NoFile \notin Files

VARIABLES
    file,     \* [is, mtime]
    adopted,    \* the file whose table is in force
    watching, \* fs.watch did not throw
    timer,    \* the settle timer is set
    stat,     \* the mtime a stat in flight has seen, or Unseen
    seen,     \* lastMtimeMs
    reads,    \* the reloads in flight, as what each has read
    stopped,
    newest, missed

watchVars == <<file, adopted, watching, timer, stat, seen, reads, stopped, newest, missed>>

Failed == NoFile
Saved == {f \in Files : Valid(f)}

\* The table was loaded at boot; the file may have been edited since.
WatchInit ==
    /\ adopted \in Saved
    /\ file \in [is : Files \cup {NoFile}, mtime : {0}]
    /\ watching \in BOOLEAN
    /\ timer = FALSE
    /\ stat = Unseen
    /\ seen = Unseen
    /\ reads = <<>>
    /\ stopped = FALSE
    /\ newest = -1
    /\ missed = FALSE

-----------------------------------------------------------------------------
(* the operator and the file system *)

\* The watcher's callback: a burst of events restarts one timer.
Edit ==
    /\ file.mtime < MaxEdits
    /\ \E is \in (Files \cup {NoFile}) \ {file.is} :
          file' = [is |-> is, mtime |-> file.mtime + 1]
    /\ timer' \in {timer, timer \/ (watching /\ ~stopped)}
    /\ missed' = FALSE
    /\ UNCHANGED <<adopted, watching, stat, seen, reads, stopped, newest>>

-----------------------------------------------------------------------------
(***************************************************************************)
(* reload(), first half: readFile.  The file is not there, or the read     *)
(* fails for a reason of its own.                                          *)
(***************************************************************************)
StartReload ==
    \E is \in {file.is, Failed} :
        reads' = Append(reads, [is |-> is, mtime |-> file.mtime])

SettleTimerFires ==
    /\ timer
    /\ Len(reads) < MaxReads
    /\ timer' = FALSE
    /\ StartReload
    /\ UNCHANGED <<file, adopted, watching, stat, seen, stopped, newest, missed>>

\* The interval: a stat of the file, which fails while there is none.
Poll ==
    /\ ~stopped
    /\ stat = Unseen
    /\ file.is # NoFile
    /\ stat' = file.mtime
    /\ UNCHANGED <<file, adopted, watching, timer, seen, reads, stopped, newest, missed>>

\* bug: the first stat only takes note of the mtime
NoteFirst(mtime) ==
    /\ seen' = mtime
    /\ IF seen = Unseen THEN UNCHANGED reads ELSE StartReload

\* The mtime is remembered before the reload it causes has been heard of.
Changed(mtime) ==
    /\ seen' = mtime
    /\ StartReload

StatAnswers ==
    /\ stat # Unseen
    /\ Len(reads) < MaxReads
    /\ stat' = Unseen
    /\ IF seen # Unseen /\ stat = seen THEN UNCHANGED <<seen, reads>>
       ELSE Changed(stat)
    /\ UNCHANGED <<file, adopted, watching, timer, stopped, newest, missed>>

-----------------------------------------------------------------------------
\* bug: the file is taken without being parsed to the end
InstallUnread(read) == adopted' = read.is

\* A file that does not validate, or could not be read, changes nothing.
Install(read) ==
    adopted' = IF read.is # Failed /\ Valid(read.is) THEN read.is ELSE adopted

\* reload(), second half: the i-th read ends, in any order.
ReadEnds(i) ==
    LET read == reads[i]
    IN  /\ Install(read)
        /\ reads' = RemoveAt(reads, i)
        /\ newest' = IF read.mtime > newest THEN read.mtime ELSE newest
        /\ missed' = \/ missed
                     \/ read.mtime = file.mtime /\ read.is # file.is
                     \/ read.mtime < newest /\ newest = file.mtime
        /\ UNCHANGED <<file, watching, timer, stat, seen, stopped>>

\* stop() at the end of a shutdown; what is in flight still ends.
Stop ==
    /\ ~stopped
    /\ stopped' = TRUE
    /\ timer' = FALSE
    /\ UNCHANGED <<file, adopted, watching, stat, seen, reads, newest, missed>>

WatchNext ==
    \/ Edit
    \/ SettleTimerFires
    \/ Poll
    \/ StatAnswers
    \/ \E i \in DOMAIN reads : ReadEnds(i)
    \/ Stop

(***************************************************************************)
(* The process goes on by itself: its timers fire, and what it has asked   *)
(* of the file system is answered.                                         *)
(***************************************************************************)
Fairness ==
    /\ WF_watchVars(SettleTimerFires)
    /\ WF_watchVars(Poll)
    /\ WF_watchVars(StatAnswers)
    /\ WF_watchVars(\E i \in DOMAIN reads : ReadEnds(i))

WatchSpec == WatchInit /\ [][WatchNext]_watchVars /\ Fairness

-----------------------------------------------------------------------------
Snapshots == [is : Files \cup {NoFile}, mtime : 0..MaxEdits]

(***************************************************************************)
(* Types.  The table in force is always one that validates: a bad edit     *)
(* never degrades to "no routing" (watch.ts:11-14).                        *)
(***************************************************************************)
WatchTypeOK ==
    /\ file \in Snapshots
    /\ adopted \in Saved
    /\ reads \in Seq(Snapshots) /\ Len(reads) <= MaxReads
    /\ stat \in 0..MaxEdits \cup {Unseen}
    /\ seen \in 0..MaxEdits \cup {Unseen}
    /\ {watching, timer, stopped, missed} \subseteq BOOLEAN
    /\ newest \in -1..MaxEdits

Quiet == reads = <<>> /\ ~timer /\ stat = Unseen

(***************************************************************************)
(* When the poll has seen the mtime of the file and nothing is in flight,  *)
(* the table in force is that of the file, if it is a valid one: whatever  *)
(* the overlap of the two ways to notice an edit (watch.ts:35-40); and it  *)
(* is never one that does not validate.                                    *)
(***************************************************************************)
SeenIsInForce ==
    /\ WatchTypeOK
    /\ Quiet /\ seen = file.mtime /\ ~missed /\ file.is \in Saved => adopted = file.is

InForce == stopped \/ file.is \notin Saved \/ adopted = file.is

(***************************************************************************)
(* An edit takes effect without a restart, whether or not an event says    *)
(* so, unless it was read in vain (watch.ts:4-8, 28-33).                   *)
(***************************************************************************)
ReadEditsTakeEffect == []<>(InForce \/ missed)
=============================================================================
