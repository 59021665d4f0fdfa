----------------------------- MODULE Migrations -----------------------------
(***************************************************************************)
(* Schema migrations: migrate() of server/store/db.ts, run by every        *)
(* process that opens the database through withStore of                    *)
(* server/bin/fest.ts, `fest serve` and each `fest` command beside it.     *)
(*                                                                         *)
(* The files are numbered 1, 2, ... and a process applies those its own    *)
(* image ships, each in a transaction of its own; the version is written   *)
(* once, after the last.  Processes interleave between the transactions.   *)
(* The files are not idempotent (CREATE TABLE, ADD COLUMN), so applying    *)
(* one that is already applied throws, which ends the process.             *)
(***************************************************************************)
EXTENDS Integers

CONSTANTS
    Process,   \* processes that open the database
    Shipped,   \* process -> how many files its image ships
    Broken     \* files that do not apply until someone fixes them

ASSUME MigrationsAssumption ==
    /\ Shipped \in [Process -> Nat \ {0}]
    /\ Broken \subseteq Nat \ {0}

VARIABLES
    applied,     \* the files whose effect is in the schema
    userVersion, \* PRAGMA user_version
    broken,      \* the files still to be fixed
    pc,          \* process -> "down", "migrating", "ready" or "failed"
    current,     \* process -> the version it read when it began
    version      \* process -> the last file it has applied since

local == <<current, version>>
vars == <<applied, userVersion, broken, pc, local>>

next(p) == version[p] + 1

-----------------------------------------------------------------------------

Init ==
    /\ applied = {}
    /\ userVersion = 0
    /\ broken = Broken
    /\ pc = [p \in Process |-> "down"]
    /\ current = [p \in Process |-> 0]
    /\ version = [p \in Process |-> 0]

(***************************************************************************)
(* withStore: the process starts, again if it has failed, and reads the    *)
(* version its loop compares every file with.                              *)
(***************************************************************************)
Open(p) ==
    /\ pc[p] \in {"down", "failed"}
    /\ pc' = [pc EXCEPT ![p] = "migrating"]
    /\ current' = [current EXCEPT ![p] = userVersion]
    /\ version' = [version EXCEPT ![p] = userVersion]
    /\ UNCHANGED <<applied, userVersion, broken>>

(***************************************************************************)
(* The transaction of the next file commits, or it throws and is rolled    *)
(* back, which ends the process.                                           *)
(***************************************************************************)
Apply(p) ==
    /\ pc[p] = "migrating"
    /\ next(p) <= Shipped[p]
    /\ next(p) \notin applied \cup broken
    /\ applied' = applied \cup {next(p)}
    /\ version' = [version EXCEPT ![p] = next(p)]
    /\ UNCHANGED <<userVersion, broken, pc, current>>

\* bug: a file that throws is logged and skipped
ApplySkips(p) ==
    /\ pc[p] = "migrating"
    /\ next(p) <= Shipped[p]
    /\ next(p) \in applied \cup broken
    /\ version' = [version EXCEPT ![p] = next(p)]
    /\ UNCHANGED <<applied, userVersion, broken, pc, current>>

ApplyThrows(p) ==
    /\ pc[p] = "migrating"
    /\ next(p) <= Shipped[p]
    /\ next(p) \in applied \cup broken
    /\ pc' = [pc EXCEPT ![p] = "failed"]
    /\ UNCHANGED <<applied, userVersion, broken, local>>

(***************************************************************************)
(* The loop is done: the version is written if a file was applied, by a    *)
(* statement of its own, and the process goes on to its work.              *)
(***************************************************************************)
Finish(p) ==
    /\ pc[p] = "migrating"
    /\ next(p) > Shipped[p]
    /\ userVersion' = IF version[p] # current[p] THEN version[p] ELSE userVersion
    /\ pc' = [pc EXCEPT ![p] = "ready"]
    /\ UNCHANGED <<applied, broken, local>>

(***************************************************************************)
(* The process ends: it was stopped, it crashed, or a statement gave up    *)
(* waiting for the write lock.                                             *)
(***************************************************************************)
Stop(p) ==
    /\ pc[p] # "down"
    /\ pc' = [pc EXCEPT ![p] = "down"]
    /\ UNCHANGED <<applied, userVersion, broken, local>>

(***************************************************************************)
(* Someone fixes a broken file.                                            *)
(***************************************************************************)
Fix(f) ==
    /\ f \in broken
    /\ broken' = broken \ {f}
    /\ UNCHANGED <<applied, userVersion, pc, local>>

Next ==
    \/ \E p \in Process :
          Open(p) \/ Apply(p) \/ ApplyThrows(p) \/ Finish(p) \/ Stop(p)
    \/ \E f \in broken : Fix(f)

Spec == Init /\ [][Next]_vars

-----------------------------------------------------------------------------

TypeOK ==
    /\ applied \subseteq Nat \ {0}
    /\ userVersion \in Nat
    /\ broken \subseteq Broken
    /\ pc \in [Process -> {"down", "migrating", "ready", "failed"}]
    /\ current \in [Process -> Nat]
    /\ version \in [Process -> Nat]

(***************************************************************************)
(* No process does its work on a schema that lacks a file it ships.        *)
(***************************************************************************)
ReadyIsMigrated == \A p \in Process : pc[p] = "ready" => 1..Shipped[p] \subseteq applied

(***************************************************************************)
(* The version never claims a file that is not applied, and the files are  *)
(* applied in order, with no gap: whoever reads the version next skips     *)
(* nothing the schema lacks.                                               *)
(***************************************************************************)
VersionIsApplied ==
    /\ 1..userVersion \subseteq applied
    /\ \A f \in applied : 1..f \subseteq applied

(***************************************************************************)
(* Two processes never both have files applied and not yet claimed: there  *)
(* is no lock around migrate(), it is the files that refuse to be applied  *)
(* twice that keep the second process out.                                 *)
(***************************************************************************)
Ahead(p) == pc[p] = "migrating" /\ version[p] # current[p]

OneIsAhead == \A p, q \in Process : Ahead(p) /\ Ahead(q) => p = q

(***************************************************************************)
(* The version never goes back, although each process writes the one it    *)
(* computed from what it read when it began.                               *)
(***************************************************************************)
VersionNeverGoesBack == [][userVersion' >= userVersion]_vars
=============================================================================
