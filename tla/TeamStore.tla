----------------------------- MODULE TeamStore -----------------------------
(***************************************************************************)
(* How the state of a team is kept across restarts: the saves of           *)
(* persist_team_state and persist_run_state, clear_state, and the load in  *)
(* register_team_runtime (core/src/agent/team_runtime.rs), over the        *)
(* database of the state crate (state/src/database.rs).                    *)
(*                                                                         *)
(* A call changes the team state or the run state under its lock, clones   *)
(* it, lets go of the lock and saves the clone.  The database has one      *)
(* connection: single saves and deletes are atomic, in any order between   *)
(* calls.  A content is the set of changes it has; Old stands for those of *)
(* an earlier session.                                                     *)
(*                                                                         *)
(* Left out: what the changes are (TaskBoard, Mailbox), publishing         *)
(* (InboxWatch), and closing the agents before cleanup clears.             *)
(***************************************************************************)
EXTENDS Naturals, FiniteSets

CONSTANTS
  Call,          \* calls that change the state, once each
  Cleaner,       \* the call of cleanup_team
  Interruptible, \* the calls that the user may interrupt
  Failing,       \* the calls whose saves or deletes may fail
  Old,           \* the changes of an earlier session
  Absent,        \* no row under the key
  MaxCrashes     \* bound: crashes of the program

ASSUME ConstantsOK ==
  /\ Cleaner \notin Call /\ Old \notin Call
  /\ \A content \in SUBSET (Call \cup {Old}) : content # Absent
  /\ Interruptible \subseteq Call \cup {Cleaner} /\ Failing \subseteq Call \cup {Cleaner}
  /\ MaxCrashes \in Nat

Process == Call \cup {Cleaner}
Content == SUBSET (Call \cup {Old})
Scope == {"team", "both", "run"}

VARIABLES
  team,          \* team_state
  run,           \* run_state
  savedTeam,     \* the row under team_store_key
  savedRun,      \* the row under run_store_key
  legacy,        \* the row under legacy_store_key
  pc,            \* where every call is
  scope,         \* what a call changes
  copy,          \* the clone a call saves
  up,            \* the program runs
  crashes,       \* crashes so far
  disturbed      \* since the start, calls overlapped, or a save failed or was dropped

vars == <<team, run, savedTeam, savedRun, legacy, pc, scope, copy, up, crashes, disturbed>>
memory == <<team, run>>
saved == <<savedTeam, savedRun, legacy>>

\* load_persisted_state, with and without a legacy key.
LoadTeam == IF savedTeam # Absent THEN savedTeam ELSE IF legacy # Absent THEN legacy ELSE {}
LoadRun == IF savedRun # Absent THEN savedRun ELSE {}

Init ==
  /\ savedTeam \in {Absent, {Old}}
  /\ legacy \in {Absent, {Old}}
  /\ savedRun = Absent
  /\ team = LoadTeam
  /\ run = LoadRun
  /\ pc = [p \in Process |-> "idle"]
  /\ scope \in [Call -> Scope]
  /\ copy = [c \in Call |-> {}]
  /\ up = TRUE
  /\ crashes = 0
  /\ disturbed = FALSE

At(p, place) == pc[p] = place
Goto(p, place) == pc' = [pc EXCEPT ![p] = place]
Resting(p) == pc[p] \in {"idle", "returned", "crashed"}
AllRest == \A p \in Process : Resting(p)

-----------------------------------------------------------------------------
(* A call that changes the state *)

Change(c) ==
  /\ up /\ At(c, "idle")
  /\ IF scope[c] = "run"
     THEN run' = run \cup {c} /\ UNCHANGED team
     ELSE team' = team \cup {c} /\ UNCHANGED run
  /\ Goto(c, CASE scope[c] = "run"  -> "copyRun"
               [] scope[c] = "both" -> "changeRun"
               [] scope[c] = "team" -> "copyTeam")
  /\ disturbed' = (disturbed \/ ~AllRest)
  /\ UNCHANGED <<saved, scope, copy, up, crashes>>

ChangeRun(c) ==
  /\ At(c, "changeRun")
  /\ run' = run \cup {c}
  /\ Goto(c, "copyTeam")
  /\ UNCHANGED <<team, saved, scope, copy, up, crashes, disturbed>>

CopyState(c) ==
  \/ /\ At(c, "copyTeam")
     /\ copy' = [copy EXCEPT ![c] = team]
     /\ Goto(c, "saveTeam")
     /\ UNCHANGED <<memory, saved, scope, up, crashes, disturbed>>
  \/ /\ At(c, "copyRun")
     /\ copy' = [copy EXCEPT ![c] = run]
     /\ Goto(c, "saveRun")
     /\ UNCHANGED <<memory, saved, scope, up, crashes, disturbed>>

\* Where a call is once it is done with the database.
After(p) ==
  CASE pc[p] = "saveTeam"     -> IF scope[p] = "both" THEN "copyRun" ELSE "returned"
    [] pc[p] = "saveRun"      -> "returned"
    [] pc[p] = "deleteTeam"   -> "deleteRun"
    [] pc[p] = "deleteRun"    -> "deleteLegacy"
    [] pc[p] = "deleteLegacy" -> "returned"
Storing(p) == pc[p] \in {"saveTeam", "saveRun", "deleteTeam", "deleteRun", "deleteLegacy"}

SaveTeam(c) ==
  /\ At(c, "saveTeam")
  /\ savedTeam' = copy[c]
  /\ Goto(c, After(c))
  /\ UNCHANGED <<memory, savedRun, legacy, scope, copy, up, crashes, disturbed>>

SaveRun(c) ==
  /\ At(c, "saveRun")
  /\ savedRun' = copy[c]
  /\ Goto(c, After(c))
  /\ UNCHANGED <<memory, savedTeam, legacy, scope, copy, up, crashes, disturbed>>

-----------------------------------------------------------------------------
(* clear_state *)

ClearTeam ==
  /\ up /\ At(Cleaner, "idle")
  /\ team' = {}
  /\ Goto(Cleaner, "clearRun")
  /\ disturbed' = (disturbed \/ ~AllRest)
  /\ UNCHANGED <<run, saved, scope, copy, up, crashes>>

ClearRun ==
  /\ At(Cleaner, "clearRun")
  /\ run' = {}
  /\ Goto(Cleaner, "deleteTeam")
  /\ UNCHANGED <<team, saved, scope, copy, up, crashes, disturbed>>

DeleteTeam ==
  /\ At(Cleaner, "deleteTeam")
  /\ savedTeam' = Absent
  /\ Goto(Cleaner, After(Cleaner))
  /\ UNCHANGED <<memory, savedRun, legacy, scope, copy, up, crashes, disturbed>>

DeleteRun ==
  /\ At(Cleaner, "deleteRun")
  /\ savedRun' = Absent
  /\ Goto(Cleaner, After(Cleaner))
  /\ UNCHANGED <<memory, savedTeam, legacy, scope, copy, up, crashes, disturbed>>

\* Fault: the row of earlier versions stays.
KeepLegacy ==
  /\ At(Cleaner, "deleteLegacy")
  /\ Goto(Cleaner, "returned")
  /\ UNCHANGED <<memory, saved, scope, copy, up, crashes, disturbed>>

DeleteLegacy ==
  /\ At(Cleaner, "deleteLegacy")
  /\ legacy' = Absent
  /\ Goto(Cleaner, After(Cleaner))
  /\ UNCHANGED <<memory, savedTeam, savedRun, scope, copy, up, crashes, disturbed>>

-----------------------------------------------------------------------------
(* Failures, crash and restart *)

\* The error of a save or a delete is dropped: the call goes on.
StoreFails(p) ==
  /\ p \in Failing /\ Storing(p)
  /\ Goto(p, After(p))
  /\ disturbed' = TRUE
  /\ UNCHANGED <<memory, saved, scope, copy, up, crashes>>

\* The user interrupts the turn: the call is dropped where it waits for the database.
Abandon(p) ==
  /\ p \in Interruptible /\ Storing(p)
  /\ Goto(p, "crashed")
  /\ disturbed' = TRUE
  /\ UNCHANGED <<memory, saved, scope, copy, up, crashes>>

Crash ==
  /\ up /\ crashes < MaxCrashes
  /\ up' = FALSE
  /\ crashes' = crashes + 1
  /\ pc' = [p \in Process |-> IF Resting(p) THEN pc[p] ELSE "crashed"]
  /\ team' = {} /\ run' = {}
  /\ UNCHANGED <<saved, scope, copy, disturbed>>

\* register_team_runtime: what was lost is lost, the memory is what was saved.
Restart ==
  /\ ~up
  /\ up' = TRUE
  /\ team' = LoadTeam
  /\ run' = LoadRun
  /\ disturbed' = FALSE
  /\ UNCHANGED <<saved, pc, scope, copy, crashes>>

Next ==
  \/ \E c \in Call :
       Change(c) \/ ChangeRun(c) \/ CopyState(c) \/ SaveTeam(c) \/ SaveRun(c)
  \/ ClearTeam \/ ClearRun \/ DeleteTeam \/ DeleteRun \/ DeleteLegacy
  \/ \E p \in Process : StoreFails(p) \/ Abandon(p)
  \/ Crash \/ Restart

Spec == Init /\ [][Next]_vars

-----------------------------------------------------------------------------
(* What the team relies on *)

Place ==
  {"idle", "changeRun", "copyTeam", "saveTeam", "copyRun", "saveRun", "clearRun",
   "deleteTeam", "deleteRun", "deleteLegacy", "returned", "crashed"}
TypeOK ==
  /\ team \in Content /\ run \in Content
  /\ savedTeam \in Content \cup {Absent}
  /\ savedRun \in Content \cup {Absent}
  /\ legacy \in Content \cup {Absent}
  /\ pc \in [Process -> Place]
  /\ scope \in [Call -> Scope]
  /\ copy \in [Call -> Content]
  /\ up \in BOOLEAN /\ disturbed \in BOOLEAN
  /\ crashes \in 0..MaxCrashes

\* When no call is under way and none overlapped with another, failed or was interrupted,
\* a restart would find the very state in memory: of a team that was cleaned, nothing,
\* whether the rows were those of this version or of an earlier one.
QuietTeamIsSaved ==
  /\ TypeOK
  /\ up /\ AllRest /\ ~disturbed => LoadTeam = team /\ LoadRun = run
=============================================================================
