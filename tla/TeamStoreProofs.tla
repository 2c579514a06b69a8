-------------------------- MODULE TeamStoreProofs --------------------------
(***************************************************************************)
(* Calls that do not overlap leave the memory saved, for every number of   *)
(* calls and crashes.                                                      *)
(*                                                                         *)
(* QuietTeamIsSaved speaks of rest only.  The invariant says what holds on *)
(* the way: while nothing was disturbed at most one process is under way,  *)
(* and at each of its places the part of the memory that it has not yet to *)
(* save is what a restart would find.                                      *)
(***************************************************************************)
EXTENDS TeamStore, TLAPS

CallPlace == {"idle", "returned", "crashed", "changeRun", "copyTeam", "saveTeam", "copyRun",
              "saveRun"}
CleanerPlace == {"idle", "returned", "crashed", "clearRun", "deleteTeam", "deleteRun",
                 "deleteLegacy"}
Places ==
  /\ pc \in [Process -> Place]
  /\ \A c \in Call : pc[c] \in CallPlace
  /\ pc[Cleaner] \in CleanerPlace
  /\ scope \in [Call -> Scope]
  /\ copy \in [Call -> Content]

OneAtATime == \A p, q \in Process : ~Resting(p) /\ ~Resting(q) => p = q

CallInStep(c) ==
  /\ At(c, "changeRun") => scope[c] = "both"
  /\ pc[c] \in {"copyTeam", "saveTeam"} => scope[c] \in {"both", "team"}
  /\ pc[c] \in {"copyTeam", "saveTeam"} /\ scope[c] = "team" => LoadRun = run
  /\ At(c, "saveTeam") => copy[c] = team
  /\ pc[c] \in {"copyRun", "saveRun"} => LoadTeam = team
  /\ At(c, "saveRun") => copy[c] = run

CleanerInStep ==
  /\ pc[Cleaner] \in {"clearRun", "deleteTeam", "deleteRun", "deleteLegacy"} => team = {}
  /\ pc[Cleaner] \in {"deleteTeam", "deleteRun", "deleteLegacy"} => run = {}
  /\ pc[Cleaner] \in {"deleteRun", "deleteLegacy"} => savedTeam = Absent
  /\ At(Cleaner, "deleteLegacy") => savedRun = Absent

Undisturbed ==
  up /\ ~disturbed =>
    /\ OneAtATime
    /\ \A c \in Call : CallInStep(c)
    /\ CleanerInStep
    /\ AllRest => LoadTeam = team /\ LoadRun = run

StoreInv ==
  /\ Places
  /\ team \in Content /\ run \in Content
  /\ ~up => AllRest
  /\ Undisturbed
\* While nothing was disturbed, a process under way is the only one.
LEMMA Alone ==
  ASSUME StoreInv, up, ~disturbed, NEW p \in Process, ~Resting(p)
  PROVE  \A q \in Process \ {p} : Resting(q)
  BY DEF StoreInv, Undisturbed, OneAtATime

\* A step of the only process under way keeps the parts about the others.
LEMMA StepOfOne ==
  ASSUME Places, NEW p \in Process, NEW x \in Place, \A q \in Process \ {p} : Resting(q),
         pc' = [pc EXCEPT ![p] = x]
  PROVE  /\ OneAtATime'
         /\ \A c \in Call \ {p} : CallInStep(c)'
         /\ p # Cleaner => CleanerInStep'
         /\ x \notin {"idle", "returned", "crashed"} => ~AllRest'
  <1>1. \A q \in Process \ {p} : pc'[q] = pc[q] /\ pc[q] \in {"idle", "returned", "crashed"}
    BY DEF Places, Resting
  <1>2. pc'[p] = x
    BY DEF Places
  <1>3. OneAtATime'
    BY <1>1 DEF OneAtATime, Resting
  <1>4. \A c \in Call \ {p} : CallInStep(c)'
    BY <1>1 DEF CallInStep, At, Process
  <1>5. p # Cleaner => CleanerInStep'
    BY <1>1 DEF CleanerInStep, At, Process
  <1>6. x \notin {"idle", "returned", "crashed"} => ~AllRest'
    BY <1>2 DEF AllRest, Resting
  <1>7. QED
    BY <1>3, <1>4, <1>5, <1>6

LEMMA PlacesKept ==
  ASSUME Places, NEW p \in Process, NEW x, pc' = [pc EXCEPT ![p] = x], scope' = scope,
         p \in Call => x \in CallPlace, p = Cleaner => x \in CleanerPlace,
         copy' \in [Call -> Content]
  PROVE  Places' /\ x \in Place
  <1>1. x \in Place
    BY DEF CallPlace, CleanerPlace, Place, Process
  <1>2. QED
    BY <1>1 DEF Places, Process

LEMMA ChangeKeeps ==
  ASSUME StoreInv, NEW c \in Call, Change(c)
  PROVE  StoreInv'
  <1> DEFINE x == CASE scope[c] = "run"  -> "copyRun"
                    [] scope[c] = "both" -> "changeRun"
                    [] scope[c] = "team" -> "copyTeam"
  <1>1. scope[c] \in Scope /\ c \in Process /\ Places /\ c # Cleaner
    BY ConstantsOK DEF StoreInv, Places, Process
  <1>2. x \in {"copyRun", "changeRun", "copyTeam"} /\ x \in CallPlace
        /\ (x = "copyRun" => scope[c] = "run") /\ (x = "changeRun" => scope[c] = "both")
        /\ (x = "copyTeam" => scope[c] = "team")
    BY <1>1 DEF Scope, CallPlace
  <1>3. pc' = [pc EXCEPT ![c] = x] /\ scope' = scope /\ copy' = copy /\ up' = up /\ up
        /\ At(c, "idle")
    BY DEF Change, Goto
  <1> HIDE DEF x
  <1>4. Places' /\ x \in Place
    BY <1>1, <1>2, <1>3, PlacesKept DEF Places
  <1>5. team' \in Content /\ run' \in Content
    BY DEF Change, StoreInv, Content
  <1>6. ASSUME up', ~disturbed'
        PROVE  Undisturbed'
    <2>1. AllRest /\ ~disturbed /\ LoadTeam = team /\ LoadRun = run
      BY <1>3, <1>6 DEF Change, StoreInv, Undisturbed
    <2>2. \A q \in Process \ {c} : Resting(q)
      BY <2>1 DEF AllRest
    <2>3. /\ OneAtATime' /\ CleanerInStep' /\ ~AllRest'
          /\ \A d \in Call \ {c} : CallInStep(d)'
      BY <1>1, <1>2, <1>3, <1>4, <2>2, StepOfOne
    <2>4. pc'[c] = x
      BY <1>1, <1>3 DEF Places
    <2>5. LoadTeam' = LoadTeam /\ LoadRun' = LoadRun
      BY DEF Change, saved, LoadTeam, LoadRun
    <2>6. CallInStep(c)'
      BY <1>2, <1>3, <2>1, <2>4, <2>5 DEF Change, CallInStep, At
    <2>7. QED
      BY <2>3, <2>6 DEF Undisturbed
  <1>7. QED
    BY <1>3, <1>4, <1>5, <1>6 DEF StoreInv, Undisturbed

\* The steps of a call under way: c goes to x.
LEMMA CallStepKeeps ==
  ASSUME StoreInv, NEW c \in Call, NEW x \in CallPlace, ~Resting(c), up' = up,
         pc' = [pc EXCEPT ![c] = x], scope' = scope, copy' \in [Call -> Content],
         team' \in Content, run' \in Content, disturbed' = disturbed,
         up /\ ~disturbed =>
           /\ CallInStep(c)'
           /\ x \in {"returned", "crashed", "idle"} => LoadTeam' = team' /\ LoadRun' = run'
  PROVE  StoreInv'
  <1>1. c \in Process /\ Places /\ c # Cleaner
    BY ConstantsOK DEF StoreInv, Process
  <1>2. Places' /\ x \in Place
    BY <1>1, PlacesKept
  <1>3. up
    BY <1>1 DEF StoreInv, AllRest
  <1>4. ASSUME ~disturbed
        PROVE  Undisturbed'
    <2>1. \A q \in Process \ {c} : Resting(q)
      BY <1>1, <1>3, <1>4, Alone
    <2>2. /\ OneAtATime' /\ CleanerInStep'
          /\ \A d \in Call \ {c} : CallInStep(d)'
          /\ x \notin {"idle", "returned", "crashed"} => ~AllRest'
      BY <1>1, <1>2, <2>1, StepOfOne
    <2>3. QED
      BY <1>3, <1>4, <2>2 DEF Undisturbed
  <1>5. QED
    BY <1>2, <1>3, <1>4 DEF StoreInv, Undisturbed
LEMMA ChangeRunKeeps ==
  ASSUME StoreInv, NEW c \in Call, ChangeRun(c)
  PROVE  StoreInv'
  <1>1. pc' = [pc EXCEPT ![c] = "copyTeam"] /\ pc[c] = "changeRun" /\ scope' = scope
        /\ copy' = copy /\ up' = up /\ disturbed' = disturbed /\ team' = team
        /\ run' = run \cup {c}
    BY DEF ChangeRun, Goto, At
  <1>2. ~Resting(c) /\ "copyTeam" \in CallPlace
    BY <1>1 DEF Resting, CallPlace
  <1>3. copy' \in [Call -> Content] /\ team' \in Content /\ run' \in Content
    BY <1>1 DEF StoreInv, Places, Content
  <1>4. ASSUME up, ~disturbed
        PROVE  CallInStep(c)'
    <2>1. scope[c] = "both"
      BY <1>1, <1>4 DEF StoreInv, Undisturbed, CallInStep, At
    <2>2. pc'[c] = "copyTeam"
      BY <1>1 DEF StoreInv, Places, Process
    <2>3. QED
      BY <1>1, <2>1, <2>2 DEF CallInStep, At
  <1>5. QED
    BY <1>1, <1>2, <1>3, <1>4, CallStepKeeps

LEMMA CopyKeeps ==
  ASSUME StoreInv, NEW c \in Call, CopyState(c)
  PROVE  StoreInv'
  <1>1. scope' = scope /\ up' = up /\ disturbed' = disturbed /\ team' = team /\ run' = run
        /\ LoadTeam' = LoadTeam /\ LoadRun' = LoadRun
    BY DEF CopyState, memory, saved, LoadTeam, LoadRun
  <1>2. team' \in Content /\ run' \in Content /\ run \in Content /\ team \in Content
    BY <1>1 DEF StoreInv, Content
  <1>3. up /\ ~disturbed => CallInStep(c)
    BY DEF StoreInv, Undisturbed
  <1>4. CASE At(c, "copyTeam")
    <2>1. pc' = [pc EXCEPT ![c] = "saveTeam"] /\ pc[c] = "copyTeam"
          /\ copy' = [copy EXCEPT ![c] = team]
      BY <1>4 DEF CopyState, Goto, At
    <2>2. ~Resting(c) /\ "saveTeam" \in CallPlace
      BY <2>1 DEF Resting, CallPlace
    <2>3. copy' \in [Call -> Content] /\ copy'[c] = team /\ pc'[c] = "saveTeam"
      BY <1>2, <2>1 DEF StoreInv, Places, Process
    <2>4. up /\ ~disturbed => CallInStep(c)'
      BY <1>1, <1>3, <2>1, <2>3 DEF CallInStep, At
    <2>5. QED
      BY <1>1, <1>2, <2>1, <2>2, <2>3, <2>4, CallStepKeeps
  <1>5. CASE At(c, "copyRun")
    <2>1. pc' = [pc EXCEPT ![c] = "saveRun"] /\ pc[c] = "copyRun"
          /\ copy' = [copy EXCEPT ![c] = run]
      BY <1>5 DEF CopyState, Goto, At
    <2>2. ~Resting(c) /\ "saveRun" \in CallPlace
      BY <2>1 DEF Resting, CallPlace
    <2>3. copy' \in [Call -> Content] /\ copy'[c] = run /\ pc'[c] = "saveRun"
      BY <1>2, <2>1 DEF StoreInv, Places, Process
    <2>4. up /\ ~disturbed => CallInStep(c)'
      BY <1>1, <1>3, <2>1, <2>3 DEF CallInStep, At
    <2>5. QED
      BY <1>1, <1>2, <2>1, <2>2, <2>3, <2>4, CallStepKeeps
  <1>6. QED
    BY <1>4, <1>5 DEF CopyState

LEMMA SaveTeamKeeps ==
  ASSUME StoreInv, NEW c \in Call, SaveTeam(c)
  PROVE  StoreInv'
  <1> DEFINE x == After(c)
  <1>1. pc' = [pc EXCEPT ![c] = x] /\ pc[c] = "saveTeam" /\ scope' = scope /\ copy' = copy
        /\ up' = up /\ disturbed' = disturbed /\ team' = team /\ run' = run
        /\ savedTeam' = copy[c] /\ savedRun' = savedRun
    BY DEF SaveTeam, Goto, At, memory
  <1>2. ~Resting(c) /\ x \in CallPlace /\ (x = "copyRun" <=> scope[c] = "both")
        /\ x \in {"copyRun", "returned"}
    BY <1>1 DEF Resting, CallPlace, After
  <1> HIDE DEF x
  <1>3. copy' \in [Call -> Content] /\ team' \in Content /\ run' \in Content
        /\ team \in Content /\ pc'[c] = x
    BY <1>1 DEF StoreInv, Places, Process
  <1>4. ASSUME up, ~disturbed
        PROVE  /\ CallInStep(c)'
               /\ x \in {"returned", "crashed", "idle"} => LoadTeam' = team' /\ LoadRun' = run'
    <2>1. CallInStep(c)
      BY <1>4 DEF StoreInv, Undisturbed
    <2>2. copy[c] = team /\ (scope[c] = "team" => LoadRun = run) /\ scope[c] \in {"both", "team"}
      BY <1>1, <2>1 DEF CallInStep, At
    <2>3. savedTeam' = team /\ team # Absent
      BY <1>1, <1>3, <2>2, ConstantsOK DEF Content
    <2>4. LoadTeam' = team' /\ LoadRun' = LoadRun
      BY <1>1, <2>3 DEF LoadTeam, LoadRun
    <2>5. CallInStep(c)'
      BY <1>1, <1>2, <1>3, <2>4 DEF CallInStep, At
    <2>6. QED
      BY <1>1, <1>2, <2>2, <2>4, <2>5
  <1>5. QED
    BY <1>1, <1>2, <1>3, <1>4, CallStepKeeps

LEMMA SaveRunKeeps ==
  ASSUME StoreInv, NEW c \in Call, SaveRun(c)
  PROVE  StoreInv'
  <1>1. pc' = [pc EXCEPT ![c] = "returned"] /\ pc[c] = "saveRun" /\ scope' = scope
        /\ copy' = copy /\ up' = up /\ disturbed' = disturbed /\ team' = team /\ run' = run
        /\ savedRun' = copy[c] /\ savedTeam' = savedTeam /\ legacy' = legacy
    BY DEF SaveRun, After, Goto, At, memory
  <1>2. ~Resting(c) /\ "returned" \in CallPlace
    BY <1>1 DEF Resting, CallPlace
  <1>3. copy' \in [Call -> Content] /\ team' \in Content /\ run' \in Content
        /\ run \in Content /\ pc'[c] = "returned"
    BY <1>1 DEF StoreInv, Places, Process, Content
  <1>4. ASSUME up, ~disturbed
        PROVE  CallInStep(c)' /\ LoadTeam' = team' /\ LoadRun' = run'
    <2>1. LoadTeam = team /\ copy[c] = run
      BY <1>1, <1>4 DEF StoreInv, Undisturbed, CallInStep, At
    <2>2. savedRun' = run /\ run # Absent
      BY <1>1, <1>3, <2>1, ConstantsOK DEF Content
    <2>3. LoadTeam' = team' /\ LoadRun' = run'
      BY <1>1, <2>1, <2>2 DEF LoadTeam, LoadRun
    <2>4. CallInStep(c)'
      BY <1>3 DEF CallInStep, At
    <2>5. QED
      BY <2>3, <2>4
  <1>5. QED
    BY <1>1, <1>2, <1>3, <1>4, CallStepKeeps

\* Where a process goes once it is done with the database.
LEMMA AfterPlaces ==
  ASSUME Places, NEW p \in Process, Storing(p)
  PROVE  /\ ~Resting(p)
         /\ p \in Call => After(p) \in CallPlace /\ pc[p] \in {"saveTeam", "saveRun"}
         /\ p = Cleaner => After(p) \in CleanerPlace
  BY DEF Places, Process, Storing, After, CallPlace, CleanerPlace, Resting

\* A failure or an interruption disturbs: only the places matter.
LEMMA DisturbanceKeeps ==
  ASSUME StoreInv, NEW p \in Process, StoreFails(p) \/ Abandon(p)
  PROVE  StoreInv'
  <1>1. Places /\ Storing(p) /\ "crashed" \in CallPlace /\ "crashed" \in CleanerPlace
    BY DEF StoreInv, StoreFails, Abandon, CallPlace, CleanerPlace
  <1>2. PICK x : /\ pc' = [pc EXCEPT ![p] = x]
                 /\ p \in Call => x \in CallPlace
                 /\ p = Cleaner => x \in CleanerPlace
    BY <1>1, AfterPlaces DEF StoreFails, Abandon, Goto
  <1>3. scope' = scope /\ copy' = copy /\ up' = up /\ disturbed' /\ team' = team /\ run' = run
    BY DEF StoreFails, Abandon, memory
  <1>4. Places'
    BY <1>1, <1>2, <1>3, PlacesKept DEF Places
  <1>5. up
    BY <1>1, AfterPlaces DEF StoreInv, AllRest
  <1>6. QED
    BY <1>3, <1>4, <1>5 DEF StoreInv, Undisturbed

\* The steps of cleanup: Cleaner goes to x.
LEMMA CleanerStepKeeps ==
  ASSUME StoreInv, NEW x \in CleanerPlace, pc' = [pc EXCEPT ![Cleaner] = x], up, up' = up,
         scope' = scope, copy' = copy, team' \in Content, run' \in Content,
         ~disturbed' => /\ \A c \in Call : Resting(c)
                        /\ CleanerInStep'
                        /\ x = "returned" => LoadTeam' = team' /\ LoadRun' = run',
         x \notin {"idle", "crashed"}
  PROVE  StoreInv'
  <1>1. Cleaner \in Process /\ Places /\ Cleaner \notin Call /\ copy' \in [Call -> Content]
    BY ConstantsOK DEF StoreInv, Places, Process
  <1>2. Places' /\ x \in Place
    BY <1>1, PlacesKept
  <1>3. ASSUME ~disturbed'
        PROVE  Undisturbed'
    <2>1. \A q \in Process \ {Cleaner} : Resting(q)
      BY <1>3 DEF Process
    <2>2. /\ OneAtATime'
          /\ \A c \in Call \ {Cleaner} : CallInStep(c)'
          /\ x \notin {"idle", "returned", "crashed"} => ~AllRest'
      BY <1>1, <1>2, <2>1, StepOfOne
    <2>3. \A c \in Call : CallInStep(c)'
      BY <1>1, <2>2
    <2>4. QED
      BY <1>3, <2>2, <2>3 DEF Undisturbed
  <1>4. QED
    BY <1>2, <1>3 DEF StoreInv, Undisturbed

\* While cleanup is under way and nothing was disturbed, the calls rest.
LEMMA CallsRest ==
  ASSUME StoreInv, ~Resting(Cleaner)
  PROVE  up /\ (~disturbed => CleanerInStep /\ \A c \in Call : Resting(c))
  <1>1. up
    BY DEF StoreInv, AllRest, Process
  <1>2. ~disturbed => CleanerInStep /\ \A c \in Call : Resting(c)
    BY <1>1, Alone, ConstantsOK DEF StoreInv, Undisturbed, Process
  <1>3. QED
    BY <1>1, <1>2

LEMMA ClearTeamKeeps ==
  ASSUME StoreInv, ClearTeam
  PROVE  StoreInv'
  <1>1. pc' = [pc EXCEPT ![Cleaner] = "clearRun"] /\ scope' = scope /\ copy' = copy /\ up
        /\ up' = up /\ team' = {} /\ run' = run /\ disturbed' = (disturbed \/ ~AllRest)
    BY DEF ClearTeam, Goto
  <1>2. pc'[Cleaner] = "clearRun" /\ "clearRun" \in CleanerPlace
    BY <1>1 DEF StoreInv, Places, Process, CleanerPlace
  <1>3. team' \in Content /\ run' \in Content
    BY <1>1 DEF StoreInv, Content
  <1>4. CleanerInStep'
    BY <1>1, <1>2 DEF CleanerInStep, At
  <1>5. ~disturbed' => \A c \in Call : Resting(c)
    BY <1>1 DEF AllRest, Process
  <1>6. QED
    BY <1>1, <1>2, <1>3, <1>4, <1>5, CleanerStepKeeps

LEMMA ClearRunKeeps ==
  ASSUME StoreInv, ClearRun
  PROVE  StoreInv'
  <1>1. pc' = [pc EXCEPT ![Cleaner] = "deleteTeam"] /\ pc[Cleaner] = "clearRun"
        /\ scope' = scope /\ copy' = copy /\ up' = up /\ team' = team /\ run' = {}
        /\ disturbed' = disturbed
    BY DEF ClearRun, Goto, At
  <1>2. pc'[Cleaner] = "deleteTeam" /\ "deleteTeam" \in CleanerPlace /\ ~Resting(Cleaner)
    BY <1>1 DEF StoreInv, Places, Process, CleanerPlace, Resting
  <1>3. team' \in Content /\ run' \in Content
    BY <1>1 DEF StoreInv, Content
  <1>4. ~disturbed => CleanerInStep'
    BY <1>1, <1>2, CallsRest DEF CleanerInStep, At
  <1>5. QED
    BY <1>1, <1>2, <1>3, <1>4, CallsRest, CleanerStepKeeps

LEMMA DeletesKeep ==
  ASSUME StoreInv, DeleteTeam \/ DeleteRun
  PROVE  StoreInv'
  <1>1. scope' = scope /\ copy' = copy /\ up' = up /\ team' = team /\ run' = run
        /\ disturbed' = disturbed
    BY DEF DeleteTeam, DeleteRun, memory
  <1>2. team' \in Content /\ run' \in Content
    BY <1>1 DEF StoreInv
  <1>3. CASE DeleteTeam
    <2>1. pc' = [pc EXCEPT ![Cleaner] = "deleteRun"] /\ pc[Cleaner] = "deleteTeam"
          /\ savedTeam' = Absent
      BY <1>3 DEF DeleteTeam, After, Goto, At
    <2>2. pc'[Cleaner] = "deleteRun" /\ "deleteRun" \in CleanerPlace /\ ~Resting(Cleaner)
      BY <2>1 DEF StoreInv, Places, Process, CleanerPlace, Resting
    <2>3. ~disturbed => CleanerInStep'
      BY <1>1, <2>1, <2>2, CallsRest DEF CleanerInStep, At
    <2>4. QED
      BY <1>1, <1>2, <2>1, <2>2, <2>3, CallsRest, CleanerStepKeeps
  <1>4. CASE DeleteRun
    <2>1. pc' = [pc EXCEPT ![Cleaner] = "deleteLegacy"] /\ pc[Cleaner] = "deleteRun"
          /\ savedRun' = Absent /\ savedTeam' = savedTeam
      BY <1>4 DEF DeleteRun, After, Goto, At
    <2>2. pc'[Cleaner] = "deleteLegacy" /\ "deleteLegacy" \in CleanerPlace /\ ~Resting(Cleaner)
      BY <2>1 DEF StoreInv, Places, Process, CleanerPlace, Resting
    <2>3. ~disturbed => CleanerInStep'
      BY <1>1, <2>1, <2>2, CallsRest DEF CleanerInStep, At
    <2>4. QED
      BY <1>1, <1>2, <2>1, <2>2, <2>3, CallsRest, CleanerStepKeeps
  <1>5. QED
    BY <1>3, <1>4

LEMMA DeleteLegacyKeeps ==
  ASSUME StoreInv, DeleteLegacy
  PROVE  StoreInv'
  <1>1. pc' = [pc EXCEPT ![Cleaner] = "returned"] /\ pc[Cleaner] = "deleteLegacy"
        /\ scope' = scope /\ copy' = copy /\ up' = up /\ team' = team /\ run' = run
        /\ disturbed' = disturbed /\ legacy' = Absent
        /\ savedTeam' = savedTeam /\ savedRun' = savedRun
    BY DEF DeleteLegacy, After, Goto, At, memory
  <1>2. pc'[Cleaner] = "returned" /\ "returned" \in CleanerPlace /\ ~Resting(Cleaner)
    BY <1>1 DEF StoreInv, Places, Process, CleanerPlace, Resting
  <1>3. team' \in Content /\ run' \in Content
    BY <1>1 DEF StoreInv
  <1>4. CleanerInStep'
    BY <1>2 DEF CleanerInStep, At
  <1>5. ~disturbed => team = {} /\ run = {} /\ savedTeam = Absent /\ savedRun = Absent
    BY <1>1, <1>2, CallsRest DEF CleanerInStep, At
  <1>6. ~disturbed => LoadTeam' = team' /\ LoadRun' = run'
    BY <1>1, <1>5 DEF LoadTeam, LoadRun
  <1>7. QED
    BY <1>1, <1>2, <1>3, <1>4, <1>6, CallsRest, CleanerStepKeeps

LEMMA CrashKeeps ==
  ASSUME StoreInv, Crash
  PROVE  StoreInv'
  <1>1. Places'
    BY DEF Crash, StoreInv, Places, Place, CallPlace, CleanerPlace, Process
  <1>2. AllRest'
    BY DEF Crash, AllRest, Resting, StoreInv, Places
  <1>3. QED
    BY <1>1, <1>2 DEF Crash, StoreInv, Undisturbed, Content

LEMMA RestartKeeps ==
  ASSUME StoreInv, TypeOK, Restart
  PROVE  StoreInv'
  <1>1. Places' /\ AllRest /\ AllRest' /\ up'
    BY DEF Restart, StoreInv, Places, AllRest, Resting
  <1>2. team' = LoadTeam /\ run' = LoadRun /\ LoadTeam' = LoadTeam /\ LoadRun' = LoadRun
    BY DEF Restart, saved, LoadTeam, LoadRun
  <1>3. LoadTeam \in Content /\ LoadRun \in Content
    BY DEF TypeOK, LoadTeam, LoadRun, Content
  <1>4. OneAtATime'
    BY <1>1 DEF OneAtATime, AllRest
  <1>5. \A c \in Call : CallInStep(c)'
    BY <1>1 DEF CallInStep, AllRest, Resting, At, Process
  <1>6. CleanerInStep'
    BY <1>1 DEF CleanerInStep, AllRest, Resting, At, Process
  <1>7. QED
    BY <1>1, <1>2, <1>3, <1>4, <1>5, <1>6 DEF StoreInv, Undisturbed
LEMMA InitStore == Init => TypeOK /\ StoreInv
  <1> SUFFICES ASSUME Init
               PROVE  TypeOK /\ StoreInv
    OBVIOUS
  <1>1. pc = [p \in Process |-> "idle"] /\ scope \in [Call -> Scope]
        /\ copy \in [Call -> Content] /\ up = TRUE /\ disturbed = FALSE /\ crashes = 0
        /\ team = LoadTeam /\ run = LoadRun
    BY DEF Init, Content
  <1>2. savedTeam \in Content \cup {Absent} /\ savedRun \in Content \cup {Absent}
        /\ legacy \in Content \cup {Absent}
    BY DEF Init, Content
  <1>3. team \in Content /\ run \in Content
    BY <1>1, <1>2 DEF LoadTeam, LoadRun, Content
  <1>4. TypeOK
    <2>1. pc \in [Process -> Place]
      BY <1>1 DEF Place
    <2>2. crashes \in 0..MaxCrashes
      BY <1>1, ConstantsOK
    <2>3. QED
      BY <1>1, <1>2, <1>3, <2>1, <2>2 DEF TypeOK
  <1>5. Places
    BY <1>1 DEF Places, Place, CallPlace, CleanerPlace, Process
  <1>6. Undisturbed
    BY <1>1 DEF Undisturbed, OneAtATime, CallInStep, CleanerInStep, At, Resting, Process
  <1>7. QED
    BY <1>1, <1>3, <1>4, <1>5, <1>6 DEF StoreInv

LEMMA StepTyped == TypeOK /\ StoreInv /\ [Next]_vars => TypeOK'
  <1> SUFFICES ASSUME TypeOK, StoreInv, [Next]_vars
               PROVE  TypeOK'
    OBVIOUS
  <1> USE DEF TypeOK, memory, saved, Goto
  <1>1. ASSUME NEW c \in Call, Change(c)
        PROVE  TypeOK'
    BY <1>1 DEF Change, Content, Scope, Place
  <1>2. ASSUME NEW c \in Call, ChangeRun(c)
        PROVE  TypeOK'
    BY <1>2 DEF ChangeRun, Content, Place
  <1>3. ASSUME NEW c \in Call, CopyState(c)
        PROVE  TypeOK'
    BY <1>3 DEF CopyState, Place
  <1>4. ASSUME NEW c \in Call, SaveTeam(c)
        PROVE  TypeOK'
    BY <1>4 DEF SaveTeam, After, At, Place
  <1>5. ASSUME NEW c \in Call, SaveRun(c)
        PROVE  TypeOK'
    BY <1>5 DEF SaveRun, After, At, Place
  <1>6. ASSUME NEW p \in Process, StoreFails(p) \/ Abandon(p)
        PROVE  TypeOK'
    <2>1. pc' \in [Process -> Place]
      BY <1>6 DEF StoreFails, Abandon, Storing, After, Place
    <2>2. QED
      BY <1>6, <2>1 DEF StoreFails, Abandon
  <1>7. CASE ClearTeam \/ ClearRun
    BY <1>7 DEF ClearTeam, ClearRun, Content, Place
  <1>8. CASE DeleteTeam \/ DeleteRun \/ DeleteLegacy
    BY <1>8 DEF DeleteTeam, DeleteRun, DeleteLegacy, After, At, Place
  <1>9. CASE Crash
    <2>1. pc' \in [Process -> Place]
      BY <1>9 DEF Crash, Place
    <2>2. crashes' \in 0..MaxCrashes
      BY <1>9, ConstantsOK DEF Crash
    <2>3. team' \in Content /\ run' \in Content
      BY <1>9 DEF Crash, Content
    <2>4. QED
      BY <1>9, <2>1, <2>2, <2>3 DEF Crash
  <1>10. CASE Restart
    BY <1>10 DEF Restart, LoadTeam, LoadRun, Content
  <1>11. CASE UNCHANGED vars
    BY <1>11 DEF vars
  <1>12. QED
    BY <1>1, <1>2, <1>3, <1>4, <1>5, <1>6, <1>7, <1>8, <1>9, <1>10, <1>11 DEF Next

LEMMA StepKeepsStore == TypeOK /\ StoreInv /\ [Next]_vars => StoreInv'
  <1> SUFFICES ASSUME TypeOK, StoreInv, [Next]_vars
               PROVE  StoreInv'
    OBVIOUS
  <1>1. CASE UNCHANGED vars
    BY <1>1 DEF vars, StoreInv, Places, Undisturbed, OneAtATime, CallInStep, CleanerInStep,
       AllRest, Resting, At, LoadTeam, LoadRun
  <1>2. CASE ClearTeam \/ ClearRun \/ DeleteTeam \/ DeleteRun \/ DeleteLegacy
    BY <1>2, ClearTeamKeeps, ClearRunKeeps, DeletesKeep, DeleteLegacyKeeps
  <1>3. CASE Crash \/ Restart
    BY <1>3, CrashKeeps, RestartKeeps
  <1>4. ASSUME NEW c \in Call,
               Change(c) \/ ChangeRun(c) \/ CopyState(c) \/ SaveTeam(c) \/ SaveRun(c)
        PROVE  StoreInv'
    BY <1>4, ChangeKeeps, ChangeRunKeeps, CopyKeeps, SaveTeamKeeps, SaveRunKeeps
  <1>5. ASSUME NEW p \in Process, StoreFails(p) \/ Abandon(p)
        PROVE  StoreInv'
    BY <1>5, DisturbanceKeeps
  <1>6. QED
    BY <1>1, <1>2, <1>3, <1>4, <1>5 DEF Next

\* For every number of calls, crashes and interruptions the values have their types.
THEOREM StoreTypes == Spec => []TypeOK
  <1>1. Spec => [](TypeOK /\ StoreInv)
    BY InitStore, StepTyped, StepKeepsStore, PTL DEF Spec
  <1>2. QED
    BY <1>1, PTL

\* Whatever the calls change, and wherever the program crashed before, calls that ran one
\* at a time and were not disturbed left the memory saved: a restart loads what the team
\* sees, and nothing after a cleanup.
THEOREM QuietStateIsSaved == Spec => []QuietTeamIsSaved
  <1>1. Spec => [](TypeOK /\ StoreInv)
    BY InitStore, StepTyped, StepKeepsStore, PTL DEF Spec
  <1>2. TypeOK /\ StoreInv => QuietTeamIsSaved
    BY DEF StoreInv, Undisturbed, QuietTeamIsSaved
  <1>3. QED
    BY <1>1, <1>2, PTL
=============================================================================
