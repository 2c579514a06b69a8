---------------------------- MODULE MCTaskBoard ----------------------------
(* Instances of TaskBoard for TLC: one file in a directory.                *)
EXTENDS TaskBoard, TLC

CONSTANTS dir, f1, lead, mate

\* The directory and the file overlap; a file outranks a directory.
Scope1 == {dir, f1}
File1 == {f1}
Overlap1 == {<<r, s>> \in Scope1 \X Scope1 : r = s \/ dir \in {r, s}}
Rank1 == [s \in Scope1 |-> IF s = dir THEN 1 ELSE 2]

\* Tasks are interchangeable.
TaskSymmetry == Permutations(Task)

Write(s) == [scope |-> s, access |-> "ExclusiveWrite"]
ReadOnly(s) == [scope |-> s, access |-> "SharedRead"]

\* A task asks for the directory or for one file.
MCRequestSets == {{Write(dir)}, {Write(f1)}}

NoArgs == [gives |-> {}, status |-> "Pending", assignee |-> None, owner |-> None,
           requested |-> {}, granted |-> {}, review |-> "NotRequested"]
SetStatus(s) == [NoArgs EXCEPT !.gives = {"status"}, !.status = s]

\* One call of update_task for each of its branches.
MCUpdates ==
  {SetStatus("InProgress"), SetStatus("Review"), SetStatus("Completed"),
   [NoArgs EXCEPT !.gives = {"assignee"}],
   [NoArgs EXCEPT !.gives = {"owner"}, !.owner = mate],
   [NoArgs EXCEPT !.gives = {"requested"}]}

\* Updates with a change of owner on the way to review, and of the review state.
ReviewUpdates ==
  {SetStatus("Completed"),
   [SetStatus("Review") EXCEPT !.gives = {"status", "owner"}, !.owner = mate],
   [NoArgs EXCEPT !.gives = {"requested"}],
   [NoArgs EXCEPT !.gives = {"review"}, !.review = "Requested"]}
OneRequest == {{Write(dir)}}
AllLinks == Task \X Task
=============================================================================
