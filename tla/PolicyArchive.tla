---------------------------- MODULE PolicyArchive ----------------------------
(***************************************************************************)
(* What PolicyService promises about published policies: there is one      *)
(* current policy, every other published policy is in the history until it *)
(* is deleted, and a publish is one step.  Drafts come from outside.       *)
(***************************************************************************)
CONSTANTS
  Ids,        \* policy ids
  Bodies,     \* what policies say
  Standard,   \* the body of a default policy
  None        \* no policy

VARIABLES
  current,    \* the current policy, None before the first publish
  history     \* per id: the body of the historical policy, None if there is none

vars == <<current, history>>

Documents == [id : Ids, body : Bodies]

TypeOK ==
  /\ current \in Documents \cup {None}
  /\ history \in [Ids -> Bodies \cup {None}]

\* A policy is not current and historical at once, and nothing is historical
\* before something is current.
Exclusive ==
  /\ current # None => history[current.id] = None
  /\ current = None => \A i \in Ids : history[i] = None

Init == TypeOK /\ Exclusive

\* What the history gains when the current policy is replaced: that policy, or
\* a default one under an id of its own if there was none.
Retired ==
  IF current # None THEN {current}
  ELSE [id : {i \in Ids : history[i] = None}, body : {Standard}]

\* A historical policy is promoted as it is; any other comes from the draft.
Promote(p) ==
  /\ current # None => p.id # current.id
  /\ history[p.id] \in {None, p.body}
  /\ current' = p
  /\ \E old \in Retired :
       /\ old.id # p.id
       /\ history' = [history EXCEPT ![p.id] = None, ![old.id] = old.body]

Remove(i) ==
  /\ history[i] # None
  /\ history' = [history EXCEPT ![i] = None]
  /\ UNCHANGED current

Next == (\E p \in Documents : Promote(p)) \/ (\E i \in Ids : Remove(i))

Spec == Init /\ [][Next]_vars

=============================================================================
