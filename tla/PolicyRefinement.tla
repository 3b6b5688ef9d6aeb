--------------------------- MODULE PolicyRefinement ---------------------------
(***************************************************************************)
(* PolicyService with one mover at a time implements PolicyArchive.  A     *)
(* publish takes effect when the bytes of the archived policy are written; *)
(* until then the archive looks as the publisher found it, though its      *)
(* files are already being replaced.                                       *)
(***************************************************************************)
EXTENDS PolicyService

ASSUME NoDirIsNoPolicy == NoDir \notin Bodies \cup [id : Ids, body : Bodies]

Document(p) == [id |-> p.id, body |-> p.body]

Publishing == {r \in Requests : Replacing(r)}

CurrentDocument ==
  IF \E r \in Publishing : TRUE
  THEN LET old == current[CHOOSE r \in Publishing : TRUE]
       IN IF old = Null THEN NoDir ELSE Document(old)
  ELSE IF Readable("current") THEN Document(store["current"]) ELSE NoDir

\* The historical policy being published has been read and may be deleted.
Reviving(i) == {r \in Publishing : found[r].type = "Historical" /\ arg[r] = i}

HistoryBody(i) ==
  IF Reviving(i) # {} THEN found[CHOOSE r \in Reviving(i) : TRUE].body
  ELSE IF Readable(i) THEN store[i].body ELSE NoDir

Archive == INSTANCE PolicyArchive WITH
  current <- CurrentDocument,
  history <- [i \in Ids |-> HistoryBody(i)],
  Standard <- DefaultBody,
  None <- NoDir

\* Whatever saves and reads run beside it, a publish moves policies between
\* current and history in one indivisible step, and a delete removes one
\* policy: PublishAsync's five file-system phases are not visible afterwards.
ImplementsArchive == Archive!Spec

=============================================================================
