---------------------------- MODULE AtomicManifest ----------------------------
(***************************************************************************)
(* What SessionStore (session/store.py) promises its callers, the CLI and  *)
(* the hooks of a running session: a manifest that is created and changed  *)
(* one mutation at a time, and deleted.  ManifestStore implements it with  *)
(* lock files, temporary files and renames.                                *)
(*                                                                         *)
(* From the moment a delete has begun less is promised: the mutation of an *)
(* update may be applied to a manifest that has been replaced or removed.  *)
(***************************************************************************)
CONSTANTS Procs, None

VARIABLES
    content,   \* None, or who created the manifest and whose updates it has
    deleting   \* a delete has begun

avars == <<content, deleting>>

Content == [by : Procs \cup {None}, applied : SUBSET Procs]

Fresh(p) == [by |-> p, applied |-> {}]
Mutate(m, p) == [m EXCEPT !.applied = @ \cup {p}]

Init == content \in {None, Fresh(None)} /\ deleting = FALSE

Write(p) ==
    /\ content' = Fresh(p)
    /\ UNCHANGED deleting

Update(p) ==
    /\ \E m \in IF deleting THEN Content ELSE {content} \ {None} : content' = Mutate(m, p)
    /\ UNCHANGED deleting

BeginDelete == deleting' = TRUE /\ UNCHANGED content

Delete ==
    /\ deleting
    /\ content' = None
    /\ UNCHANGED deleting

Next == BeginDelete \/ Delete \/ \E p \in Procs : Write(p) \/ Update(p)

Spec == Init /\ [][Next]_avars

=============================================================================
