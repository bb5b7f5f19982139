------------------------- MODULE FollowupArtifacts -------------------------
(***************************************************************************)
(* The pull request follow-up artifact store (components/github/           *)
(* pr_followup_artifacts).  A family of artifacts is an append-only        *)
(* history of snapshots and a canonical copy of one of them.  Every write  *)
(* is two durable steps, history first; all of it happens under the        *)
(* binding's publication lock, so another process only sees the state      *)
(* between the two steps when the writer died there.                       *)
(*                                                                         *)
(* A snapshot's sequence number is its index in the history.  "ok" is      *)
(* FALSE for a file that no longer parses; "spoiled" says the same of the  *)
(* canonical file.  A snapshot is bound to the head it was written for.    *)
(***************************************************************************)
EXTENDS Integers, Sequences, FiniteSets, FiniteSetsExt

Missing == 0

EmptyFamily == [hist |-> <<>>, canon |-> Missing, spoiled |-> FALSE]

Snapshot(head, v) == [head |-> head, v |-> v, ok |-> TRUE]

\* Mutant: the canonical file is replaced before the history file exists.
publish_artifact_canonical_first(f, head, v) ==
    LET h == Append(f.hist, Snapshot(head, v))
    IN  << [f EXCEPT !.canon = Len(h), !.spoiled = FALSE],
           [f EXCEPT !.hist = h, !.canon = Len(h), !.spoiled = FALSE] >>

\* The two durable states a publication passes through.
publish_artifact(f, head, v) ==
    LET h == Append(f.hist, Snapshot(head, v))
    IN  << [f EXCEPT !.hist = h],
           [f EXCEPT !.hist = h, !.canon = Len(h), !.spoiled = FALSE] >>

\* A snapshot counts when it parses and is bound to this very head.
validate_artifact_value(s, head) == s.ok /\ s.head = head

\* The snapshots of the family that count for this head.
recoverable_history_candidates(f, head) ==
    {i \in DOMAIN f.hist : validate_artifact_value(f.hist[i], head)}

restore_canonical_from_history(f, i) == [f EXCEPT !.canon = i, !.spoiled = FALSE]

\* A canonical file names a history snapshot that exists, counts and is equal.
validate_canonical_matches_immutable_history(f, head) ==
    f.canon \in recoverable_history_candidates(f, head)

read_recoverable_current_json(f, head) ==
    IF f.canon = Missing THEN "missing"
    ELSE IF f.spoiled \/ ~validate_canonical_matches_immutable_history(f, head) THEN "corrupt"
    ELSE "valid"

\* Sequence allocation reads the whole history and refuses to continue past
\* a file it cannot parse.  The canonical file of another family must parse
\* too; the one about to be replaced is skipped.
recover_sequence_state(consumed, others) ==
    /\ \A f \in others \cup {consumed} : \A i \in DOMAIN f.hist : f.hist[i].ok
    /\ \A f \in others : ~f.spoiled

\* A write keyed by a replay source finds its own earlier publication in the
\* history and restores it instead of publishing again.
replayed(f, head, src) ==
    {i \in recoverable_history_candidates(f, head) : f.hist[i].v.src = src}

\* Mutant: only the canonical file is consulted.
committed_terminal_canonical(f, head) ==
    IF read_recoverable_current_json(f, head) = "valid" THEN {f.canon} ELSE {}

\* publish_terminal_once / resolve_committed_terminal: a terminal snapshot in
\* the history is final, whether or not its canonical copy was written.
committed_terminal(f, head) == recoverable_history_candidates(f, head)
=============================================================================
