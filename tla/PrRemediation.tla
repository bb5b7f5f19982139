--------------------------- MODULE PrRemediation ---------------------------
(***************************************************************************)
(* The remediation loop of the pull request follow-up: reserve a launch,   *)
(* invoke the agent, promote and validate its result, and publish a        *)
(* terminal failure, all accounted in the engine-owned retry state         *)
(* (components/github/pr_remediation).  Executions of the same run may     *)
(* overlap: the daemon's and an operator's resume.  Each critical section  *)
(* under the publication lock is one action; it is computed as the "trail" *)
(* of disks it leaves, and an execution that dies inside it leaves one of  *)
(* the earlier ones.                                                       *)
(***************************************************************************)
EXTENDS FollowupArtifacts, RemediationResults, SequencesExt

CONSTANTS
    Executions,   \* executions of the run that may be alive together
    Configs,      \* the retry budgets an operator may configure
    Answers,      \* the qualities of an agent's result that are explored
    MaxLaunches,  \* launches reserved, over all scopes
    MaxStarts,    \* executions started, resumes included
    MaxFaults,    \* executions that die and artifact files damaged, together
    MaxHead,      \* heads of the pull request branch
    MaxPlan,      \* remediation plans built
    RetuneLive    \* TRUE: the budget may be edited while an execution lives

Budget == [attempts : Nat \ {0}, validation : Nat \ {0}, stale : Nat \ {0}]
\* What the agent may leave in its result file; a wrapper is the failure
\* result the executor writes when the agent left none.
Quality == {"good", "unsuccessful", "malformed", "stale", "wrapper"}
ASSUME AnswersAssumption == Answers \subseteq Quality
ASSUME ConfigsAssumption == Configs \subseteq Budget /\ Configs # {}

VARIABLES
    disk,     \* the artifact families and the agent's per-launch result files
    head,     \* current head of the pull request branch
    plan,     \* artifact sequence of the current remediation plan
    at,       \* the step the run's newest checkpoint resumes at
    cfg,      \* configured retry budget
    ex,       \* each execution: its step, its budget and its local copies
    starts, deaths, damage

vars == <<disk, head, plan, at, cfg, ex, starts, deaths, damage>>

MaxAttempts == Max({c.attempts : c \in Configs})
Token == (1..MaxPlan) \X (1..MaxAttempts)
NoToken == <<0, 0>>
NoState == [scope |-> <<0, 0>>]
NoResult == [kind |-> "none", q |-> "wrapper", tok |-> NoToken, src |-> <<>>]
NoSource == <<>>

Scope == <<head, plan>>

-----------------------------------------------------------------------------
\* Retry state on disk.

validation_types == {"valid", "fixable_malformed", "malformed_cap_exhausted", "stale_artifact",
                     "stale_artifact_cap_exhausted", "valid_but_unsuccessful",
                     "unsuccessful_remediation_cap_exhausted"}

\* Snapshots of one scope since its newest tombstone, which restarts the chain.
Tombstones(f, sc) == {i \in DOMAIN f.hist : f.hist[i].ok /\ f.hist[i].v.scope = sc /\ f.hist[i].v.reset}
ResetAt(f, sc) == IF Tombstones(f, sc) = {} THEN 0 ELSE Max(Tombstones(f, sc))
scan_retry_history(f, sc) ==
    {i \in DOMAIN f.hist : f.hist[i].ok /\ f.hist[i].v.scope = sc /\ i >= ResetAt(f, sc)}

\* The predecessor chain must be unbroken and no unreadable file may follow
\* the reset.  0: no snapshot of this scope; -1: corruption.
unbroken_chain(f, chain) ==
    \A i \in chain : f.hist[i].v.pred = Max({j \in chain : j < i} \cup {Missing})

newest_of_chain(f, chain, reset) ==
    IF ~unbroken_chain(f, chain) \/ \E i \in DOMAIN f.hist : ~f.hist[i].ok /\ i >= reset
    THEN -1 ELSE Max(chain \cup {Missing})

latest_compact_retry_snapshot(f, sc) ==
    newest_of_chain(f, scan_retry_history(f, sc), ResetAt(f, sc))

\* The canonical copy contradicts the history: it is ahead of it, or it is
\* gone or unreadable and the history has nothing to restore it from.
canonical_contradicts(f, sc, cur, latest) ==
    \/ cur = "valid" /\ f.hist[f.canon].v.scope = sc /\ latest < f.canon
    \/ cur = "missing" /\ latest = Missing /\ f.hist # <<>>
    \/ cur = "corrupt" /\ (latest = Missing \/ (~f.spoiled /\ f.canon > latest))

recover_retry_state(d, latest, contradicted) ==
    IF contradicted \/ latest = -1 THEN [err |-> TRUE, st |-> NoState, d |-> d]
    ELSE IF latest = Missing THEN [err |-> FALSE, st |-> NoState, d |-> d]
    ELSE [err |-> FALSE, st |-> d.retry.hist[latest].v,
          d |-> [d EXCEPT !.retry = restore_canonical_from_history(@, latest)]]

reconcile_canonical(d, sc, latest) ==
    recover_retry_state(d, latest,
        canonical_contradicts(d.retry, sc, read_recoverable_current_json(d.retry, sc[1]), latest))

\* load_matching_state: the newest snapshot of the scope, restored as the
\* canonical copy when that lags behind; the error is a corruption.
load_matching_state(d, sc) ==
    reconcile_canonical(d, sc, latest_compact_retry_snapshot(d.retry, sc))

Writable(d) == recover_sequence_state(d.retry, {d.result, d.terminal})
WritableResult(d) == recover_sequence_state(d.result, {d.retry, d.terminal})

\* persist: the retry state goes through history and canonical, chained to
\* the canonical snapshot it replaces.
retry_steps(d, steps) == << [d EXCEPT !.retry = steps[1]], [d EXCEPT !.retry = steps[2]] >>

persist(d, st) ==
    retry_steps(d, publish_artifact(d.retry, st.scope[1], [st EXCEPT !.pred = d.retry.canon]))

\* The first reservation of a scope has no predecessor.
persist_first(d, st) == retry_steps(d, publish_artifact(d.retry, st.scope[1], st))

exhaustion_reason_against(cnt, bud) ==
    IF cnt.validation >= bud.validation THEN "validation"
    ELSE IF cnt.stale >= bud.stale THEN "stale" ELSE "none"

expands(old, new) == \E k \in DOMAIN old : new[k] > old[k]

Requested(st, c) == [k \in DOMAIN st.bud |-> Min({st.bud[k], c[k]})]

\* The smaller of both maxima, but never below what is already consumed.
tightened_budget(st, c) == [k \in DOMAIN st.bud |-> Max({Requested(st, c)[k], st.cnt[k]})]

policy_transition(st, bud, reason) ==
    [st EXCEPT !.bud = bud, !.reason = reason,
               !.tt = IF reason # "none" THEN "policy_tightened_exhausted" ELSE "policy_tightened"]

persist_policy(d, st, next) ==
    IF next.bud = st.bud /\ next.reason = st.reason
    THEN [err |-> FALSE, st |-> st, trail |-> <<d>>]
    ELSE [err |-> FALSE, st |-> next, trail |-> <<d>> \o persist(d, next)]

\* reconcile_retry_policy_locked: maxima only shrink; an expansion is an error.
reconcile_retry_policy(d, st, c) ==
    IF expands(st.bud, c) THEN [err |-> TRUE, st |-> st, trail |-> <<d>>]
    ELSE persist_policy(d, st, policy_transition(st, tightened_budget(st, c),
             IF st.reason # "none" THEN st.reason
             ELSE exhaustion_reason_against(st.cnt, Requested(st, c))))

\* There is nothing to reconcile before the first reservation.
reconcile_loaded(d, st, c) ==
    IF st = NoState THEN [err |-> FALSE, st |-> st, trail |-> <<d>>]
    ELSE reconcile_retry_policy(d, st, c)

Active(st) == st # NoState /\ st.phase \in {"reserved", "launched"}

-----------------------------------------------------------------------------
\* Reserving a launch.

result_matches_unvalidated_launch(r, st) ==
    /\ r.kind = "raw"
    /\ IF r.q = "wrapper" THEN r.tok = st.tok ELSE st.promoted

\* promote_remediation_launch_result_locked: the launch's own file becomes
\* the canonical result, outside any history.
promote_remediation_launch_result(d, tok) ==
    [d EXCEPT !.current = [kind |-> "raw", q |-> d.files[tok], tok |-> tok, src |-> NoSource]]

recover_launch_result(d, st) ==
    LET matches == result_matches_unvalidated_launch(d.current, st)
    IN  IF d.files[st.tok] # "none"
        THEN st.phase = "completed" => matches
        ELSE /\ matches
             /\ IF st.phase = "launched" THEN st.promoted
                ELSE d.current.q = "wrapper" /\ d.current.tok = st.tok

\* Whether the newest launch is one a resume may finish instead of repeating.
recoverable_crash_phase(st, over) ==
    \/ st.phase = "completed" /\ st.tt \in {"launch_completed", "policy_tightened"}
    \/ st.phase = "launched" /\ over

Failed(trail) == [out |-> "error", st |-> NoState, trail |-> trail]
Prefixed(trail, o) == [o EXCEPT !.trail = trail \o @]

\* Mutant: the ordinal is taken only from launches that were completed.
next_launch_ordinal_of_completed(st) ==
    IF st = NoState THEN 1
    ELSE IF st.phase = "completed" THEN st.cnt.attempts + 1 ELSE st.cnt.attempts

\* The ordinal is consumed when it is reserved.
next_launch_ordinal(st) == IF st = NoState THEN 1 ELSE st.cnt.attempts + 1

\* reject_launch_beyond_budget: recorded as exhaustion before the error.
reject_launch_beyond_budget(d, st) ==
    Failed(<<d>> \o persist(d, [st EXCEPT !.tt = "next_launch_cap_exhausted", !.reason = "attempts"]))

recovered_launch(st, promoted) ==
    [st EXCEPT !.phase = "completed", !.promoted = @ \/ promoted,
               !.tt = IF st.phase = "launched" THEN "launch_recovered_from_agent_result"
                      ELSE "launch_completed_result_recovered"]

persist_launch(out, d, d1, next) == [out |-> out, st |-> next, trail |-> <<d, d1>> \o persist(d1, next)]

\* recover_agent_result_after_crash, then persist_recovered_launch.
persist_recovered_launch(d, st) ==
    IF d.files[st.tok] # "none"
    THEN persist_launch("recovered", d, promote_remediation_launch_result(d, st.tok), recovered_launch(st, TRUE))
    ELSE persist_launch("recovered", d, d, recovered_launch(st, FALSE))

reserved_state(sc, bud, cnt) ==
    [scope |-> sc, bud |-> bud, cnt |-> cnt, tt |-> "launch_reserved", phase |-> "reserved",
     tok |-> <<sc[2], cnt.attempts>>, pred |-> Missing, reset |-> FALSE, src |-> NoSource,
     promoted |-> FALSE, reason |-> "none"]

persist_reservation(d, st, next) ==
    IF next.cnt.attempts > next.bud.attempts THEN reject_launch_beyond_budget(d, st)
    ELSE [out |-> "reserved", st |-> next,
          trail |-> <<d>> \o (IF st = NoState THEN persist_first(d, next) ELSE persist(d, next))]

reserve_prepared(d, st, sc, c, over) ==
    IF Active(st) /\ ~over THEN Failed(<<d>>)
    ELSE persist_reservation(d, st,
             IF st = NoState
             THEN reserved_state(sc, c, [attempts |-> next_launch_ordinal(st), validation |-> 0, stale |-> 0])
             ELSE reserved_state(sc, st.bud, [st.cnt EXCEPT !.attempts = next_launch_ordinal(st)]))

exhausted(st) == st # NoState /\ st.reason # "none"

\* reserve_launch_with_baseline, one critical section: load, reconcile the
\* policy, refuse what is exhausted, recover a crashed launch or reserve.
reserve_reconciled(d, st, sc, c, over) ==
    IF st = NoState \/ ~recoverable_crash_phase(st, over) THEN reserve_prepared(d, st, sc, c, over)
    ELSE IF st.phase = "completed" /\ next_launch_ordinal(st) > st.bud.attempts
    THEN reject_launch_beyond_budget(d, st)
    ELSE IF d.current.kind # "validated" /\ recover_launch_result(d, st)
    THEN persist_recovered_launch(d, st)
    ELSE reserve_prepared(d, st, sc, c, over)

reserve_unless_exhausted(rec, sc, c, over) ==
    IF rec.err \/ exhausted(rec.st) THEN Failed(rec.trail)
    ELSE Prefixed(rec.trail, reserve_reconciled(Last(rec.trail), rec.st, sc, c, over))

reserve_loaded(d, load, sc, c, over) ==
    IF load.err \/ ~Writable(d) THEN Failed(<<d>>)
    ELSE reserve_unless_exhausted(reconcile_loaded(load.d, load.st, c), sc, c, over)

reserve_launch(d, sc, c, over) == reserve_loaded(d, load_matching_state(d, sc), sc, c, over)

-----------------------------------------------------------------------------
\* Phases of a reserved launch.

\* Mutant: the phase and the ordinal are compared, the owner token is not.
verify_ownership_by_phase(st, own) == st # NoState /\ st.phase = own.phase

verify_ownership(st, own) ==
    st # NoState /\ st.scope = own.scope /\ st.tok = own.tok /\ st.phase = own.phase

\* What is written is the execution's own copy, if the state is still its own.
owned_update(d, load, own, promoted, next) ==
    IF load.err \/ ~Writable(d) \/ ~verify_ownership(load.st, own) THEN Failed(<<d>>)
    ELSE persist_launch("ok", load.d,
             IF promoted THEN promote_remediation_launch_result(load.d, own.tok) ELSE load.d, next)

record_launch_phase(d, own, phase) ==
    owned_update(d, load_matching_state(d, own.scope), own, FALSE,
        [own EXCEPT !.phase = phase,
                    !.tt = IF phase = "launched" THEN "launch_launched" ELSE "launch_completed"])

promote_launch_result(d, own) ==
    owned_update(d, load_matching_state(d, own.scope), own, TRUE,
        [own EXCEPT !.promoted = TRUE, !.tt = "launch_result_promoted"])

-----------------------------------------------------------------------------
\* Validating a result.

\* The identity of what is validated: the exact payload and the launch.
remediation_validation_source_id(r, st) == <<r.q, st.tok>>

\* A result already validated for another launch is replayed with an error.
effective_quality(r, st) ==
    IF r.kind = "validated" /\ r.tok # st.tok /\ r.q # "stale" THEN "malformed" ELSE r.q

\* A source that is already recorded does not advance a counter again.
advances(st, src) == IF st.src = src THEN 0 ELSE 1

Kept(st) == [validation |-> st.cnt.validation, stale |-> st.cnt.stale]

stale_scope_validation(st, adv) ==
    LET s == st.cnt.stale + adv
    IN  [tt |-> IF s >= st.bud.stale THEN "stale_artifact_cap_exhausted" ELSE "stale_artifact",
         cnt |-> [Kept(st) EXCEPT !.stale = s]]

malformed_remediation_validation(st, adv) ==
    LET v == st.cnt.validation + adv
    IN  [tt |-> IF v >= st.bud.validation THEN "malformed_cap_exhausted" ELSE "fixable_malformed",
         cnt |-> [Kept(st) EXCEPT !.validation = v]]

\* The attempt was charged when the launch was reserved.
unsuccessful_remediation_validation(st) ==
    [tt |-> IF st.cnt.attempts >= st.bud.attempts
            THEN "unsuccessful_remediation_cap_exhausted" ELSE "valid_but_unsuccessful",
     cnt |-> Kept(st)]

\* What a result of each quality does to the counters.  RemediationResults
\* says what makes a document stale, malformed, unsuccessful or good.
evaluate_remediation_result(q, st, adv) ==
    CASE q = "stale" -> stale_scope_validation(st, adv)
      [] q = "malformed" -> malformed_remediation_validation(st, adv)
      [] q \in {"unsuccessful", "wrapper"} -> unsuccessful_remediation_validation(st)
      [] OTHER -> [tt |-> "valid", cnt |-> Kept(st)]

exhaustion_reason_for_transition(tt, old) ==
    CASE tt = "malformed_cap_exhausted" -> "validation"
      [] tt = "stale_artifact_cap_exhausted" -> "stale"
      [] tt = "unsuccessful_remediation_cap_exhausted" -> "attempts"
      [] OTHER -> old

\* write_json_artifact_once_locked of the validated result.
result_steps(d, steps, r) ==
    << [d EXCEPT !.result = steps[1]], [d EXCEPT !.result = steps[2], !.current = r] >>

publish_validated_result(d, head0, r) ==
    IF d.current = r THEN <<d>>
    ELSE IF replayed(d.result, head0, r.src) # {} THEN <<[d EXCEPT !.current = r]>>
    ELSE result_steps(d, publish_artifact(d.result, head0, r), r)

validated_state(st, src, ev) ==
    [st EXCEPT !.cnt.validation = ev.cnt.validation, !.cnt.stale = ev.cnt.stale, !.src = src,
               !.tt = ev.tt, !.reason = exhaustion_reason_for_transition(ev.tt, @)]

\* validate_against and apply: counters advance by at most one, within the budget.
legal_advance(st, next) ==
    /\ st.reason = "none"
    /\ \A k \in DOMAIN st.cnt : /\ next.cnt[k] \in st.cnt[k]..(st.cnt[k] + 1)
                                /\ next.cnt[k] <= st.bud[k]

then_publish(trail, st, r) ==
    [out |-> st.tt, st |-> st, trail |-> trail \o publish_validated_result(Last(trail), st.scope[1], r)]

advance_then_publish(trail, st, next, r) ==
    IF ~legal_advance(st, next) THEN Failed(trail)
    ELSE then_publish(trail \o persist(Last(trail), next), next, r)

record_reconciled(rec, src, ev, r, idem) ==
    IF rec.err THEN Failed(rec.trail)
    ELSE IF idem THEN then_publish(rec.trail, validated_state(rec.st, src, ev), r)
    ELSE advance_then_publish(rec.trail, rec.st, validated_state(rec.st, src, ev), r)

record_loaded(d, load, own, src, ev, r, c) ==
    IF load.err \/ ~Writable(d) \/ ~WritableResult(d) \/ ~verify_ownership(load.st, own)
    THEN Failed(<<d>>)
    ELSE IF /\ load.st.src = src
            /\ ev.tt # load.st.tt \/ \E k \in DOMAIN ev.cnt : ev.cnt[k] # load.st.cnt[k]
    THEN Failed(<<load.d>>)
    ELSE record_reconciled(reconcile_retry_policy(load.d, load.st, c), src, ev, r, load.st.src = src)

\* record_validation_and_publish: advance the counters, then publish the
\* result, in one critical section.
record_validation_and_publish(d, own, src, ev, r, c) ==
    record_loaded(d, load_matching_state(d, own.scope), own, src, ev, r, c)

-----------------------------------------------------------------------------
\* The terminal failure.

\* resolve_retry_state_locked: a corrupt retry state is set aside and
\* replaced by an exhausted tombstone that starts a new chain.
terminal_tombstone(sc, c) ==
    [scope |-> sc, bud |-> c, cnt |-> c, tt |-> "terminal_tombstone", phase |-> "completed",
     tok |-> NoToken, pred |-> Missing, reset |-> TRUE, src |-> NoSource, promoted |-> FALSE,
     reason |-> "attempts"]

quarantine_corrupt_retry_state(d) == [d EXCEPT !.retry.canon = Missing, !.retry.spoiled = FALSE]

replace_by_tombstone(d, d1, tombstone) ==
    [st |-> tombstone, trail |-> <<d, d1>> \o persist_first(d1, tombstone)]

resolve_loaded(d, load, sc, c) ==
    IF ~load.err /\ (load.st # NoState \/ d.retry.canon = Missing)
    THEN [st |-> load.st, trail |-> <<load.d>>]
    ELSE replace_by_tombstone(d, quarantine_corrupt_retry_state(d), terminal_tombstone(sc, c))

resolve_retry_state(d, sc, c) == resolve_loaded(d, load_matching_state(d, sc), sc, c)

terminal_steps(d, steps) == << [d EXCEPT !.terminal = steps[1]], [d EXCEPT !.terminal = steps[2]] >>

terminal_failure(st, live) ==
    [active |-> live, reason |-> IF live \/ st = NoState THEN "none" ELSE st.reason]

publish_terminal(d, st, head0, over) ==
    IF read_recoverable_current_json(d.terminal, head0) = "corrupt" THEN Failed(<<d>>)
    ELSE [out |-> "fatal", st |-> NoState,
          trail |-> <<d>> \o terminal_steps(d, publish_artifact(d.terminal, head0,
                                               terminal_failure(st, Active(st) /\ ~over)))]

terminate_reconciled(rec, head0, over) ==
    IF rec.err THEN Failed(rec.trail)
    ELSE Prefixed(rec.trail, publish_terminal(Last(rec.trail), rec.st, head0, over))

terminate_resolved(res, sc, c, over) ==
    Prefixed(res.trail, terminate_reconciled(reconcile_loaded(Last(res.trail), res.st, c), sc[1], over))

\* execute_terminal: a committed terminal stands; otherwise the state is
\* resolved and reconciled and one terminal is published.
execute_terminal(d, sc, c, over) ==
    IF committed_terminal(d.terminal, sc[1]) # {}
    THEN [out |-> "fatal", st |-> NoState,
          trail |-> <<[d EXCEPT !.terminal =
                        restore_canonical_from_history(@, Max(committed_terminal(d.terminal, sc[1])))]>>]
    ELSE terminate_resolved(resolve_retry_state(d, sc, c), sc, c, over)

-----------------------------------------------------------------------------
\* The executions.

Idle == [pc |-> "off", st |-> NoState, c |-> CHOOSE c \in Configs : TRUE, src |-> NoSource, r |-> NoResult]

Init ==
    /\ disk = [retry |-> EmptyFamily, result |-> EmptyFamily, terminal |-> EmptyFamily,
               current |-> NoResult, files |-> [t \in Token |-> "none"]]
    /\ head = 1 /\ plan = 1 /\ at = "remediate"
    /\ cfg \in Configs
    /\ ex = [e \in Executions |-> Idle]
    /\ starts = 0 /\ deaths = 0 /\ damage = 0

Goto(e, pc) == ex' = [ex EXCEPT ![e].pc = pc]
Keep == UNCHANGED <<head, plan, cfg, starts, damage>>

\* An execution dies inside a critical section: what it had written stays.
DiesIn(e, trail) ==
    /\ deaths + damage < MaxFaults
    /\ \E i \in 1..(Len(trail) - 1) : disk' = trail[i]
    /\ ex' = [ex EXCEPT ![e] = Idle] /\ deaths' = deaths + 1
    /\ UNCHANGED at /\ Keep

\* An error of the step fails the run; its checkpoint still names the step.
Errs(e, trail) ==
    /\ disk' = Last(trail) /\ ex' = [ex EXCEPT ![e] = Idle]
    /\ UNCHANGED <<at, deaths>> /\ Keep

\* The step finished: the run moves on to the next one.
Advance(e, step, trail) ==
    /\ disk' = Last(trail) /\ at' = step
    /\ ex' = [ex EXCEPT ![e] = IF step = "failed" THEN Idle ELSE [Idle EXCEPT !.pc = step, !.c = ex[e].c]]
    /\ UNCHANGED deaths /\ Keep

\* The wall clock may have passed the lease of an active launch (retry_lease.rs).
is_lease_expired(d) ==
    IF d.retry.hist # <<>> /\ Active(Last(d.retry.hist).v) THEN BOOLEAN ELSE {FALSE}

\* A resume, by the daemon or by an operator, at the newest checkpoint.
Begin(e) ==
    /\ ex[e].pc = "off" /\ starts < MaxStarts /\ at \notin {"done", "failed"}
    /\ ex' = [ex EXCEPT ![e].pc = at, ![e].c = cfg] /\ starts' = starts + 1
    /\ UNCHANGED <<disk, head, plan, at, cfg, deaths, damage>>

\* remediate_pr_followup up to the reservation.
prepare(e) ==
    /\ ex[e].pc = "remediate"
    /\ \E expired \in is_lease_expired(disk) :
       \E o \in {reserve_launch(disk, Scope, ex[e].c, expired)} :
           \/ DiesIn(e, o.trail)
           \/ o.out = "error" /\ Errs(e, o.trail)
           \/ o.out = "recovered" /\ Advance(e, "validate", o.trail)
           \/ /\ o.out = "reserved"
              /\ Cardinality({i \in DOMAIN disk.retry.hist :
                                disk.retry.hist[i].v.tt = "launch_reserved"}) < MaxLaunches
              /\ disk' = Last(o.trail)
              /\ ex' = [ex EXCEPT ![e].pc = "reserved", ![e].st = o.st]
              /\ UNCHANGED <<at, deaths>> /\ Keep

\* The scope control barrier may end the step with the launch reserved.
scope_control_barrier(e) ==
    /\ ex[e].pc = "reserved"
    /\ ex' = [ex EXCEPT ![e] = Idle]
    /\ UNCHANGED <<disk, at, deaths>> /\ Keep

mark_launched(e) ==
    /\ ex[e].pc = "reserved"
    /\ \E o \in {record_launch_phase(disk, ex[e].st, "launched")} :
           \/ DiesIn(e, o.trail)
           \/ o.out = "error" /\ Errs(e, o.trail)
           \/ /\ o.out = "ok"
              /\ disk' = Last(o.trail)
              /\ ex' = [ex EXCEPT ![e].pc = "launched", ![e].st = o.st]
              /\ UNCHANGED <<at, deaths>> /\ Keep

\* invoke and handle_result_state: the agent writes its own launch's file, or
\* the executor writes the failure wrapper there.
invoke(e) ==
    /\ ex[e].pc = "launched"
    /\ \E q \in Answers : disk' = [disk EXCEPT !.files[ex[e].st.tok] = q]
    /\ Goto(e, "invoked")
    /\ UNCHANGED <<at, deaths>> /\ Keep

\* promote_result; the launch is completed whether or not it worked.
promote_result(e) ==
    /\ ex[e].pc = "invoked"
    /\ \E o \in {promote_launch_result(disk, ex[e].st)} :
           \/ DiesIn(e, o.trail)
           \/ /\ o.out = "error" /\ disk' = Last(o.trail) /\ Goto(e, "unpromoted")
              /\ UNCHANGED <<at, deaths>> /\ Keep
           \/ /\ o.out = "ok" /\ disk' = Last(o.trail)
              /\ ex' = [ex EXCEPT ![e].pc = "promoted", ![e].st = o.st]
              /\ UNCHANGED <<at, deaths>> /\ Keep

complete_launch(e) ==
    /\ ex[e].pc \in {"promoted", "unpromoted"}
    /\ \E o \in {record_launch_phase(disk, ex[e].st, "completed")} :
           \/ DiesIn(e, o.trail)
           \/ (o.out = "error" \/ ex[e].pc = "unpromoted") /\ Errs(e, o.trail)
           \/ o.out = "ok" /\ ex[e].pc = "promoted" /\ Advance(e, "validate", o.trail)

\* validate_remediation_result reads the state and the result, then takes the
\* lock again to record and publish.
prepare_validation(e) ==
    /\ ex[e].pc = "validate"
    /\ \E load \in {load_matching_state(disk, Scope)} :
           IF load.err \/ load.st = NoState \/ disk.current.kind = "none" \/ ~Writable(load.d)
           THEN Errs(e, <<load.d>>)
           ELSE /\ disk' = load.d
                /\ ex' = [ex EXCEPT ![e].pc = "validating", ![e].st = load.st, ![e].r = disk.current]
                /\ UNCHANGED <<at, deaths>> /\ Keep

validate_and_publish(d, own, src, r, c) ==
    record_validation_and_publish(d, own, src,
        evaluate_remediation_result(effective_quality(r, own), own, advances(own, src)),
        [kind |-> "validated", q |-> r.q, tok |-> own.tok, src |-> src], c)

publish_result(e) ==
    /\ ex[e].pc = "validating"
    /\ \E o \in {validate_and_publish(disk, ex[e].st, remediation_validation_source_id(ex[e].r, ex[e].st),
                                      ex[e].r, ex[e].c)} :
           \/ DiesIn(e, o.trail)
           \/ o.out = "error" /\ Errs(e, o.trail)
           \/ o.out = "valid" /\ Advance(e, "push", o.trail)
           \/ /\ o.out \in {"fixable_malformed", "stale_artifact", "valid_but_unsuccessful"}
              /\ Advance(e, "remediate", o.trail)
           \/ /\ o.out \in {"malformed_cap_exhausted", "stale_artifact_cap_exhausted",
                            "unsuccessful_remediation_cap_exhausted"}
              /\ Advance(e, "terminal", o.trail)

\* After a valid result: the local tests pass and the fix is pushed, ending
\* the follow-up or moving the head, or they fail and the plan is rebuilt.
push(e) ==
    /\ ex[e].pc = "push"
    /\ \/ /\ at' = "done" /\ UNCHANGED <<head, plan>>
          /\ ex' = [ex EXCEPT ![e] = Idle]
       \/ /\ head < MaxHead /\ plan < MaxPlan
          /\ head' = head + 1 /\ plan' = plan + 1 /\ at' = "remediate" /\ Goto(e, "remediate")
       \/ /\ plan < MaxPlan
          /\ plan' = plan + 1 /\ at' = "remediate" /\ Goto(e, "remediate") /\ UNCHANGED head
    /\ UNCHANGED <<disk, cfg, starts, deaths, damage>>

terminal(e) ==
    /\ ex[e].pc = "terminal"
    /\ \E expired \in is_lease_expired(disk) :
       \E o \in {execute_terminal(disk, Scope, ex[e].c, expired)} :
           \/ DiesIn(e, o.trail)
           \/ o.out = "error" /\ Errs(e, o.trail)
           \/ o.out = "fatal" /\ Advance(e, "failed", o.trail)

Dies(e) ==
    /\ ex[e].pc # "off" /\ deaths + damage < MaxFaults
    /\ ex' = [ex EXCEPT ![e] = Idle] /\ deaths' = deaths + 1
    /\ UNCHANGED <<disk, at>> /\ Keep

\* The operator edits the configured budget.
Retune ==
    /\ RetuneLive \/ \A e \in Executions : ex[e].pc = "off"
    /\ cfg' \in Configs \ {cfg}
    /\ UNCHANGED <<disk, head, plan, at, ex, starts, deaths, damage>>

\* A retry-state file stops parsing: the canonical one, or the newest history.
Damage ==
    /\ deaths + damage < MaxFaults /\ disk.retry.canon # Missing /\ damage' = damage + 1
    /\ \/ disk' = [disk EXCEPT !.retry.spoiled = TRUE]
       \/ disk' = [disk EXCEPT !.retry.hist[Len(disk.retry.hist)].ok = FALSE]
    /\ UNCHANGED <<head, plan, at, cfg, ex, starts, deaths>>

Step(e) ==
    \/ prepare(e) \/ scope_control_barrier(e) \/ mark_launched(e) \/ invoke(e) \/ promote_result(e)
    \/ complete_launch(e) \/ prepare_validation(e) \/ publish_result(e) \/ push(e) \/ terminal(e)

Next ==
    \/ \E e \in Executions : Begin(e) \/ Step(e) \/ Dies(e)
    \/ Retune \/ Damage

Spec == Init /\ [][Next]_vars

-----------------------------------------------------------------------------
\* Properties.

Entries(sc) == {i \in DOMAIN disk.retry.hist : disk.retry.hist[i].v.scope = sc}
Scopes == {disk.retry.hist[i].v.scope : i \in DOMAIN disk.retry.hist}
Launches(sc) == {i \in Entries(sc) : disk.retry.hist[i].v.tt = "launch_launched"}

\* "prevents continuation from exceeding the configured launch budget": over
\* crashes, resumes, overlapping executions and policy changes, the agent is
\* invoked at most as often in a scope as the budget the scope began with.
LaunchBudget ==
    \A sc \in Scopes :
        Cardinality(Launches(sc)) <= disk.retry.hist[Min(Entries(sc))].v.bud.attempts

\* A death between any two writes loses nothing: while no file is damaged and
\* the head stands, every scope that was ever written loads, with an unbroken
\* chain, and what loads is the newest snapshot written for it.
CrashLoads ==
    damage = 0 /\ head = 1 =>
        \A sc \in Scopes :
            \E load \in {load_matching_state(disk, sc)} :
                ~load.err /\ load.st = disk.retry.hist[Max(Entries(sc))].v

\* Only the newest launch of a plan becomes the canonical result: an execution
\* whose lease ran out and whose launch was superseded cannot promote its file.
PromotionIsNewest ==
    [][disk'.current # disk.current /\ disk'.current.kind = "raw" =>
         \A i \in DOMAIN disk'.retry.hist :
            LET v == disk'.retry.hist[i].v
            IN  v.tt = "launch_launched" /\ v.scope[2] = disk'.current.tok[1] =>
                v.tok[2] <= disk'.current.tok[2]]_vars

\* One head has one terminal failure, however often its step is repeated and
\* wherever an earlier publication of it died.
TerminalOnce ==
    \A i, j \in DOMAIN disk.terminal.hist :
        i # j => disk.terminal.hist[i].head # disk.terminal.hist[j].head

=============================================================================
