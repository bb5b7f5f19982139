------------------------ MODULE MCWorkspaceOwnership ------------------------
EXTENDS WorkspaceOwnership

\* A daemon run, a child run and a legacy run share a path; one process acts
\* for each at a time.
MCProcs == {"daemon", "child", "legacy"}
MCrun_of == [p \in MCProcs |-> p]

----------------------------------------------------------------------------
(* A software-change configuration with a target profile, as in            *)
(* config/workflow-configs, and what becomes of it in an editor.           *)

T(word) == Text(<<word>>)
OwnRepo == Text(<<"own", "repo">>)
Elsewhere == Text(<<"ssh", "host", "other", "repo">>)

Entry == [id |-> "build", argv |-> <<"cargo", "build">>, paths |-> {}, removes |-> {T("target")},
          env_names_ok |-> TRUE, patterns_compile |-> TRUE, timeout |-> {60},
          capture_limit |-> 1, max_attempts |-> 2, retry_exit_codes |-> {101}]

Manifest == [commands |-> <<Entry>>, groups |-> [t \in {T("checks")} |-> {"build"}]]

Profile ==
    [repo |-> {OwnRepo}, owner |-> {}, name |-> {}, base_branch |-> {T("main")},
     paths |-> [project_subdir |-> T("crate"), artifact_path_base |-> T("crate"),
                diff_path_base |-> T("crate"), work_dir |-> Text(<<"/", "work">>)],
     conventions |-> [branch_template |-> [words |-> <<"issue">>, tokens |-> {"issue_number"}],
                      pr_title_template |-> [words |-> <<>>, tokens |-> {"issue_title"}]],
     excludes |-> <<[exclude |-> TRUE, literal |-> TRUE, path |-> T("target")]>>,
     diff_policy |-> [diff_policy_mode |-> T("strict")],
     groups |-> [target_verify_command_group |-> T("checks")],
     lists |-> [preflight_commands |-> T("git")],
     ecosystem |-> T("rust"),
     guidance |-> [target_prompt_guidance |-> T("tests"), target_review_guidance |-> Empty],
     bootstrap |-> Empty]

Authored ==
    [id |-> "luther", type_id |-> "llxprt-issue-fix-v1", timeout |-> 1, software_change |-> TRUE,
     vars |-> [primary_issue_number |-> T("1"), artifact_dir |-> T("artifacts"),
               ok_label |-> T("ok"), luther_label |-> T("luther"), assignee |-> T("bot")],
     has_repo |-> TRUE, strategy |-> "clone", repo |-> [diff_path_base |-> T("crate")],
     base_relative |-> TRUE, profile |-> {Profile}, manifest |-> {Manifest},
     shell_commands |-> FALSE, discovers |-> TRUE,
     discovery |-> [max_concurrent_runs |-> T("2")]]

\* Another issue: what the daemon overrides anyway.  Another ecosystem,
\* and a transport that the author wrote: a different run.  A path that leaves
\* the repository, and a claim label that is an excluded one: refused.
MCFiles ==
    [authored |-> Authored,
     retargeted |-> [Authored EXCEPT !.vars = insert_var(@, "primary_issue_number", T("2"))],
     rewritten |-> [Authored EXCEPT !.profile = {[Profile EXCEPT !.ecosystem = T("go")]}],
     transported |-> [Authored EXCEPT !.vars = insert_var(@, Url, Elsewhere)],
     escaping |-> [Authored EXCEPT !.profile =
                       {[Profile EXCEPT !.paths["project_subdir"] = T("..")]}],
     misnamed |-> [Authored EXCEPT !.vars = insert_var(@, "ok_label", T("luther"))]]

Request ==
    [repo |-> OwnRepo, issue |-> T("7"), work_dir |-> {Text(<<"/", "w7">>)}, artifact_dir |-> {},
     transport |-> {}, managed |-> TRUE, assigned |-> TRUE, labelled |-> FALSE]

MCRequests == [r \in MCProcs |-> Request]

Good == {"authored", "retargeted", "rewritten", "transported"}

----------------------------------------------------------------------------
(* What the loader and the digests say of these files.                     *)

ASSUME LoaderVerdicts ==
    {v \in DOMAIN MCFiles : resolve_and_validate_workflow_config(MCFiles[v]) # {}} = Good

\* A workflow that drives no repository can leave [repository] out and still
\* loads; it is the digest of its launch that needs the section.
ASSUME RepositoryIsOptional ==
    LET generic == [Authored EXCEPT !.has_repo = FALSE, !.repo = <<>>, !.base_relative = FALSE,
                                    !.profile = {}, !.software_change = FALSE,
                                    !.discovers = FALSE]
    IN  /\ resolve_and_validate_workflow_config(generic) = {generic}
        /\ ~compute_config_digest_ok(generic)

\* The first file decides: a broken production file hides a good one.
ASSUME FirstFileDecides ==
    LET files(first) == [f \in {"production.json", "valid.toml"} |->
                            IF f = "valid.toml" THEN {Authored} ELSE first]
    IN  /\ resolve_workflow_config(files({})) = {}
        /\ resolve_workflow_config(files({MCFiles.escaping})) = {}
        /\ resolve_workflow_config(files({MCFiles.rewritten}))
               = resolve_and_validate_workflow_config(MCFiles.rewritten)

\* Resolving a resolved configuration again changes nothing: also a derived
\* transport is not mistaken for one that somebody chose.
ASSUME ResolutionSettles ==
    \A v \in Good :
        LET once == resolve_target_profile(MCFiles[v])
        IN  /\ resolve_target_profile(once) = once
            /\ is_explicit(once.vars) <=> v = "transported"

\* Paths below the diff base are made relative to it, others have no place in
\* a diff, and every directory is below the root.
ASSUME PathsStayBelow ==
    LET c == resolve_target_profile(Authored)
        root == Text(<<"/", "w7">>)
    IN  /\ normalize_diff_path(c, Text(<<"crate", "src">>)) = {Text(<<"src">>)}
        /\ normalize_diff_path(c, Text(<<"docs">>)) = {}
        /\ {project_dir(c, root), artifact_base_dir(c, root), diff_base_dir(c, root)}
               = {Text(<<"/", "w7", "crate">>)}

\* Without an edit a resume always agrees with its launch; of the edits only
\* the one that the overrides undo goes unnoticed.
ASSUME EditsAreNoticed ==
    \A r \in {"daemon", "child"}, v, w \in Good :
        DigestsAgree[r, v, w] <=>
            v = w \/ {v, w} = {"authored", "retargeted"}

\* A child that runs over the transport its parent was told to use is resumed
\* over the same.
ASSUME ChildTransport ==
    LET req == [Request EXCEPT !.transport = {Elsewhere}]
        c == resolve_target_profile(Authored)
        child == apply_child_overrides(c, req)
    IN  /\ apply_overrides_ok(c, launch_overrides(req))
        /\ child.vars[Url] = Elsewhere /\ is_explicit(child.vars)
        /\ ~apply_overrides_ok(c, launch_overrides([req EXCEPT !.transport = {T("https")}]))
=============================================================================
