--------------------------- MODULE WorkflowConfig ---------------------------
(***************************************************************************)
(* A workflow configuration from the file to the run: loading and checking *)
(* it (workflow/config_loader.rs, discovery_config.rs, target_paths.rs),   *)
(* merging its target profile into its variables (target_profile.rs), the  *)
(* Git transport that follows from them (target_profile/transport.rs), the *)
(* overrides of a launch, and the reconstruction of the launched           *)
(* configuration when the run is resumed.                                  *)
(*                                                                         *)
(* Everything is a pure function of the configuration c:                   *)
(*   c.vars       variables: a function from the names that are set        *)
(*   c.repo       repository settings, likewise                            *)
(*   c.profile    {} or {profile}; c.manifest {} or {command manifest}     *)
(* A text is its words and the template variables it mentions; what is put *)
(* in place of a variable mentions none, and is not looked at.  A          *)
(* repository is the text <<owner, name>>, a path the text of its          *)
(* components, "/" first when it is absolute.  An operation that can fail  *)
(* is a pair: the result, and the predicate ..._ok that there is one.      *)
(***************************************************************************)
EXTENDS Naturals, Sequences

Text(words) == [words |-> words, tokens |-> {}]
Empty == Text(<<>>)
Only(opt) == CHOOSE v \in opt : TRUE

\* part's entries are inserted into vars, those that are there replaced.
Over(part, vars) ==
    [k \in DOMAIN part \cup DOMAIN vars |-> IF k \in DOMAIN part THEN part[k] ELSE vars[k]]

insert_var(vars, key, value) == Over([k \in {key} |-> value], vars)

insert_optional(vars, key, opt) == IF opt = {} THEN vars ELSE insert_var(vars, key, Only(opt))

\* An empty text only makes sure that there is an entry.
insert_guidance_var(vars, part) ==
    Over([k \in {j \in DOMAIN part : part[j] # Empty} |-> part[k]],
         Over(vars, [k \in DOMAIN part |-> Empty]))

\* The primary issue also answers to issue_number.
Known(vars) ==
    DOMAIN vars \cup (IF "primary_issue_number" \in DOMAIN vars THEN {"issue_number"} ELSE {})

interpolate_variables(t, known) == [t EXCEPT !.tokens = @ \ known]

unresolved_tokens(t) == t.tokens

----------------------------------------------------------------------------
(* Paths (target_paths.rs, and the path checks of both loaders).            *)

Words(t) == {t.words[k] : k \in DOMAIN t.words}

\* Absolute, or with a parent component.
unsafe_relative_path(t) == "/" \in Words(t) \/ ".." \in Words(t)

validate_repo_relative_path(t) == ~unsafe_relative_path(t)

join_optional(root, relative) ==
    IF relative = {} THEN root ELSE Text(root.words \o Only(relative).words)

Setting(c, key) == IF key \in DOMAIN c.repo THEN {c.repo[key]} ELSE {}

project_dir(c, root) == join_optional(root, Setting(c, "project_subdir"))
artifact_base_dir(c, root) == join_optional(root, Setting(c, "artifact_path_base"))
diff_base_dir(c, root) == join_optional(root, Setting(c, "diff_path_base"))

\* {} when the path is not below the base.
normalize_diff_path(c, t) ==
    LET base == Setting(c, "diff_path_base")
        n == Len(Only(base).words)
    IN  IF ~c.base_relative THEN {t}
        ELSE IF base = {} THEN {}
        ELSE IF n <= Len(t.words) /\ SubSeq(t.words, 1, n) = Only(base).words
             THEN {Text(SubSeq(t.words, n + 1, Len(t.words)))} ELSE {}

----------------------------------------------------------------------------
(* Git transport (target_profile/transport.rs).                             *)

Url == "git_transport_url"
Source == "git_transport_url_source"
Explicit == Text(<<"explicit">>)
Derived == Text(<<"derived">>)

default_transport_url(repo) == Text(<<"https", "github.com">> \o repo.words)

\* <<scheme, authority, path...>>; a local path is a repository on this disk.
validate_transport_url(url) ==
    /\ url # Empty
    /\ url.tokens = {}
    /\ \/ url.words[1] \in {"https", "ssh", "scp"} /\ Len(url.words) > 2
       \/ url.words[1] \in {"file", "/"} /\ url.words[Len(url.words)] = "repository"

is_explicit(vars) == Source \in DOMAIN vars /\ vars[Source] = Explicit

\* An explicit transport is kept; a derived one follows the repository, which
\* is why the source of the URL is recorded beside it.
resolve_transport_url(vars) ==
    IF is_explicit(vars) \/ "target_repo" \notin DOMAIN vars THEN vars
    ELSE insert_var(insert_var(vars, Url, default_transport_url(vars["target_repo"])),
                    Source, Derived)

resolve_transport_url_ok(vars) ==
    is_explicit(vars) => Url \in DOMAIN vars /\ validate_transport_url(vars[Url])

\* A transport the author wrote is an explicit choice.
mark_authored_transport(vars) ==
    IF Url \in DOMAIN vars /\ Source \notin DOMAIN vars
    THEN insert_var(vars, Source, Explicit) ELSE vars

----------------------------------------------------------------------------
(* The target profile (target_profile.rs).                                  *)

\* OWNER/NAME, two words that GitHub allows.
split_target_repo_ok(repo) ==
    Len(repo.words) = 2 /\ repo.tokens = {} /\ "" \notin Words(repo)

Identity(repo) ==
    [target_repo |-> repo, repository_owner |-> Text(<<repo.words[1]>>),
     repository_name |-> Text(<<repo.words[2]>>)]

\* The profile's repository, else the variable, else owner and name together.
ProfileRepo(vars, profile) ==
    IF profile.repo # {} THEN profile.repo
    ELSE IF "target_repo" \in DOMAIN vars THEN {vars["target_repo"]}
    ELSE IF profile.owner # {} /\ profile.name # {}
         THEN {Text(Only(profile.owner).words \o Only(profile.name).words)}
    ELSE {}

merge_identity(vars, profile) ==
    LET repo == ProfileRepo(vars, profile)
        named == IF repo # {} THEN Over(Identity(Only(repo)), vars)
                 ELSE insert_optional(insert_optional(vars, "repository_owner", profile.owner),
                                      "repository_name", profile.name)
    IN  insert_optional(named, "base_branch", profile.base_branch)

merge_identity_ok(vars, profile) == \A r \in ProfileRepo(vars, profile) : split_target_repo_ok(r)

RepoPaths == {"project_subdir", "artifact_path_base", "diff_path_base"}
VarPaths == {"project_subdir", "default_command_cwd", "work_dir", "artifact_dir"}

\* profile.paths has the paths that are given.
merge_paths(vars, profile) ==
    Over([k \in VarPaths \cap DOMAIN profile.paths |-> profile.paths[k]], vars)

validate_profile_paths(profile) ==
    \A k \in DOMAIN profile.paths \ {"work_dir", "artifact_dir"} :
        ~unsafe_relative_path(profile.paths[k])

\* Issue and pull request conventions and templates; base branch, paths and
\* branch template also are repository settings.
merge_conventions(vars, profile) == Over(profile.conventions, vars)

merge_repository(repo, profile) ==
    LET given == [k \in RepoPaths \cap DOMAIN profile.paths |-> profile.paths[k]]
        branch == [k \in {"branch_template"} \cap DOMAIN profile.conventions |->
                       profile.conventions[k]]
    IN  insert_optional(Over(branch, Over(given, repo)), "base_branch", profile.base_branch)

\* Literal paths below the repository, written as :! pathspecs.
validate_commit_exclude_pathspec(vars, spec) ==
    /\ spec.exclude /\ spec.literal
    /\ unresolved_tokens(interpolate_variables(spec.path, Known(vars))) = {}
    /\ Words(spec.path) \ {"."} # {} /\ ~unsafe_relative_path(spec.path)

merge_diff_policy(vars, profile) ==
    LET specs == profile.excludes
        quoted(prefix) == Text([k \in DOMAIN specs |-> prefix \o specs[k].path.words])
    IN  Over([target_commit_exclude_pathspecs |-> quoted(<<":!">>),
              target_commit_restore_paths |-> quoted(<<>>),
              target_has_commit_restore_paths |-> Text(<<IF specs = <<>> THEN "0" ELSE "1">>)],
             Over(profile.diff_policy, vars))

merge_command_groups(vars, profile) == Over(profile.groups, vars)

\* Checks, authentication, preflight: the lists that are not empty.
merge_list_variables(vars, profile) == Over(profile.lists, vars)

merge_prompt_guidance(vars, profile) ==
    insert_guidance_var(insert_var(vars, "target_ecosystem_name", profile.ecosystem),
                        profile.guidance)

merge_bootstrap(vars, profile) ==
    insert_guidance_var(vars, [target_bootstrap_command_group |-> profile.bootstrap])

\* Texts of the profile that may mention variables.
profile_templates(profile) ==
    {profile.conventions[k] : k \in DOMAIN profile.conventions
                                    \cap {"branch_template", "pr_title_template", "pr_body_template"}}
    \cup {profile.diff_policy[k] : k \in DOMAIN profile.diff_policy}
    \cup {profile.excludes[k].path : k \in DOMAIN profile.excludes}
    \cup {profile.guidance[k] : k \in DOMAIN profile.guidance}
    \cup {profile.ecosystem, profile.bootstrap}

\* Known when the run starts, or only at run time.
template_variables(vars) == Known(vars) \cup {"issue_title", "issue_url", "pr_body_guidance"}

validate_profile_templates(vars, profile) ==
    \A t \in profile_templates(profile) :
        unresolved_tokens(interpolate_variables(t, template_variables(vars))) = {}

MergedVars(vars, profile) ==
    LET named == merge_conventions(merge_paths(merge_identity(vars, profile), profile), profile)
        ruled == merge_list_variables(
                     merge_command_groups(merge_diff_policy(named, profile), profile), profile)
    IN  merge_bootstrap(merge_prompt_guidance(ruled, profile), profile)

resolve_target_profile(c) ==
    IF c.profile = {} THEN c
    ELSE LET profile == Only(c.profile)
         IN  [c EXCEPT !.repo = merge_repository(@, profile),
                       !.vars = resolve_transport_url(
                                    mark_authored_transport(MergedVars(@, profile)))]

\* Templates and exclusions are judged against the variables merged so far.
resolve_target_profile_ok(c) ==
    \A profile \in c.profile :
        LET named == merge_conventions(merge_paths(merge_identity(c.vars, profile), profile), profile)
        IN  /\ merge_identity_ok(c.vars, profile)
            /\ validate_profile_paths(profile)
            /\ c.has_repo \/ merge_repository(c.repo, profile) = c.repo  \* repo_mut panics
            /\ validate_profile_templates(named, profile)
            /\ \A k \in DOMAIN profile.excludes :
                   validate_commit_exclude_pathspec(named, profile.excludes[k])
            /\ resolve_transport_url_ok(mark_authored_transport(MergedVars(c.vars, profile)))

\* o has {} or {text} for each of repo, issue, work_dir, artifact_dir, transport.
NoOverrides == [repo |-> {}, issue |-> {}, work_dir |-> {}, artifact_dir |-> {}, transport |-> {}]

override_repo(vars, o) == IF o.repo = {} THEN vars ELSE Over(Identity(Only(o.repo)), vars)

\* An issue override removes the alias.
override_issue(vars, o) ==
    IF o.issue = {} THEN vars
    ELSE LET named == insert_var(vars, "primary_issue_number", Only(o.issue))
         IN  [k \in DOMAIN named \ {"issue_number"} |-> named[k]]

override_paths(vars, o) ==
    insert_optional(insert_optional(vars, "work_dir", o.work_dir), "artifact_dir", o.artifact_dir)

override_transport(vars, o) ==
    IF o.transport = {} THEN vars
    ELSE insert_var(insert_var(vars, Url, Only(o.transport)), Source, Explicit)

override_vars(vars, o) ==
    override_transport(override_paths(override_issue(override_repo(vars, o), o), o), o)

\* All of them or, when one is refused, none.
apply_target_profile_overrides(c, o) ==
    [c EXCEPT !.vars = resolve_transport_url(override_vars(@, o))]

apply_overrides_ok(c, o) ==
    /\ \A r \in o.repo : split_target_repo_ok(r)
    /\ \A u \in o.transport : validate_transport_url(u)
    /\ resolve_transport_url_ok(override_vars(c.vars, o))

----------------------------------------------------------------------------
(* Validation of the target (validate_target_profile).                      *)

trimmed_value(c, key) == key \in DOMAIN c.vars /\ c.vars[key] # Empty

validate_repo_identity(c) ==
    IF trimmed_value(c, "target_repo") THEN split_target_repo_ok(c.vars["target_repo"])
    ELSE trimmed_value(c, "repository_owner") /\ trimmed_value(c, "repository_name")

validate_required_issue(c) ==
    trimmed_value(c, "primary_issue_number") \/ trimmed_value(c, "issue_number")

validate_runtime_path_variables(c) ==
    \A key \in {"work_dir", "artifact_dir"} :
        /\ trimmed_value(c, key)
        /\ unresolved_tokens(interpolate_variables(c.vars[key], Known(c.vars))) = {}

Groups(c) == UNION {DOMAIN m.groups : m \in c.manifest}

\* The manifest groups a profile names exist.
validate_profile_command_groups(c) ==
    \A p \in c.profile :
        \A g \in {p.groups[k] : k \in DOMAIN p.groups} \cup ({p.bootstrap} \ {Empty}) :
            g \in Groups(c)

validate_target_profile(c) ==
    /\ validate_repo_identity(c)
    /\ validate_required_issue(c)
    /\ validate_runtime_path_variables(c)
    /\ trimmed_value(c, "target_ecosystem_name")
    /\ validate_profile_command_groups(c)

target_profile_validation_required(c, o) ==
    \/ c.profile # {}
    \/ c.software_change       \* the workflow type's id starts with llxprt-
    \/ o # NoOverrides
    \/ \E key \in {"target_repo", "repository_owner", "repository_name"} : key \in DOMAIN c.vars

----------------------------------------------------------------------------
(* Discovery settings (discovery_config.rs): each has a variable to fall    *)
(* back on, or a constant.                                                  *)

VariableFallback ==
    [repo |-> "target_repo", include_labels |-> "ok_label", exclude_labels |-> "luther_label",
     active_parent_label |-> "luther_label", approval_label |-> "ok_label",
     approval_actor |-> "assignee", claim_assignee |-> "assignee", claim_label |-> "luther_label"]

DefaultDiscovery ==
    [issue_states |-> Text(<<"open">>), milestone_order |-> Text(<<"semver">>),
     max_concurrent_runs |-> Text(<<"1">>), poll_interval_secs |-> Text(<<"300">>),
     parent_workflow_type_id |-> Text(<<"parent-issue-orchestrator-v1">>)]

\* c.discovery has the settings that are given; an empty repository or an empty
\* list is not.
resolve_discovery_config(c) ==
    LET from == {k \in DOMAIN VariableFallback : VariableFallback[k] \in DOMAIN c.vars}
    IN  Over(c.discovery, Over([k \in from |-> c.vars[VariableFallback[k]]], DefaultDiscovery))

validate_discovery_config(c) ==
    LET d == resolve_discovery_config(c)
        labels(key) == IF key \in DOMAIN d THEN Words(d[key]) ELSE {}
    IN  /\ labels("include_labels") \cap labels("exclude_labels") = {}
        /\ c.discovers =>
               \A key \in {"repo", "approval_label", "approval_actor", "claim_assignee",
                           "claim_label"} : key \in DOMAIN d /\ d[key] # Empty

----------------------------------------------------------------------------
(* The command manifest.                                                    *)

\* An entry stays below the working directory and removes less than all of it.
validate_command_paths(e) ==
    /\ \A t \in e.paths \cup e.removes : t # Empty /\ ~unsafe_relative_path(t)
    /\ \A t \in e.removes : Words(t) \ {"."} # {}

validate_command_numbers(e) ==
    /\ 0 \notin e.timeout /\ e.capture_limit > 0
    /\ e.max_attempts > 0 => e.retry_exit_codes # {}

validate_command_entry(e) ==
    /\ e.id # "" /\ e.argv # <<>> /\ \A k \in DOMAIN e.argv : e.argv[k] # ""
    /\ validate_command_paths(e)
    /\ e.env_names_ok /\ e.patterns_compile
    /\ validate_command_numbers(e)

\* {} when there is none.
command_manifest_entry(manifest, id) ==
    {manifest.commands[k] : k \in {j \in DOMAIN manifest.commands : manifest.commands[j].id = id}}

validate_command_manifest(m) ==
    /\ \A k \in DOMAIN m.commands : validate_command_entry(m.commands[k])
    /\ \A j, k \in DOMAIN m.commands : m.commands[j].id = m.commands[k].id => j = k
    /\ \A g \in DOMAIN m.groups :
           m.groups[g] # {} /\ \A id \in m.groups[g] : command_manifest_entry(m, id) # {}

\* c.shell_commands: some variable's name ends in _command.
validate_command_variable_shadowing(c) == c.manifest # {} => ~c.shell_commands

----------------------------------------------------------------------------
(* Loading.                                                                 *)

validate_repository_paths(c) ==
    /\ \A key \in RepoPaths \cap DOMAIN c.repo : validate_repo_relative_path(c.repo[key])
    /\ c.base_relative => "diff_path_base" \in DOMAIN c.repo

\* c.has_repo: there is a [repository] section.
validate_workflow_config(c) ==
    /\ c.id # "" /\ c.type_id # "" /\ c.timeout > 0
    /\ c.has_repo => /\ c.strategy # ""
                     /\ "branch_template" \in DOMAIN c.repo /\ c.repo["branch_template"] # Empty
                     /\ validate_repository_paths(c)
    /\ validate_discovery_config(c)
    /\ \A m \in c.manifest : validate_command_manifest(m)
    /\ validate_command_variable_shadowing(c)

resolve_and_validate_workflow_config(c) ==
    LET resolved == resolve_target_profile(c)
    IN  IF /\ resolve_target_profile_ok(c)
           /\ validate_workflow_config(resolved)
           /\ target_profile_validation_required(resolved, NoOverrides) =>
                  validate_target_profile(resolved)
        THEN {resolved} ELSE {}

\* Where a definition is looked for, in this order; the first file that exists
\* decides, also when it cannot be read.
Candidates == <<"production.toml", "production.json", "valid.toml", "valid.json">>

\* files: candidate -> {} (unreadable or no syntax) or {definition}.
FirstFile(files) ==
    LET there == {k \in DOMAIN Candidates : Candidates[k] \in DOMAIN files}
    IN  UNION {files[Candidates[k]] : k \in {j \in there : \A i \in there : j <= i}}

resolve_workflow_config(files) ==
    UNION {resolve_and_validate_workflow_config(c) : c \in FirstFile(files)}

----------------------------------------------------------------------------
(* From the launch of a run to its resume.                                  *)

Flag(b) == Text(<<IF b THEN "true" ELSE "false">>)

\* req: repo, issue, work_dir, artifact_dir, is the claim the daemon's and what
\* it added, and for a child the parent's explicit transport.
launch_overrides(req) ==
    [repo |-> {req.repo}, issue |-> {req.issue}, work_dir |-> req.work_dir,
     artifact_dir |-> req.artifact_dir, transport |-> req.transport]

apply_daemon_claim_overrides(c, req) ==
    [c EXCEPT !.vars = Over([daemon_managed_claim |-> Flag(req.managed),
                             claim_assignment_added |-> Flag(req.assigned),
                             claim_label_added |-> Flag(req.labelled)], @)]

launch_daemon_workflow(c, req) ==
    apply_daemon_claim_overrides(apply_target_profile_overrides(c, launch_overrides(req)), req)

\* A child is launched and resumed alike, from its request.
apply_child_overrides(c, req) ==
    LET target == apply_target_profile_overrides(c, launch_overrides(req))
    IN  [target EXCEPT !.vars = insert_var(@, "daemon_managed_claim", Flag(TRUE))]

\* What the run row remembers of the configuration.
build_run_context(c, run) ==
    LET value(key, default) == IF key \in DOMAIN c.vars THEN {c.vars[key]} ELSE default
    IN  [repo |-> value("target_repo", {}),
         issue |-> value("primary_issue_number", value("issue_number", {})),
         work_dir |-> value("work_dir", {Text(<<"runs", run>>)}),
         artifact_dir |-> value("artifact_dir", {Text(<<"artifacts">>)})]

\* The transport is not remembered.
continuation_overrides(md) ==
    [repo |-> md.repo, issue |-> md.issue, work_dir |-> md.work_dir,
     artifact_dir |-> md.artifact_dir, transport |-> {}]

\* verify_resume_provenance: overrides first, claim second; the daemon's own
\* check (resolve_daemon_resume_workflow) the other way round.
resume_config(c, md, req) ==
    apply_daemon_claim_overrides(
        apply_target_profile_overrides(c, continuation_overrides(md)), req)

resolve_daemon_resume_workflow(c, md, req) ==
    apply_target_profile_overrides(
        apply_daemon_claim_overrides(c, req), continuation_overrides(md))

\* A child is resumed for the target it was launched for, or not at all.
validate_child_resume_identity(md, req) ==
    md.repo = {req.repo} /\ md.issue = {req.issue} /\ md.work_dir = req.work_dir

validate_child_resume_artifact(md, req) ==
    req.artifact_dir # {} => md.artifact_dir = req.artifact_dir

\* A daemon resume names its run, and the row must be that of the same target
\* (the ids are the key it was read by) and of the same directories, where the
\* request names them.
validate_resume_identity_against_metadata(md, req) ==
    /\ md.repo = {req.repo} /\ md.issue = {req.issue}
    /\ req.artifact_dir # {} => md.artifact_dir = req.artifact_dir

resolve_resume_workspace_path(md, req) ==
    md.work_dir # {} /\ (req.work_dir # {} => md.work_dir = req.work_dir)

\* The digest is taken over every field: equal digests are equal configurations.
compute_config_digest(c) == c

\* repo() panics: a configuration without [repository] loads but has no digest.
compute_config_digest_ok(c) == c.has_repo
=============================================================================
