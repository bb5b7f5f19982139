SPECIFICATION Spec
CONSTANTS
    Items = {t1}
    MaxHeads = 3
    MaxObservations = 2
    RequiredStable = {1, 2}
    Evaluations <- MCEvaluations
    MaxFaults = 1
    Checks <- MCChecks
    Required <- MCRequired
    Optional <- MCOptional
    Observations <- MCObservations
    default_allow_skipped = FALSE
    block_optional_failures = FALSE
    allow_unmatched_success = TRUE
    missing_retry_attempts = 1
    api_error_retry_attempts = 0
    max_post_pr_remediation_iterations = 1
    max_review_remediation_iterations = 2
    max_verification_retries = 0
    max_push_retries = 1
    max_remediations = 2
    AgentChanges = {"none", "files"}
    MaxRewinds = 1
PROPERTY RepliesOnce
PROPERTY GuardBudget
PROPERTY ReadyIsComplete
CONSTRAINT OneAttemptAfterRewind
CHECK_DEADLOCK FALSE
