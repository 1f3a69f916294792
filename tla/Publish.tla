------------------------------ MODULE Publish ------------------------------
(* The gated push of a finished task to GitHub: push_preview and             *)
(* push_confirm of agents/main.py with publish_state.py, the audit rows of   *)
(* github_push_audit_store.py and tools/github_push_ops.py, for one task and *)
(* its owner.                                                                *)
(*                                                                           *)
(* The handlers run on the one event loop of the runtime and do not await    *)
(* between their first check and their answer, so one of them runs at a      *)
(* time; a restart can cut push_confirm short between two of its effects.    *)
EXTENDS Naturals, FiniteSets

CONSTANTS
    Branch,        \* remote branch names a confirmation may ask for
    MaxPreviews,   \* bound: tokens issued
    MaxConfirms,   \* bound: confirmations sent
    MaxCrashes,    \* bound: restarts and unexpected exceptions
    DbFails        \* whether reading and writing audit rows may fail

VARIABLES
    approval,      \* approval_state of the run
    token,         \* the confirm token in Redis, 0 for none
    issued,        \* tokens issued so far: the last one is number `issued`
    stage,         \* stage of the latest audit row
    confirming,    \* the confirmation in progress
    confirms, crashes,
    prs,           \* pull requests at GitHub, by head branch
    sealed,        \* history: tokens issued when push_succeeded was last written, 0 before that
    late,          \* history: the row of a refused confirmation was written after that
    lost           \* history: an audit row could not be written or read

historyVars == <<sealed, late, lost>>
vars == <<approval, token, issued, stage, confirming, confirms, crashes, prs, historyVars>>

Stages == {"preview_shown", "confirm_attempted", "push_succeeded", "push_failed"}
NoConfirm == [at |-> "idle", branch |-> "none", token |-> 0]
Idle == confirming.at = "idle"
Published == sealed > 0

TypeOK ==
    /\ approval \in {"none", "approved", "denied"}
    /\ token \in 0..MaxPreviews /\ issued \in 0..MaxPreviews
    /\ stage \in Stages \cup {"none"}
    /\ confirming.at \in {"idle", "push", "pr", "record"}
    /\ confirming.branch \in Branch \cup {"none"} /\ confirming.token \in 0..MaxPreviews
    /\ confirms \in 0..MaxConfirms /\ crashes \in 0..MaxCrashes
    /\ prs \in [Branch -> {"none", "open", "closed"}]
    /\ sealed \in 0..MaxPreviews /\ late \in BOOLEAN /\ lost \in BOOLEAN

Init ==
    /\ approval = "none"
    /\ token = 0 /\ issued = 0
    /\ stage = "none"
    /\ confirming = NoConfirm
    /\ confirms = 0 /\ crashes = 0
    /\ prs = [b \in Branch |-> "none"]
    /\ sealed = 0 /\ late = FALSE /\ lost = FALSE

\* record: one audit row.  A failed write is logged and forgotten.
Recorded(s) ==
    \/ stage' = s /\ UNCHANGED lost
    \/ DbFails /\ UNCHANGED stage /\ lost' = TRUE

\* The owner accepts or rejects the result, at any time.
SetApproval(a) ==
    /\ Idle
    /\ approval' = a
    /\ UNCHANGED <<token, issued, stage, confirming, confirms, crashes, prs, historyVars>>

\* A preview issues a token, which replaces the previous one; after a success it only answers with
\* the recorded pull request.  A last row that cannot be read counts as none.
Preview ==
    /\ Idle /\ approval = "approved"
    /\ issued < MaxPreviews
    /\ issued' = issued + 1 /\ token' = issued + 1
    /\ \/ stage # "push_succeeded" /\ Recorded("preview_shown")
       \/ DbFails /\ lost' = TRUE /\ stage' \in {stage, "preview_shown"}
    /\ UNCHANGED <<approval, confirming, confirms, crashes, prs, sealed, late>>

TokenExpires ==
    /\ token # 0
    /\ token' = 0
    /\ UNCHANGED <<approval, issued, stage, confirming, confirms, crashes, prs, historyVars>>

\* consume_push_confirm compares and, if they agree, deletes in one step.
Consumed(t) == t = token

\* Mutation of ConfirmTake: the token is compared and stays in Redis.
ConfirmKeeps(t, b) ==
    /\ Idle /\ approval = "approved"
    /\ confirms < MaxConfirms
    /\ Consumed(t)
    /\ UNCHANGED token
    /\ confirming' = [at |-> "push", branch |-> b, token |-> t]
    /\ Recorded("confirm_attempted")
    /\ confirms' = confirms + 1
    /\ UNCHANGED <<approval, issued, crashes, prs, sealed, late>>

\* push_confirm takes the token of the latest preview.
ConfirmTake(t, b) ==
    /\ Idle /\ approval = "approved"
    /\ confirms < MaxConfirms
    /\ Consumed(t)
    /\ token' = 0
    /\ confirming' = [at |-> "push", branch |-> b, token |-> t]
    /\ Recorded("confirm_attempted")
    /\ confirms' = confirms + 1
    /\ UNCHANGED <<approval, issued, crashes, prs, sealed, late>>

\* push_confirm with a token that is no longer there: a row is written, nothing is pushed.  After a
\* success the row hides it from the next preview.
ConfirmRefused(t) ==
    /\ Idle /\ approval = "approved"
    /\ confirms < MaxConfirms
    /\ ~Consumed(t)
    /\ Recorded("confirm_attempted")
    /\ late' = (late \/ Published)
    /\ confirms' = confirms + 1
    /\ UNCHANGED <<approval, token, issued, confirming, crashes, prs, sealed>>

\* The branch is rebuilt from the bundle and pushed.
GitPush ==
    /\ confirming.at = "push"
    /\ confirming' = [confirming EXCEPT !.at = "pr"]
    /\ UNCHANGED <<approval, token, issued, stage, confirms, crashes, prs, historyVars>>

\* GithubPushError in either step.  A request for a pull request that failed may have reached
\* GitHub, which keeps one open pull request per head branch.
PushFails ==
    /\ confirming.at \in {"push", "pr"}
    /\ \/ UNCHANGED prs
       \/ /\ confirming.at = "pr"
          /\ prs' = [prs EXCEPT ![confirming.branch] = "open"]
    /\ Recorded("push_failed")
    /\ confirming' = NoConfirm
    /\ UNCHANGED <<approval, token, issued, confirms, crashes, sealed, late>>

OpenPr ==
    /\ confirming.at = "pr"
    /\ prs[confirming.branch] # "open"
    /\ prs' = [prs EXCEPT ![confirming.branch] = "open"]
    /\ confirming' = [confirming EXCEPT !.at = "record"]
    /\ UNCHANGED <<approval, token, issued, stage, confirms, crashes, historyVars>>

RecordSuccess ==
    /\ confirming.at = "record"
    /\ Recorded("push_succeeded")
    /\ sealed' = IF stage' = "push_succeeded" THEN issued ELSE sealed
    /\ confirming' = NoConfirm
    /\ UNCHANGED <<approval, token, issued, confirms, crashes, prs, late>>

\* Somebody merges or closes the pull request at GitHub.
ClosePr(b) ==
    /\ prs[b] = "open"
    /\ prs' = [prs EXCEPT ![b] = "closed"]
    /\ UNCHANGED <<approval, token, issued, stage, confirming, confirms, crashes, historyVars>>

\* A restart of the runtime, or an exception that push_confirm does not expect.
Crash ==
    /\ crashes < MaxCrashes
    /\ crashes' = crashes + 1
    /\ confirming' = NoConfirm
    /\ UNCHANGED <<approval, token, issued, stage, confirms, prs, historyVars>>

Next ==
    \/ \E a \in {"approved", "denied"} : SetApproval(a)
    \/ Preview \/ TokenExpires
    \/ \E t \in 1..issued : ConfirmRefused(t) \/ \E b \in Branch : ConfirmTake(t, b)
    \/ GitPush \/ PushFails \/ OpenPr \/ RecordSuccess
    \/ \E b \in Branch : ClosePr(b)
    \/ Crash

Spec == Init /\ [][Next]_vars

-----------------------------------------------------------------------------

\* Once a success is on record nothing from before it publishes again: no token and no push in
\* progress is left over, whatever failed, expired or restarted.  A new token means that a preview
\* did not see the success, because a row was lost or the row of a refused confirmation followed.
NothingAfterSuccess ==
    Published =>
        /\ token # 0 => token > sealed
        /\ ~Idle => confirming.token > sealed
        /\ issued > sealed => lost \/ late

\* main.py, on push_preview: "A retried request after a successful network call must be idempotent:
\* return the recorded PR instead of opening a second one."
PublishedIsFinal == [][issued' > issued => ~Published]_vars
=============================================================================
