--------------------------- MODULE GitPublication ---------------------------
(***************************************************************************)
(* GitPublicationService.apply (application/git_publication.py) as the     *)
(* execute() of a canonical job, with its ledger of one-shot authorizations*)
(* (infrastructure/sqlite/git_publication.py) and the push of              *)
(* BoundGitPushTransport (infrastructure/git/publication.py).              *)
(*                                                                         *)
(* The job key contains the authorization, so a job of CanonicalJob stands *)
(* for an authorization and its plan.  Commits are numbers on one line of  *)
(* history; Head[j] is the commit the plan publishes.                      *)
(***************************************************************************)
EXTENDS CanonicalJob

CONSTANTS
  Head,      \* the commit each authorization's plan names
  Expiry,    \* expires_at of the authorizations
  MaxCommit  \* bound: commits of the branch

ASSUME PublicationAssumption ==
  /\ MaxCommit \in Nat /\ Expiry \in Nat
  /\ \A j \in Jobs : Head[j] \in 1..MaxCommit

VARIABLES
  issued,     \* authorizations in git_publication_authorization
  revoked,    \* authorizations in git_publication_revocation
  consumed,   \* authorizations in git_publication_consumption
  withdrawn,  \* history: authorizations revoked before they were consumed
  step,       \* how far execute() of each call has come
  local,      \* HEAD of the source repository
  remote,     \* commit of the remote ref
  pushed      \* history: pushes of each authorization that reached the remote

publicationVars == <<issued, revoked, consumed, withdrawn, step, local, remote, pushed>>
gitVars == <<canonicalVars, publicationVars>>

Steps == {"entered", "validated", "authorized", "consumed", "revalidated", "pushed", "read"}

PublicationTypeOK ==
  /\ CanonicalTypeOK
  /\ consumed \cup revoked \subseteq issued /\ issued \subseteq Jobs
  /\ withdrawn \subseteq revoked
  /\ step \in [Workers -> Steps]
  /\ local \in 0..MaxCommit /\ remote \in 0..MaxCommit
  /\ pushed \in [Jobs -> Nat]

PublicationInit ==
  /\ CanonicalInit
  /\ issued = {} /\ revoked = {} /\ consumed = {} /\ withdrawn = {}
  /\ step = [p \in Workers |-> "entered"]
  /\ local = 0 /\ remote = 0
  /\ pushed = [j \in Jobs |-> 0]

-----------------------------------------------------------------------------
(* The authorization ledger.                                               *)

\* record_authorization, after the evidence of the plan was verified.
RecordAuthorization(j) ==
  /\ j \notin issued
  /\ now < Expiry
  /\ issued' = issued \cup {j}
  /\ UNCHANGED <<canonicalVars, revoked, consumed, withdrawn, step, local, remote, pushed>>

RevokeAuthorization(j) ==
  /\ j \in issued \ revoked
  /\ revoked' = revoked \cup {j}
  /\ withdrawn' = IF j \in consumed THEN withdrawn ELSE withdrawn \cup {j}
  /\ UNCHANGED <<canonicalVars, issued, consumed, step, local, remote, pushed>>

\* Authorization.rejection_reason is None.
Usable(j) == j \in issued /\ j \notin revoked /\ j \notin consumed /\ now < Expiry

\* consume, and git_publication_consume_guard: the job runs under the lease its
\* effect claim names, and the claim has no receipt.
LiveClaim(j) ==
  /\ state[j] = "running"
  /\ claim[j] # None /\ receipt[j] = "none"
  /\ lease[j] # None /\ lease[j].fence = claim[j].fence /\ now < lease[j].expires
  /\ BindingCurrent(j)

-----------------------------------------------------------------------------
(* execute()                                                               *)

\* validate: the repository is at the plan's commit, which is the one of the
\* bound source snapshot.
SourceMatches(j) == local = Head[j]

InStep(p, s) == At(p, "executing") /\ step[p] = s
GoOn(p, s) == step' = [step EXCEPT ![p] = s]

Validate(p) ==
  /\ InStep(p, "entered")
  /\ SourceMatches(handle[p].job)
  /\ GoOn(p, "validated")
  /\ UNCHANGED <<canonicalVars, issued, revoked, consumed, withdrawn, local, remote, pushed>>

ReadAuthorization(p) ==
  /\ InStep(p, "validated")
  /\ Usable(handle[p].job)
  /\ GoOn(p, "authorized")
  /\ UNCHANGED <<canonicalVars, issued, revoked, consumed, withdrawn, local, remote, pushed>>

\* Mutant: the authorization read before is not read again in the transaction.
ConsumeAsRead(p) ==
  /\ InStep(p, "authorized")
  /\ handle[p].job \notin consumed
  /\ LiveClaim(handle[p].job)
  /\ consumed' = consumed \cup {handle[p].job}
  /\ GoOn(p, "consumed")
  /\ UNCHANGED <<canonicalVars, issued, revoked, withdrawn, local, remote, pushed>>

Consume(p) ==
  /\ InStep(p, "authorized")
  /\ ~interrupted[p]
  /\ Usable(handle[p].job)
  /\ LiveClaim(handle[p].job)
  /\ consumed' = consumed \cup {handle[p].job}
  /\ GoOn(p, "consumed")
  /\ UNCHANGED <<canonicalVars, issued, revoked, withdrawn, local, remote, pushed>>

Revalidate(p) ==
  /\ InStep(p, "consumed")
  /\ SourceMatches(handle[p].job)
  /\ GoOn(p, "revalidated")
  /\ UNCHANGED <<canonicalVars, issued, revoked, consumed, withdrawn, local, remote, pushed>>

\* git push without force: the remote ref must be an ancestor.  A call that is
\* killed or times out after this has pushed all the same.
Push(p) ==
  LET j == handle[p].job IN
  /\ InStep(p, "revalidated")
  /\ ~interrupted[p]
  /\ SourceMatches(j)
  /\ remote <= Head[j]
  /\ remote' = Head[j]
  /\ pushed' = [pushed EXCEPT ![j] = @ + 1]
  /\ GoOn(p, "pushed")
  /\ UNCHANGED <<canonicalVars, issued, revoked, consumed, withdrawn, local>>

\* Mutant: git's exit status is taken for the readback.
TrustPush(p) ==
  /\ InStep(p, "revalidated") \/ InStep(p, "pushed")
  /\ GoOn(p, "read")
  /\ UNCHANGED <<canonicalVars, issued, revoked, consumed, withdrawn, local, remote, pushed>>

\* ls-remote reads the pushed commit back; anything else raises.
ReadRemote(p) ==
  /\ InStep(p, "pushed")
  /\ ~interrupted[p]
  /\ remote = Head[handle[p].job]
  /\ GoOn(p, "read")
  /\ UNCHANGED <<canonicalVars, issued, revoked, consumed, withdrawn, local, remote, pushed>>

Publish(p) ==
  Validate(p) \/ ReadAuthorization(p) \/ Consume(p) \/ Revalidate(p) \/ Push(p) \/ ReadRemote(p)

-----------------------------------------------------------------------------
(* apply around it                                                         *)

Moves(p, from, to) == pc[p] = from /\ pc'[p] = to

\* The steps of run_canonical_job: apply reads the authorization before it opens
\* the job, validate_inputs is validate, execute() returns after the readback.
CanonicalStep(p) ==
  /\ CallStep(p)
  /\ Moves(p, "idle", "dispatched") => Usable(handle'[p].job) /\ SourceMatches(handle'[p].job)
  /\ Moves(p, "executing", "executed") => step[p] = "read"
  /\ Moves(p, "executed", "confirmed") => SourceMatches(handle[p].job)
  /\ step' = IF Moves(p, "claimed", "executing") THEN [step EXCEPT ![p] = "entered"] ELSE step
  /\ UNCHANGED <<issued, revoked, consumed, withdrawn, local, remote, pushed>>

\* Commits in the source repository and pushes by others (external).
Commit ==
  /\ local < MaxCommit
  /\ local' = local + 1
  /\ UNCHANGED <<canonicalVars, issued, revoked, consumed, withdrawn, step, remote, pushed>>

ForeignPush ==
  /\ remote < MaxCommit
  /\ remote' = remote + 1
  /\ UNCHANGED <<canonicalVars, issued, revoked, consumed, withdrawn, step, local, pushed>>

PublicationNext ==
  \/ \E j \in Jobs : RecordAuthorization(j) \/ RevokeAuthorization(j)
  \/ \E p \in Workers : Publish(p) \/ CanonicalStep(p)
  \/ (Recovery \/ Environment) /\ UNCHANGED publicationVars
  \/ Commit \/ ForeignPush

PublicationSpec == PublicationInit /\ [][PublicationNext]_gitVars

-----------------------------------------------------------------------------
(* Properties                                                              *)

\* Every push spends an authorization of its own: at most one per authorization,
\* none without a consumption and an effect claim, and none of an authorization
\* that was revoked before it was consumed, whenever the revocation landed.
PushIsAuthorized ==
  \A j \in Jobs :
    /\ pushed[j] <= 1
    /\ pushed[j] = 1 => j \in consumed /\ claim[j] # None
    /\ j \in withdrawn => pushed[j] = 0

\* A push that happened is never reported as one that did not: whatever raised,
\* timed out, died or was swept after it, its job completes or waits in recovery,
\* and only a human verdict on its recovery case can end it as failed
\* (docs/GIT_YAYIN_ADAPTORU.md:29, "unknown/recovery").
PushIsNotDenied ==
  \A j \in Jobs :
    pushed[j] = 1 /\ state[j] \in {"failed", "quarantined"} => resolution[j] # "none"

\* A completed receipt, and an answer from it, is of a push that reached the
\* remote.
CompletedIsPublished ==
  \A j \in Jobs : receipt[j] = "completed" \/ j \in answered => pushed[j] = 1

\* What the publication reports agrees with the remote, in both directions.
PublicationIsTold == PushIsNotDenied /\ CompletedIsPublished
=============================================================================
