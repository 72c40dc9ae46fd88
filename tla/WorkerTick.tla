----------------------------- MODULE WorkerTick -----------------------------
(***************************************************************************)
(* LocalRuntimeService.run_worker_once (application/local_runtime_service) *)
(* over the store of LocalRuntime: several worker processes, each with its *)
(* lease-keeper thread, beside the startup recovery of other processes and *)
(* a human who resolves recovery cases with `zekam runtime resolve`.       *)
(*                                                                         *)
(* The effect claim's key is job:{id}:effect:{digest of the job's own      *)
(* payload}, one per job, so Effects is Jobs here.  A worker may die       *)
(* between any two calls, and any store call may raise (a refused guard,   *)
(* SQLite's busy timeout): the tick then ends where it stands.             *)
(***************************************************************************)
EXTENDS LocalRuntime

CONSTANT Malformed  \* jobs whose payload has no operation or no effect object

VARIABLES
  pc,       \* where each worker's tick stands
  handle,   \* the LocalClaimedWork it holds: job and fencing token
  result,   \* the LocalEffectResult it will report
  keeper,   \* its _LeaseKeeper thread: off, on, or lost (a renewal raised)
  started,  \* history: how often the executor was started for a job
  reported  \* history: what the executor itself returned for a job

tickVars == <<pc, handle, result, keeper, started, reported>>
workerVars == <<vars, tickVars>>

ASSUME WorkerAssumption == Effects = Jobs /\ Malformed \subseteq Jobs

Places == {"idle", "claimed", "committed", "executing", "executed", "judged", "receipted"}

\* The worker's own state has its types.
TickTypeOK ==
  /\ pc \in [Workers -> Places]
  /\ handle \in [Workers -> Holder \cup {None}]
  /\ result \in [Workers -> Statuses \cup {"none"}]
  /\ keeper \in [Workers -> {"off", "on", "lost"}]
  /\ started \in [Jobs -> Nat]
  /\ reported \in [Jobs -> {"none", "completed", "failed"}]

At(w, place) == w \in alive /\ pc[w] = place
Goto(w, place) == pc' = [pc EXCEPT ![w] = place]

Claim(w, j, R, m) ==
  /\ At(w, "idle")
  /\ ClaimNext(w, j, R, m)
  /\ Goto(w, "claimed")
  /\ handle' = [handle EXCEPT ![w] = [job |-> j, fence |-> fence[j] + 1]]
  /\ result' = [result EXCEPT ![w] = "none"]
  /\ keeper' = [keeper EXCEPT ![w] = "off"]
  /\ UNCHANGED <<started, reported>>

\* A malformed payload is quarantined and the tick raises.
Poison(w, m) ==
  /\ At(w, "claimed")
  /\ handle[w].job \in Malformed
  /\ Quarantine(w, handle[w].job, handle[w].fence, m)
  /\ Goto(w, "idle")
  /\ UNCHANGED <<handle, result, keeper, started, reported>>

\* Mutant: the tick goes on to the effect without a stored claim.
CommitNothing(w, m) ==
  /\ At(w, "claimed")
  /\ handle[w].job \notin Malformed
  /\ LiveLease(w, handle[w].job, handle[w].fence, m)
  /\ Goto(w, "committed")
  /\ UNCHANGED <<vars, handle, result, keeper, started, reported>>

\* Only a claim that this call created lets the tick go on to the effect.
Commit(w, m) ==
  LET j == handle[w].job IN
  /\ At(w, "claimed")
  /\ j \notin Malformed
  /\ ClaimEffect(w, j, handle[w].fence, j, m)
  /\ Goto(w, "committed")
  /\ UNCHANGED <<handle, result, keeper, started, reported>>

\* The keeper thread starts, then the executor; no transaction is open.
Start(w) ==
  /\ At(w, "committed")
  /\ Goto(w, "executing")
  /\ keeper' = [keeper EXCEPT ![w] = "on"]
  /\ started' = [started EXCEPT ![handle[w].job] = @ + 1]
  /\ UNCHANGED <<vars, handle, result, reported>>

\* Mutant: an exception counts as success.
ReturnSwallowed(w, s) ==
  /\ At(w, "executing")
  /\ Goto(w, "executed")
  /\ result' = [result EXCEPT ![w] = IF s = "unknown" THEN "completed" ELSE s]
  /\ reported' = IF s = "unknown" THEN reported
                 ELSE [reported EXCEPT ![handle[w].job] = s]
  /\ UNCHANGED <<vars, handle, keeper, started>>

\* The executor returns a result; an exception becomes "unknown".
Return(w, s) ==
  /\ At(w, "executing")
  /\ Goto(w, "executed")
  /\ result' = [result EXCEPT ![w] = s]
  /\ reported' = IF s = "unknown" THEN reported
                 ELSE [reported EXCEPT ![handle[w].job] = s]
  /\ UNCHANGED <<vars, handle, keeper, started>>

\* The keeper thread renews the lease on its own connection.  One renewal may
\* still be in flight when stop_and_join has given up waiting for the thread.
KeeperRenews(w, m) ==
  /\ keeper[w] = "on"
  /\ pc[w] \in {"executing", "executed", "judged", "receipted", "idle"}
  /\ Heartbeat(w, handle[w].job, handle[w].fence, m)
  /\ keeper' = [keeper EXCEPT ![w] = IF pc[w] = "executing" THEN "on" ELSE "off"]
  /\ UNCHANGED <<pc, handle, result, started, reported>>

\* A renewal raised: the thread stores the error and ends.
KeeperFails(w) ==
  /\ At(w, "executing")
  /\ keeper[w] = "on"
  /\ keeper' = [keeper EXCEPT ![w] = "lost"]
  /\ UNCHANGED <<vars, pc, handle, result, started, reported>>

\* stop_and_join is healthy and the final heartbeat succeeds: the result stands.
Confirm(w, m) ==
  /\ At(w, "executed")
  /\ keeper[w] # "lost"
  /\ Heartbeat(w, handle[w].job, handle[w].fence, m)
  /\ Goto(w, "judged")
  /\ keeper' = [keeper EXCEPT ![w] = "off"]
  /\ UNCHANGED <<handle, result, started, reported>>

\* The keeper failed, its thread did not stop in time, or the final heartbeat
\* raised: the result is replaced by "unknown" (_lease_loss_result).
LoseLease(w) ==
  /\ At(w, "executed")
  /\ Goto(w, "judged")
  /\ result' = [result EXCEPT ![w] = "unknown"]
  /\ UNCHANGED <<vars, handle, keeper, started, reported>>

Receipt(w) ==
  /\ At(w, "judged")
  /\ RecordReceipt(handle[w].job, result[w])
  /\ Goto(w, "receipted")
  /\ UNCHANGED <<handle, result, keeper, started, reported>>

Finish(w, m) ==
  LET j == handle[w].job
      f == handle[w].fence
  IN
  /\ At(w, "receipted")
  /\ IF result[w] = "unknown" THEN FinishRecovery(w, j, f, m)
                              ELSE FinishTerminal(w, j, f, result[w], m)
  /\ Goto(w, "idle")
  /\ UNCHANGED <<handle, result, keeper, started, reported>>

\* A store call of the tick raised.
Raise(w) ==
  /\ w \in alive
  /\ pc[w] \in {"claimed", "judged", "receipted"}
  /\ Goto(w, "idle")
  /\ UNCHANGED <<vars, handle, result, keeper, started, reported>>

\* A startup of any process: recover_orphans, then recover_expired, and the
\* sweep of a claim_next that finds nothing.  The recover_outbox that follows is
\* StartupOutbox of PublisherTick; no delivery is claimed here.
Startup ==
  /\ \/ ProbeOrphans
     \/ RecoverOrphans(now) \/ AbandonOrphans(now)
     \/ \E m \in Moments : RecoverExpired(m)
  /\ UNCHANGED tickVars

\* The command `resolve`: the verdict, then reconcile_recovery in a second
\* transaction.
Human ==
  /\ \/ \E k \in Effects, o \in {"completed", "failed"} : ResolveEffect(k, o)
     \/ \E j \in Jobs : ReconcileRecovery(j)
  /\ UNCHANGED tickVars

Client ==
  /\ \E j \in Jobs, q \in Requests : Enqueue(j, q)
  /\ UNCHANGED tickVars

Environment ==
  /\ Tick \/ \E w \in Workers : Die(w)
  /\ UNCHANGED <<storeVars, tickVars>>

WorkerInit ==
  /\ Init
  /\ pc = [w \in Workers |-> "idle"]
  /\ handle = [w \in Workers |-> None]
  /\ result = [w \in Workers |-> "none"]
  /\ keeper = [w \in Workers |-> "off"]
  /\ started = [j \in Jobs |-> 0]
  /\ reported = [j \in Jobs |-> "none"]

WorkerStep(w) ==
  \/ \E j \in Jobs, R \in SUBSET Resources, m \in Moments : Claim(w, j, R, m)
  \/ \E m \in Moments :
       Poison(w, m) \/ Commit(w, m) \/ KeeperRenews(w, m) \/ Confirm(w, m) \/ Finish(w, m)
  \/ \E s \in Statuses : Return(w, s)
  \/ Start(w) \/ KeeperFails(w) \/ LoseLease(w) \/ Receipt(w) \/ Raise(w)

WorkerNext ==
  \/ \E w \in Workers : WorkerStep(w)
  \/ Startup \/ Human \/ Client \/ Environment

WorkerSpec == WorkerInit /\ [][WorkerNext]_workerVars

(***************************************************************************)
(* Recovery runs at every process start and inside every claim_next, so a  *)
(* sweep that stays possible is eventually made.  Nothing is assumed of    *)
(* the workers (they may stop or die) or of the human.                     *)
(***************************************************************************)
FairSpec == WorkerSpec /\ WF_workerVars(RecoverExpired(now) /\ UNCHANGED tickVars)

-----------------------------------------------------------------------------
(* Properties *)

\* The effect of a job is started at most once, whatever dies, expires, is
\* swept, retried or resolved ("Persisted effect claim yeniden calistirilamaz"),
\* and only behind a stored claim that the sweep can see.
EffectAtMostOnce == \A j \in Jobs : started[j] <= 1 /\ (started[j] > 0 => claim[j] # None)

\* A success receipt is the executor's own word: no lost heartbeat, exception
\* or recovery turns into one; a job completed without a human verdict has one.
NoInventedSuccess ==
  \A j \in Jobs :
    /\ receipt[j] \in {"completed", "failed"} => reported[j] = receipt[j]
    /\ state[j] = "completed" /\ resolution[j] = "none" => reported[j] = "completed"

\* Once its job no longer runs, every claimed effect is either known by receipt
\* or has a recovery case for a human: none is silently forgotten.
NothingForgotten ==
  \A j \in Jobs :
    claim[j] # None /\ state[j] # "running" =>
      receipt[j] \in {"completed", "failed"} \/ case[j] # "none"

Expired(j) == lease[j] # None /\ lease[j].expires <= now

\* The case of a running job's unknown receipt was resolved before the job left
\* "running": neither finish nor the sweep accepts that job any more.
ResolvedEarly == \E j \in Jobs : state[j] = "running" /\ case[j] = "resolved"

\* `worker reconcile --uygula` settles an expired lease: every expired lease is
\* swept.  A case that was resolved early stops the sweep for every job.
ExpiredLeaseSettles == \A j \in Jobs : Expired(j) ~> ~Expired(j)

\* An expired lease is swept unless some case was resolved early: no death,
\* lost heartbeat or late receipt alone can stop recovery.
ExpiredLeaseSettlesOrResolvedEarly ==
  \A j \in Jobs : Expired(j) ~> (~Expired(j) \/ ResolvedEarly)
=============================================================================
