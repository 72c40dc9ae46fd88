-------------------------- MODULE WorkerTickProofs --------------------------
(***************************************************************************)
(* Theorems about run_worker_once over the store: for any number of worker *)
(* processes, jobs and deaths, an effect is started at most once, no       *)
(* success is invented and no claimed effect is forgotten.                 *)
(***************************************************************************)
EXTENDS WorkerTick, LocalRuntimeProofs

USE DEF Procs

(***************************************************************************)
(* The inductive invariant.  A worker beyond its commit holds the very     *)
(* handle that the stored claim names, and no two workers ever hold the    *)
(* same handle, since a token is handed out once.  So what the history     *)
(* variables record of a job was done by one worker, at one place of its   *)
(* tick.                                                                   *)
(***************************************************************************)

\* The key of an effect claim is the job's own.
KeyIsJob == \A k \in Effects : claim[k] # None => claim[k].job = k

\* A handle names a token that was handed out, to this worker only.
HandlesAreUnique ==
  /\ \A w \in Workers : handle[w] # None => handle[w].fence \in 1..fence[handle[w].job]
  /\ \A w, v \in Workers : handle[w] # None /\ handle[w] = handle[v] => w = v
  /\ \A w \in Workers : pc[w] # "idle" \/ keeper[w] = "on" => handle[w] # None

BeyondCommit == {"committed", "executing", "executed", "judged", "receipted"}

\* What the place of a tick says about the claim, the receipt and the result.
PlaceIsTrue(w) ==
  LET j == handle[w].job IN
  /\ pc[w] \in BeyondCommit => claim[j] = handle[w]
  /\ pc[w] = "committed" => started[j] = 0
  /\ pc[w] \in BeyondCommit \ {"receipted"} => receipt[j] = "none"
  /\ pc[w] \in {"executed", "judged", "receipted"} => result[w] \in Statuses
  /\ pc[w] \in {"executed", "judged", "receipted"} /\ result[w] \in {"completed", "failed"} =>
       reported[j] = result[w]

PlacesAreTrue == \A w \in Workers : PlaceIsTrue(w)

\* Without a claim nothing was started and nothing is known.
HistoryIsClaimed ==
  \A j \in Jobs :
    /\ started[j] <= 1
    /\ claim[j] = None => started[j] = 0 /\ receipt[j] = "none"
    /\ receipt[j] \in {"completed", "failed"} => reported[j] = receipt[j]

TickInv == TickTypeOK /\ KeyIsJob /\ HandlesAreUnique /\ PlacesAreTrue /\ HistoryIsClaimed

\* A job completed without a human verdict has the receipt "completed".
CompletedIsKnown ==
  \A j \in Jobs : state[j] = "completed" /\ resolution[j] = "none" => receipt[j] = "completed"

WorkerInv == RecoveryInv /\ TickInv /\ CompletedIsKnown /\ NothingForgotten

-----------------------------------------------------------------------------
(* Facts about handles and claims *)

\* A handle that is there is one of the store's.
LEMMA HandleType ==
  ASSUME TickInv, NEW w \in Workers, handle[w] # None
  PROVE  /\ handle[w] \in Holder /\ handle[w].job \in Jobs
         /\ handle[w].fence \in 1..fence[handle[w].job] /\ handle[w].fence \in Nat
         /\ handle[w] = [job |-> handle[w].job, fence |-> handle[w].fence]
<1>1. handle[w] \in Holder
  BY DEF TickInv, TickTypeOK
<1> QED
  BY <1>1, HolderIs DEF Holder, TickInv, HandlesAreUnique

\* A worker that is not idle has a handle.
LEMMA BusyHasHandle ==
  ASSUME TickInv, NEW w \in Workers, pc[w] # "idle" \/ keeper[w] = "on"
  PROVE  handle[w] # None
BY DEF TickInv, HandlesAreUnique

\* The claims of a job are its own key, if that is claimed.
LEMMA OwnClaim ==
  ASSUME KeyIsJob, NEW j \in Jobs
  PROVE  ClaimsOf(j) = IF claim[j] # None THEN {j} ELSE {}
BY WorkerAssumption DEF KeyIsJob, ClaimsOf

\* Every step of the workers and their surroundings is a step of the store, or
\* leaves the store alone: the tick only calls the store's methods, with handles
\* that the store gave out.
LEMMA WorkerStepIsNext ==
  ASSUME WorkerInv, [WorkerNext]_workerVars
  PROVE  [Next]_vars
<1>0. TickInv
  BY DEF WorkerInv
<1> USE DEF tickVars
<1>1. ASSUME NEW w \in Workers, NEW j \in Jobs, NEW R \in SUBSET Resources, NEW m \in Moments,
             Claim(w, j, R, m)
      PROVE  [Next]_vars
  BY <1>1 DEF Claim, Next, QueueStep, JobStep
<1>2. ASSUME NEW w \in Workers, NEW m \in Moments, handle[w] # None,
             LET j == handle[w].job
                 f == handle[w].fence
             IN  \/ Heartbeat(w, j, f, m) \/ Quarantine(w, j, f, m) \/ FinishRecovery(w, j, f, m)
                 \/ \E to \in {"completed", "failed"} : FinishTerminal(w, j, f, to, m)
                 \/ ClaimEffect(w, j, f, j, m)
      PROVE  [Next]_vars
  <2>1. handle[w].job \in Jobs /\ handle[w].job \in Effects /\ handle[w].fence \in 1..fence[handle[w].job]
    BY <1>0, <1>2, HandleType, WorkerAssumption
  <2> DEFINE j == handle[w].job
             f == handle[w].fence
  <2>2. \/ Heartbeat(w, j, f, m) \/ Quarantine(w, j, f, m) \/ FinishRecovery(w, j, f, m)
        \/ \E to \in {"completed", "failed"} : FinishTerminal(w, j, f, to, m)
        \/ ClaimEffect(w, j, f, j, m)
    BY <1>2
  <2> HIDE DEF j, f
  <2>3. j \in Jobs /\ j \in Effects /\ f \in 1..fence[j]
    BY <2>1 DEF j, f
  <2> QED
    BY <2>2, <2>3 DEF Next, QueueStep, JobStep
<1>3. ASSUME NEW w \in Workers, NEW m \in Moments,
             Poison(w, m) \/ Commit(w, m) \/ KeeperRenews(w, m) \/ Confirm(w, m)
      PROVE  [Next]_vars
  <2>1. handle[w] # None
    BY <1>0, <1>3, BusyHasHandle DEF Poison, Commit, KeeperRenews, Confirm, At
  <2> QED
    BY <1>2, <1>3, <2>1 DEF Poison, Commit, KeeperRenews, Confirm
<1>4. ASSUME NEW w \in Workers, NEW m \in Moments, Finish(w, m)
      PROVE  [Next]_vars
  <2>1. handle[w] # None /\ result[w] \in Statuses
    BY <1>0, <1>4, BusyHasHandle DEF Finish, At, TickInv, PlacesAreTrue, PlaceIsTrue
  <2> QED
    BY <1>2, <1>4, <2>1 DEF Finish, Statuses
<1>5. ASSUME NEW w \in Workers, Receipt(w)
      PROVE  [Next]_vars
  <2>1. handle[w] # None /\ result[w] \in Statuses
    BY <1>0, <1>5, BusyHasHandle DEF Receipt, At, TickInv, PlacesAreTrue, PlaceIsTrue
  <2>2. handle[w].job \in Effects
    BY <1>0, <2>1, HandleType, WorkerAssumption
  <2> QED
    BY <1>5, <2>1, <2>2 DEF Receipt, Next, QueueStep, JobStep
<1>6. ASSUME NEW w \in Workers,
             \/ \E s \in Statuses : Return(w, s)
             \/ Start(w) \/ KeeperFails(w) \/ LoseLease(w) \/ Raise(w)
      PROVE  UNCHANGED vars
  BY <1>6 DEF Return, Start, KeeperFails, LoseLease, Raise
<1>7. ASSUME Startup \/ Human \/ Client
      PROVE  [Next]_vars
  BY <1>7 DEF Startup, Human, Client, Next, QueueStep, JobStep
<1>8. ASSUME Environment
      PROVE  [Next]_vars
  BY <1>8 DEF Environment, Next, OutboxStep
<1> QED
  BY <1>1, <1>3, <1>4, <1>5, <1>6, <1>7, <1>8 DEF WorkerNext, WorkerStep, workerVars

-----------------------------------------------------------------------------
(* The ticks *)

\* What a step does about the job of one worker's claim, or about an unclaimed
\* job, leaves the place of every other worker true.
LEMMA OtherPlaces ==
  ASSUME TickInv, NEW w \in Workers, NEW v \in Workers \ {w},
         pc'[v] = pc[v], handle'[v] = handle[v], result'[v] = result[v],
         \A i \in Jobs : claim[i] # None /\ claim[i] # handle[w] =>
           /\ claim'[i] = claim[i] /\ receipt'[i] = receipt[i]
           /\ started'[i] = started[i] /\ reported'[i] = reported[i]
  PROVE  PlaceIsTrue(v)'
<1>0. PlaceIsTrue(v)
  BY DEF TickInv, PlacesAreTrue
<1>1. CASE pc[v] \in BeyondCommit
  <2> DEFINE i == handle[v].job
  <2>1. handle[v] # None
    BY <1>1, BusyHasHandle DEF BeyondCommit
  <2>2. i \in Jobs /\ claim[i] = handle[v]
    BY <1>0, <1>1, <2>1, HandleType DEF PlaceIsTrue
  <2>3. handle[v] # handle[w]
    BY <2>1 DEF TickInv, HandlesAreUnique
  <2>4. /\ claim'[i] = claim[i] /\ receipt'[i] = receipt[i]
        /\ started'[i] = started[i] /\ reported'[i] = reported[i]
    BY <2>1, <2>2, <2>3
  <2> QED
    BY <1>0, <2>4 DEF PlaceIsTrue
<1>2. CASE pc[v] \notin BeyondCommit
  BY <1>2 DEF PlaceIsTrue, BeyondCommit
<1> QED
  BY <1>1, <1>2

\* Steps that touch neither a tick nor a claim, a receipt or a token.
LEMMA TickFrame ==
  ASSUME TickInv, UNCHANGED <<tickVars, claim, receipt, fence>>
  PROVE  TickInv'
BY DEF tickVars, TickInv, TickTypeOK, KeyIsJob, HandlesAreUnique, PlacesAreTrue, PlaceIsTrue,
       HistoryIsClaimed

\* Every step of a worker keeps the invariant of the ticks.
LEMMA WorkerStepKeepsTicks ==
  ASSUME TypeOK, TickInv, NEW w \in Workers, WorkerStep(w)
  PROVE  TickInv'
<1> USE DEF jobVars, leaseVars, effectVars
<1> DEFINE j == handle[w].job
<1>0. /\ TickTypeOK /\ KeyIsJob /\ HandlesAreUnique /\ PlaceIsTrue(w) /\ HistoryIsClaimed
      /\ fence \in [Jobs -> Nat] /\ claim \in [Jobs -> Holder \cup {None}]
      /\ receipt \in [Jobs -> Statuses \cup {"none"}]
  BY WorkerAssumption DEF TickInv, PlacesAreTrue, TypeOK
\* A step that changes the place of w, and perhaps its result and its keeper.
<1>1. ASSUME NEW place \in Places, pc[w] # "idle", pc' = [pc EXCEPT ![w] = place],
             handle' = handle, result' \in [Workers -> Statuses \cup {"none"}],
             \A v \in Workers \ {w} : result'[v] = result[v],
             keeper' \in [Workers -> {"off", "on", "lost"}],
             \A v \in Workers \ {w} : keeper'[v] = keeper[v],
             fence' = fence,
             \A i \in Jobs \ {j} : /\ claim'[i] = claim[i] /\ receipt'[i] = receipt[i]
                                   /\ started'[i] = started[i] /\ reported'[i] = reported[i],
             \/ claim[j] \in {None, handle[w]}
             \/ /\ claim'[j] = claim[j] /\ receipt'[j] = receipt[j]
                /\ started'[j] = started[j] /\ reported'[j] = reported[j],
             PlaceIsTrue(w)'
      PROVE  HandlesAreUnique' /\ PlacesAreTrue'
  <2>1. HandlesAreUnique'
    <3>1. \A v \in Workers : pc'[v] # "idle" \/ keeper'[v] = "on" => handle[v] # None
      <4>1. handle[w] # None
        BY <1>1, BusyHasHandle
      <4> QED
        BY <1>0, <1>1, <4>1 DEF HandlesAreUnique, TickTypeOK
    <3> QED
      BY <1>0, <1>1, <3>1 DEF HandlesAreUnique
  <2>2. ASSUME NEW v \in Workers \ {w}
        PROVE  PlaceIsTrue(v)'
    <3>1. pc'[v] = pc[v] /\ handle'[v] = handle[v] /\ result'[v] = result[v]
      BY <1>0, <1>1 DEF TickTypeOK
    <3>2. \A i \in Jobs : claim[i] # None /\ claim[i] # handle[w] =>
            /\ claim'[i] = claim[i] /\ receipt'[i] = receipt[i]
            /\ started'[i] = started[i] /\ reported'[i] = reported[i]
      BY <1>1
    <3> QED
      BY <3>1, <3>2, OtherPlaces
  <2> QED
    BY <1>1, <2>1, <2>2 DEF PlacesAreTrue
<1>2. ASSUME NEW i \in Jobs, NEW R \in SUBSET Resources, NEW m \in Moments, Claim(w, i, R, m)
      PROVE  TickInv'
  <2> DEFINE h == [job |-> i, fence |-> fence[i] + 1]
  <2>1. /\ pc' = [pc EXCEPT ![w] = "claimed"] /\ handle' = [handle EXCEPT ![w] = h]
        /\ result' = [result EXCEPT ![w] = "none"] /\ keeper' = [keeper EXCEPT ![w] = "off"]
        /\ UNCHANGED <<started, reported, claim, receipt>>
        /\ fence' = [fence EXCEPT ![i] = fence[i] + 1]
    BY <1>2 DEF Claim, Goto, ClaimNext
  <2>2. h \in Holder /\ h.job = i /\ h.fence = fence[i] + 1
    BY <1>0 DEF Holder
  <2>3. h # None
    BY <2>2, SentinelAssumption
  <2> HIDE DEF h
  <2>4. TickTypeOK'
    BY <1>0, <2>1, <2>2 DEF TickTypeOK, Places
  <2>5. KeyIsJob' /\ HistoryIsClaimed'
    BY <1>0, <2>1 DEF KeyIsJob, HistoryIsClaimed
  <2>6. ASSUME NEW v \in Workers \ {w}, handle[v] # None
        PROVE  handle[v] # h /\ handle[v].fence \in 1..fence'[handle[v].job]
    <3>1. /\ handle[v].job \in Jobs /\ handle[v].fence \in Nat
          /\ handle[v].fence \in 1..fence[handle[v].job]
      BY <2>6, HandleType
    <3> QED
      BY <1>0, <2>1, <2>2, <3>1
  <2>7. h.fence \in 1..fence'[h.job]
    BY <1>0, <2>1, <2>2
  <2>8. HandlesAreUnique'
    <3>1. handle'[w] = h /\ \A v \in Workers \ {w} : handle'[v] = handle[v] /\ pc'[v] = pc[v] /\ keeper'[v] = keeper[v]
      BY <1>0, <2>1 DEF TickTypeOK
    <3>2. \A v \in Workers : handle'[v] # None => handle'[v].fence \in 1..fence'[handle'[v].job]
      BY <2>6, <2>7, <3>1
    <3>3. \A u, v \in Workers : handle'[u] # None /\ handle'[u] = handle'[v] => u = v
      BY <1>0, <2>3, <2>6, <3>1 DEF HandlesAreUnique
    <3>4. \A v \in Workers : pc'[v] # "idle" \/ keeper'[v] = "on" => handle'[v] # None
      BY <1>0, <2>3, <3>1 DEF HandlesAreUnique
    <3> QED
      BY <3>2, <3>3, <3>4 DEF HandlesAreUnique
  <2>9. PlacesAreTrue'
    <3>1. PlaceIsTrue(w)'
      BY <1>0, <2>1 DEF PlaceIsTrue, BeyondCommit, TickTypeOK
    <3>2. ASSUME NEW v \in Workers \ {w}
          PROVE  PlaceIsTrue(v)'
      <4>1. pc'[v] = pc[v] /\ handle'[v] = handle[v] /\ result'[v] = result[v]
        BY <1>0, <2>1 DEF TickTypeOK
      <4> QED
        BY <2>1, <4>1, OtherPlaces
    <3> QED
      BY <3>1, <3>2 DEF PlacesAreTrue
  <2> QED
    BY <2>4, <2>5, <2>8, <2>9 DEF TickInv
<1>3. ASSUME pc[w] # "idle"
      PROVE  /\ handle[w] # None /\ handle[w] \in Holder /\ j \in Jobs
             /\ handle[w] = [job |-> j, fence |-> handle[w].fence]
  BY <1>3, BusyHasHandle, HandleType
<1> HIDE DEF j
\* A step that leaves claims, receipts and history alone.
<1>4. ASSUME NEW place \in Places, pc[w] # "idle", pc' = [pc EXCEPT ![w] = place],
             handle' = handle, result' = result, UNCHANGED <<claim, receipt, fence, started, reported>>,
             keeper' \in [Workers -> {"off", "on", "lost"}],
             \A v \in Workers \ {w} : keeper'[v] = keeper[v],
             PlaceIsTrue(w)'
      PROVE  TickInv'
  <2>1. result' \in [Workers -> Statuses \cup {"none"}]
    BY <1>0, <1>4 DEF TickTypeOK
  <2>2. HandlesAreUnique' /\ PlacesAreTrue'
    BY <1>1, <1>4, <2>1
  <2>3. TickTypeOK'
    BY <1>0, <1>4 DEF TickTypeOK
  <2>4. KeyIsJob' /\ HistoryIsClaimed'
    BY <1>0, <1>4 DEF KeyIsJob, HistoryIsClaimed
  <2> QED
    BY <2>2, <2>3, <2>4 DEF TickInv
<1>5. ASSUME NEW m \in Moments, Poison(w, m)
      PROVE  TickInv'
  <2>1. /\ pc[w] # "idle" /\ pc' = [pc EXCEPT ![w] = "idle"] /\ "idle" \in Places
        /\ UNCHANGED <<handle, result, keeper, started, reported, claim, receipt, fence>>
    BY <1>5 DEF Poison, At, Goto, Quarantine, EndLease, Places
  <2>2. PlaceIsTrue(w)'
    BY <1>0, <2>1 DEF PlaceIsTrue, BeyondCommit, TickTypeOK
  <2> QED
    BY <1>0, <1>4, <2>1, <2>2 DEF TickTypeOK
<1>6. ASSUME Raise(w)
      PROVE  TickInv'
  <2>1. /\ pc[w] # "idle" /\ pc' = [pc EXCEPT ![w] = "idle"] /\ "idle" \in Places
        /\ UNCHANGED <<handle, result, keeper, started, reported, claim, receipt, fence>>
    BY <1>6 DEF Raise, At, Goto, vars, storeVars, Places
  <2>2. PlaceIsTrue(w)'
    BY <1>0, <2>1 DEF PlaceIsTrue, BeyondCommit, TickTypeOK
  <2> QED
    BY <1>0, <1>4, <2>1, <2>2 DEF TickTypeOK
<1>7. ASSUME NEW m \in Moments, Finish(w, m)
      PROVE  TickInv'
  <2>1. /\ pc[w] # "idle" /\ pc' = [pc EXCEPT ![w] = "idle"] /\ "idle" \in Places
        /\ UNCHANGED <<handle, result, keeper, started, reported, claim, receipt, fence>>
    BY <1>7 DEF Finish, At, Goto, FinishRecovery, FinishTerminal, EndLease, Places
  <2>2. PlaceIsTrue(w)'
    BY <1>0, <2>1 DEF PlaceIsTrue, BeyondCommit, TickTypeOK
  <2> QED
    BY <1>0, <1>4, <2>1, <2>2 DEF TickTypeOK
<1>8. ASSUME NEW m \in Moments, Confirm(w, m)
      PROVE  TickInv'
  <2>1. /\ pc[w] = "executed" /\ pc' = [pc EXCEPT ![w] = "judged"] /\ "judged" \in Places
        /\ UNCHANGED <<handle, result, started, reported, claim, receipt, fence>>
        /\ keeper' = [keeper EXCEPT ![w] = "off"]
    BY <1>8 DEF Confirm, At, Goto, Heartbeat, Places
  <2>2. PlaceIsTrue(w)'
    BY <1>0, <2>1 DEF PlaceIsTrue, BeyondCommit, TickTypeOK
  <2>3. /\ keeper' \in [Workers -> {"off", "on", "lost"}]
        /\ \A v \in Workers \ {w} : keeper'[v] = keeper[v]
    BY <1>0, <2>1 DEF TickTypeOK
  <2> QED
    BY <1>4, <2>1, <2>2, <2>3
<1>9. ASSUME KeeperFails(w)
      PROVE  TickInv'
  <2>1. /\ pc[w] = "executing" /\ pc' = [pc EXCEPT ![w] = "executing"] /\ "executing" \in Places
        /\ UNCHANGED <<handle, result, started, reported, claim, receipt, fence>>
        /\ keeper' = [keeper EXCEPT ![w] = "lost"]
    BY <1>0, <1>9 DEF KeeperFails, At, Goto, vars, storeVars, Places, TickTypeOK
  <2>2. PlaceIsTrue(w)'
    BY <1>0, <2>1 DEF PlaceIsTrue, BeyondCommit, TickTypeOK
  <2>3. /\ keeper' \in [Workers -> {"off", "on", "lost"}]
        /\ \A v \in Workers \ {w} : keeper'[v] = keeper[v]
    BY <1>0, <2>1 DEF TickTypeOK
  <2> QED
    BY <1>4, <2>1, <2>2, <2>3
<1>10. ASSUME NEW m \in Moments, KeeperRenews(w, m)
       PROVE  TickInv'
  <2>1. /\ UNCHANGED <<pc, handle, result, started, reported, claim, receipt, fence>>
        /\ keeper[w] = "on"
        /\ keeper' = [keeper EXCEPT ![w] = IF pc[w] = "executing" THEN "on" ELSE "off"]
    BY <1>10 DEF KeeperRenews, Heartbeat
  <2>2. TickTypeOK'
    BY <1>0, <2>1 DEF TickTypeOK
  <2>3. \A v \in Workers : keeper'[v] = "on" => keeper[v] = "on"
    BY <1>0, <2>1 DEF TickTypeOK
  <2>4. HandlesAreUnique'
    BY <1>0, <2>1, <2>3 DEF HandlesAreUnique
  <2>5. KeyIsJob' /\ HistoryIsClaimed' /\ PlacesAreTrue'
    BY <1>0, <2>1 DEF KeyIsJob, HistoryIsClaimed, PlacesAreTrue, PlaceIsTrue, TickInv
  <2> QED
    BY <2>2, <2>4, <2>5 DEF TickInv
<1>11. ASSUME LoseLease(w)
       PROVE  TickInv'
  <2>1. /\ pc[w] = "executed" /\ pc' = [pc EXCEPT ![w] = "judged"] /\ "judged" \in Places
        /\ UNCHANGED <<handle, keeper, started, reported, claim, receipt, fence>>
        /\ result' = [result EXCEPT ![w] = "unknown"]
    BY <1>11 DEF LoseLease, At, Goto, vars, storeVars, Places
  <2>2. TickTypeOK' /\ \A v \in Workers \ {w} : result'[v] = result[v]
    BY <1>0, <2>1 DEF TickTypeOK, Statuses
  <2>3. PlaceIsTrue(w)'
    BY <1>0, <2>1 DEF PlaceIsTrue, BeyondCommit, TickTypeOK, Statuses
  <2>4. HandlesAreUnique' /\ PlacesAreTrue'
    BY <1>0, <1>1, <2>1, <2>2, <2>3 DEF TickTypeOK
  <2>5. KeyIsJob' /\ HistoryIsClaimed'
    BY <1>0, <2>1 DEF KeyIsJob, HistoryIsClaimed
  <2> QED
    BY <2>2, <2>4, <2>5 DEF TickInv
<1>12. ASSUME NEW m \in Moments, Commit(w, m)
       PROVE  TickInv'
  <2>0. handle[w] # None /\ handle[w] \in Holder /\ j \in Jobs /\ handle[w].job = j
        /\ handle[w] = [job |-> j, fence |-> handle[w].fence]
    BY <1>3, <1>12 DEF Commit, At, j
  <2>1. /\ pc[w] # "idle" /\ pc' = [pc EXCEPT ![w] = "committed"] /\ "committed" \in Places
        /\ UNCHANGED <<handle, result, keeper, started, reported, receipt, fence>>
        /\ claim[j] = None /\ claim' = [claim EXCEPT ![j] = handle[w]]
    BY <1>12, <2>0 DEF Commit, At, Goto, ClaimEffect, Places, j
  <2>2. TickTypeOK'
    BY <1>0, <2>1 DEF TickTypeOK
  <2>3. claim'[j] = handle[w] /\ \A i \in Jobs \ {j} : claim'[i] = claim[i]
    BY <1>0, <2>0, <2>1
  <2>4. started[j] = 0 /\ receipt[j] = "none"
    BY <1>0, <2>0, <2>1 DEF HistoryIsClaimed
  <2>5. PlaceIsTrue(w)'
    BY <1>0, <2>0, <2>1, <2>3, <2>4 DEF PlaceIsTrue, BeyondCommit, TickTypeOK
  <2>6. HandlesAreUnique' /\ PlacesAreTrue'
    BY <1>0, <1>1, <2>1, <2>3, <2>5 DEF TickTypeOK
  <2>7. KeyIsJob'
    BY <1>0, <2>0, <2>3, WorkerAssumption DEF KeyIsJob
  <2>8. HistoryIsClaimed'
    BY <1>0, <2>0, <2>1, <2>3 DEF HistoryIsClaimed
  <2> QED
    BY <2>2, <2>6, <2>7, <2>8 DEF TickInv
<1>13. ASSUME Start(w)
       PROVE  TickInv'
  <2>0. handle[w] # None /\ j \in Jobs /\ handle[w].job = j
    BY <1>3, <1>13 DEF Start, At, j
  <2>1. /\ pc[w] = "committed" /\ pc' = [pc EXCEPT ![w] = "executing"] /\ "executing" \in Places
        /\ UNCHANGED <<handle, result, reported, claim, receipt, fence>>
        /\ keeper' = [keeper EXCEPT ![w] = "on"]
        /\ started' = [started EXCEPT ![j] = started[j] + 1]
    BY <1>13 DEF Start, At, Goto, vars, storeVars, Places, j
  <2>2. claim[j] = handle[w] /\ started[j] = 0 /\ receipt[j] = "none"
    BY <1>0, <2>1, <2>0 DEF PlaceIsTrue, BeyondCommit
  <2>3. started'[j] = 1 /\ \A i \in Jobs \ {j} : started'[i] = started[i]
    BY <1>0, <2>0, <2>1, <2>2 DEF TickTypeOK
  <2>4. TickTypeOK' /\ \A v \in Workers \ {w} : keeper'[v] = keeper[v]
    BY <1>0, <2>1, <2>0 DEF TickTypeOK
  <2>5. PlaceIsTrue(w)'
    BY <1>0, <2>0, <2>1, <2>2 DEF PlaceIsTrue, BeyondCommit, TickTypeOK
  <2>6. HandlesAreUnique' /\ PlacesAreTrue'
    BY <1>0, <1>1, <2>1, <2>2, <2>3, <2>4, <2>5 DEF TickTypeOK
  <2>7. KeyIsJob'
    BY <1>0, <2>1 DEF KeyIsJob
  <2>8. HistoryIsClaimed'
    BY <1>0, <2>0, <2>1, <2>2, <2>3 DEF HistoryIsClaimed
  <2> QED
    BY <2>4, <2>6, <2>7, <2>8 DEF TickInv
<1>14. ASSUME NEW s \in Statuses, Return(w, s)
       PROVE  TickInv'
  <2>0. handle[w] # None /\ j \in Jobs /\ handle[w].job = j
    BY <1>3, <1>14 DEF Return, At, j
  <2>1. /\ pc[w] = "executing" /\ pc' = [pc EXCEPT ![w] = "executed"] /\ "executed" \in Places
        /\ UNCHANGED <<handle, keeper, started, claim, receipt, fence>>
        /\ result' = [result EXCEPT ![w] = s]
        /\ reported' = IF s = "unknown" THEN reported ELSE [reported EXCEPT ![j] = s]
    BY <1>14 DEF Return, At, Goto, vars, storeVars, Places, j
  <2>2. claim[j] = handle[w] /\ receipt[j] = "none"
    BY <1>0, <2>1, <2>0 DEF PlaceIsTrue, BeyondCommit
  <2>3. /\ \A i \in Jobs \ {j} : reported'[i] = reported[i]
        /\ s # "unknown" => reported'[j] = s
    BY <1>0, <2>0, <2>1 DEF TickTypeOK
  <2>4. TickTypeOK' /\ \A v \in Workers \ {w} : result'[v] = result[v]
    BY <1>0, <2>1, <2>0 DEF TickTypeOK, Statuses
  <2>5. PlaceIsTrue(w)'
    BY <1>0, <2>0, <2>1, <2>2, <2>3 DEF PlaceIsTrue, BeyondCommit, TickTypeOK, Statuses
  <2>6. HandlesAreUnique' /\ PlacesAreTrue'
    BY <1>0, <1>1, <2>1, <2>2, <2>3, <2>4, <2>5 DEF TickTypeOK
  <2>7. KeyIsJob'
    BY <1>0, <2>1 DEF KeyIsJob
  <2>8. HistoryIsClaimed'
    BY <1>0, <2>0, <2>1, <2>2, <2>3 DEF HistoryIsClaimed
  <2> QED
    BY <2>4, <2>6, <2>7, <2>8 DEF TickInv
<1>15. ASSUME Receipt(w)
       PROVE  TickInv'
  <2>0. handle[w] # None /\ j \in Jobs /\ handle[w].job = j
    BY <1>3, <1>15 DEF Receipt, At, j
  <2>1. /\ pc[w] = "judged" /\ pc' = [pc EXCEPT ![w] = "receipted"] /\ "receipted" \in Places
        /\ UNCHANGED <<handle, result, keeper, started, reported, claim, fence>>
        /\ receipt' = [receipt EXCEPT ![j] = result[w]]
    BY <1>15 DEF Receipt, At, Goto, RecordReceipt, Places, j
  <2>2. /\ claim[j] = handle[w] /\ result[w] \in Statuses
        /\ result[w] \in {"completed", "failed"} => reported[j] = result[w]
    BY <1>0, <2>1, <2>0 DEF PlaceIsTrue, BeyondCommit
  <2>3. receipt'[j] = result[w] /\ \A i \in Jobs \ {j} : receipt'[i] = receipt[i]
    BY <1>0, <2>0, <2>1
  <2>4. TickTypeOK'
    BY <1>0, <2>1 DEF TickTypeOK
  <2>5. PlaceIsTrue(w)'
    BY <1>0, <2>0, <2>1, <2>2 DEF PlaceIsTrue, BeyondCommit, TickTypeOK
  <2>6. HandlesAreUnique' /\ PlacesAreTrue'
    BY <1>0, <1>1, <2>1, <2>2, <2>3, <2>5 DEF TickTypeOK
  <2>7. KeyIsJob'
    BY <1>0, <2>1 DEF KeyIsJob
  <2>8. HistoryIsClaimed'
    BY <1>0, <2>0, <2>1, <2>2, <2>3 DEF HistoryIsClaimed
  <2> QED
    BY <2>4, <2>6, <2>7, <2>8 DEF TickInv
<1> QED
  BY <1>2, <1>5, <1>6, <1>7, <1>8, <1>9, <1>10, <1>11, <1>12, <1>13, <1>14, <1>15 DEF WorkerStep

\* The other processes, the human and the clients touch no tick, no claim, no
\* receipt and no token.
LEMMA OthersKeepTicks ==
  ASSUME TickInv, Startup \/ Human \/ Client \/ Environment
  PROVE  TickInv'
<1> USE DEF jobVars, leaseVars, effectVars
<1>1. UNCHANGED <<tickVars, claim, receipt, fence>>
  <2>1. ASSUME NEW m, NEW O, Sweep(m, O)
        PROVE  UNCHANGED <<claim, receipt, fence>>
    BY <2>1 DEF Sweep
  <2>2. CASE Startup
    BY <2>1, <2>2 DEF Startup, ProbeOrphans, RecoverOrphans, AbandonOrphans, RecoverExpired
  <2>3. CASE Human
    BY <2>3 DEF Human, ResolveEffect, ReconcileRecovery
  <2>4. CASE Client
    BY <2>4 DEF Client, Enqueue, InsertJob
  <2>5. CASE Environment
    BY <2>5 DEF Environment, storeVars
  <2> QED
    BY <2>2, <2>3, <2>4, <2>5
<1> QED
  BY <1>1, TickFrame

-----------------------------------------------------------------------------
(* What is known of a job that has ended *)

\* The two conjuncts of the invariant about ended jobs, for one job.
EndIsKnown(j) ==
  /\ state[j] = "completed" /\ resolution[j] = "none" => receipt[j] = "completed"
  /\ claim[j] # None /\ state[j] # "running" =>
       receipt[j] \in {"completed", "failed"} \/ case[j] # "none"

EndsAreKnown == \A j \in Jobs : EndIsKnown(j)

\* A claimed effect is either unresolved or its receipt is known.
LEMMA OwnClaimKnown ==
  ASSUME TypeOK, KeyIsJob, NEW j \in Jobs, claim[j] # None
  PROVE  /\ ClaimsOf(j) = {j}
         /\ Unresolved(j) = IF receipt[j] \in {"none", "unknown"} THEN {j} ELSE {}
         /\ Unresolved(j) = {} => receipt[j] \in {"completed", "failed"}
         /\ HasFailedReceipt(j) <=> receipt[j] = "failed"
         /\ OpenCases(j) = IF case[j] = "open" THEN {j} ELSE {}
<1>1. ClaimsOf(j) = {j}
  BY OwnClaim
<1>2. Unresolved(j) = IF receipt[j] \in {"none", "unknown"} THEN {j} ELSE {}
  BY <1>1 DEF Unresolved
<1>3. receipt[j] \in Statuses \cup {"none"}
  BY WorkerAssumption DEF TypeOK
<1> QED
  BY <1>1, <1>2, <1>3 DEF HasFailedReceipt, OpenCases, Statuses

\* The sweep ends a job only with what is known of its effect.
LEMMA SweptIsKnown ==
  ASSUME WorkerInv, EndsAreKnown, NEW m, NEW O, NEW j \in Jobs
  PROVE  /\ SweptState(m, O)[j] = "completed" /\ resolution[j] = "none" => receipt[j] = "completed"
         /\ claim[j] # None /\ SweptState(m, O)[j] # "running" =>
              receipt[j] \in {"completed", "failed"} \/ SweptCase(m, O)[j] # "none"
<1>0. /\ StoreInv /\ TypeOK /\ KeyIsJob /\ j \in Effects /\ EndIsKnown(j)
  BY WorkerAssumption DEF WorkerInv, RecoveryInv, StoreInv, TickInv, EndsAreKnown
<1>1. SweptCase(m, O)[j] \in {case[j], "open"}
  BY <1>0 DEF SweptCase
<1>2. CASE SweptState(m, O)[j] = state[j]
  BY <1>0, <1>1, <1>2 DEF EndIsKnown
<1>3. CASE claim[j] = None /\ SweptState(m, O)[j] # state[j]
  <2>1. ClaimsOf(j) = {}
    BY <1>0, <1>3, OwnClaim
  <2>2. SweptState(m, O)[j] \in {"ready", "failed"}
    BY <1>0, <1>3, <2>1, SweptMove
  <2> QED
    BY <1>3, <2>2
<1>4. CASE claim[j] # None /\ SweptState(m, O)[j] # state[j]
  <2>1. ClaimsOf(j) = {j}
    BY <1>0, <1>4, OwnClaimKnown
  <2>2. state[j] \notin {"absent", "ready"}
    BY <1>0, <2>1, ReadyHasNoClaims
  <2>3. j \in Due(m, O) /\ SweptState(m, O)[j] = SweepState(j, m)
    BY <1>0, <1>4, <2>1, <2>2, SweptMove
  <2>4. CASE Unresolved(j) # {}
    <3>1. j \in Unresolved(j) /\ SweepState(j, m) = "recovery-required"
      BY <1>0, <1>4, <2>4, OwnClaimKnown DEF SweepState
    <3>2. SweptCase(m, O)[j] = "open"
      BY <1>0, <2>3, <3>1 DEF SweptCase
    <3> QED
      BY <2>3, <3>1, <3>2
  <2>5. CASE Unresolved(j) = {}
    <3>1. receipt[j] \in {"completed", "failed"}
      BY <1>0, <1>4, <2>5, OwnClaimKnown
    <3>2. SweepState(j, m) = IF HasFailedReceipt(j) THEN "failed" ELSE "completed"
      BY <2>1, <2>5 DEF SweepState
    <3> QED
      BY <1>0, <1>4, <2>3, <3>1, <3>2, OwnClaimKnown
  <2> QED
    BY <2>4, <2>5
<1> QED
  BY <1>2, <1>3, <1>4

\* Every step keeps the ends known.
LEMMA WorkerNextKeepsEnds ==
  ASSUME WorkerInv, EndsAreKnown, [WorkerNext]_workerVars
  PROVE  EndsAreKnown'
<1> USE DEF jobVars, leaseVars, effectVars
<1>0. /\ RecoveryInv /\ StoreInv /\ TypeOK /\ KeyIsJob /\ TickInv /\ Effects = Jobs
  BY WorkerAssumption DEF WorkerInv, RecoveryInv, StoreInv, TickInv
<1>a. /\ state \in [Jobs -> JobStates] /\ claim \in [Jobs -> Holder \cup {None}]
      /\ receipt \in [Jobs -> Statuses \cup {"none"}]
      /\ case \in [Jobs -> {"none", "open", "resolved"}]
      /\ resolution \in [Jobs -> {"none", "completed", "failed"}]
  BY <1>0 DEF TypeOK
<1>1. ASSUME UNCHANGED <<state, claim, receipt, case, resolution>>
      PROVE  EndsAreKnown'
  BY <1>1 DEF EndsAreKnown, EndIsKnown
<1>2. ASSUME NEW m, NEW O, Sweep(m, O)
      PROVE  EndsAreKnown'
  BY <1>2, SweptIsKnown DEF Sweep, EndsAreKnown, EndIsKnown
<1>3. ASSUME NEW p, NEW j \in Jobs, NEW R, NEW m, ClaimNext(p, j, R, m)
      PROVE  EndsAreKnown'
  <2>1. /\ state' = [SweptState(m, {}) EXCEPT ![j] = "running"]
        /\ case' = SweptCase(m, {}) /\ UNCHANGED <<claim, receipt, resolution>>
    BY <1>3 DEF ClaimNext
  <2>2. SweptState(m, {}) \in [Jobs -> JobStates]
    BY <1>0, SweepType
  <2> QED
    BY <2>1, <2>2, SweptIsKnown DEF EndsAreKnown, EndIsKnown
<1>4. ASSUME NEW p, NEW j \in Jobs, NEW f \in Nat, NEW m, ClaimEffect(p, j, f, j, m)
      PROVE  EndsAreKnown'
  <2>1. state[j] = "running"
    BY <1>0, <1>4 DEF ClaimEffect, LiveLease, StoreInv, RunningIffLeased
  <2> QED
    BY <1>a, <1>4, <2>1 DEF ClaimEffect, EndsAreKnown, EndIsKnown
<1>5. ASSUME NEW j \in Jobs, NEW s \in Statuses, RecordReceipt(j, s)
      PROVE  EndsAreKnown'
  BY <1>a, <1>5 DEF RecordReceipt, EndsAreKnown, EndIsKnown, Statuses
<1>6. ASSUME NEW p, NEW j \in Jobs, NEW f, NEW m, NEW to \in {"completed", "failed"},
             FinishTerminal(p, j, f, to, m), claim[j] # None
      PROVE  EndsAreKnown'
  <2>1. Unresolved(j) = {} /\ (to = "completed" => ~HasFailedReceipt(j))
    BY <1>6 DEF FinishTerminal
  <2>2. receipt[j] \in {"completed", "failed"} /\ (to = "completed" => receipt[j] = "completed")
    BY <1>0, <1>6, <2>1, OwnClaimKnown
  <2> QED
    BY <1>a, <1>6, <2>2 DEF FinishTerminal, EndLease, EndsAreKnown, EndIsKnown
<1>7. ASSUME NEW p, NEW j \in Jobs, NEW f, NEW m, FinishRecovery(p, j, f, m), claim[j] # None
      PROVE  EndsAreKnown'
  <2> DEFINE fresh == IF OpenCases(j) = {} THEN Unresolved(j) ELSE {}
  <2>1. /\ Unresolved(j) # {} /\ case' = [k \in Effects |-> IF k \in fresh THEN "open" ELSE case[k]]
        /\ state' = [state EXCEPT ![j] = "recovery-required"]
        /\ UNCHANGED <<claim, receipt, resolution>>
    BY <1>7 DEF FinishRecovery, EndLease
  <2>2. Unresolved(j) = {j} /\ OpenCases(j) = IF case[j] = "open" THEN {j} ELSE {}
    BY <1>0, <1>7, <2>1, OwnClaimKnown
  <2>3. case'[j] = "open" /\ \A i \in Jobs \ {j} : case'[i] = case[i]
    BY <1>0, <2>1, <2>2
  <2> QED
    BY <1>a, <2>1, <2>3 DEF EndsAreKnown, EndIsKnown
<1>8. ASSUME NEW p, NEW j \in Jobs, NEW f, NEW m, Quarantine(p, j, f, m)
      PROVE  EndsAreKnown'
  <2>1. claim[j] = None
    BY <1>0, <1>8, OwnClaim DEF Quarantine
  <2> QED
    BY <1>a, <1>8, <2>1 DEF Quarantine, EndLease, EndsAreKnown, EndIsKnown
<1>9. ASSUME NEW j \in Jobs, NEW o \in {"completed", "failed"}, ResolveEffect(j, o)
      PROVE  EndsAreKnown'
  BY <1>a, <1>9 DEF ResolveEffect, EndsAreKnown, EndIsKnown
<1>10. ASSUME NEW j \in Jobs, ReconcileRecovery(j)
       PROVE  EndsAreKnown'
  <2>1. PICK to \in {"completed", "failed"} : state' = [state EXCEPT ![j] = to]
    BY <1>10 DEF ReconcileRecovery
  <2>2. PICK k \in ClaimsOf(j) : case[k] # "none"
    BY <1>0, <1>10 DEF ReconcileRecovery, RecoveryInv, AmbiguityRecorded
  <2>3. k = j
    BY <1>0, OwnClaim
  <2>4. resolution[j] # "none"
    BY <1>10, <2>2, <2>3 DEF ReconcileRecovery, Unreconciled
  <2> QED
    BY <1>a, <1>10, <2>1, <2>2, <2>3, <2>4 DEF ReconcileRecovery, EndsAreKnown, EndIsKnown
<1>11. ASSUME NEW j \in Jobs, NEW q, Enqueue(j, q)
       PROVE  EndsAreKnown'
  <2>1. state[j] = "absent"
    BY <1>11 DEF Enqueue, InsertJob
  <2>2. claim[j] = None
    BY <1>0, <2>1, ReadyHasNoClaims, OwnClaim
  <2> QED
    BY <1>a, <1>11, <2>2 DEF Enqueue, InsertJob, EndsAreKnown, EndIsKnown
<1>12. ASSUME NEW w \in Workers, NEW m \in Moments,
              Poison(w, m) \/ Commit(w, m) \/ Confirm(w, m) \/ KeeperRenews(w, m) \/ Finish(w, m)
       PROVE  EndsAreKnown'
  <2> DEFINE j == handle[w].job
             f == handle[w].fence
  <2>1. handle[w] # None
    BY <1>0, <1>12, BusyHasHandle DEF Poison, Commit, Confirm, KeeperRenews, Finish, At
  <2>2. j \in Jobs /\ f \in Nat
    BY <1>0, <2>1, HandleType
  <2>3. CASE Poison(w, m)
    BY <1>8, <2>2, <2>3 DEF Poison
  <2>4. CASE Commit(w, m)
    BY <1>4, <2>2, <2>4 DEF Commit
  <2>5. CASE Confirm(w, m) \/ KeeperRenews(w, m)
    BY <1>1, <2>5 DEF Confirm, KeeperRenews, Heartbeat
  <2>6. CASE Finish(w, m)
    <3>1. claim[j] # None /\ result[w] \in Statuses
      BY <1>0, <2>1, <2>6 DEF Finish, At, TickInv, PlacesAreTrue, PlaceIsTrue, BeyondCommit
    <3>2. CASE result[w] = "unknown"
      BY <1>7, <2>2, <2>6, <3>1, <3>2 DEF Finish
    <3>3. CASE result[w] \in {"completed", "failed"}
      BY <1>6, <2>2, <2>6, <3>1, <3>3 DEF Finish
    <3> QED
      BY <3>1, <3>2, <3>3 DEF Statuses
  <2> QED
    BY <1>12, <2>3, <2>4, <2>5, <2>6
<1>13. ASSUME NEW w \in Workers, Receipt(w)
       PROVE  EndsAreKnown'
  <2>1. handle[w] # None /\ result[w] \in Statuses
    BY <1>0, <1>13, BusyHasHandle DEF Receipt, At, TickInv, PlacesAreTrue, PlaceIsTrue
  <2>2. handle[w].job \in Jobs
    BY <1>0, <2>1, HandleType
  <2> QED
    BY <1>5, <1>13, <2>1, <2>2 DEF Receipt
<1>14. ASSUME NEW w \in Workers,
              \/ \E s \in Statuses : Return(w, s)
              \/ Start(w) \/ KeeperFails(w) \/ LoseLease(w) \/ Raise(w)
       PROVE  EndsAreKnown'
  BY <1>1, <1>14 DEF Return, Start, KeeperFails, LoseLease, Raise, vars, storeVars
<1>15. ASSUME NEW w \in Workers, NEW j \in Jobs, NEW R \in SUBSET Resources, NEW m \in Moments,
              Claim(w, j, R, m)
       PROVE  EndsAreKnown'
  BY <1>3, <1>15 DEF Claim
<1>16. ASSUME Startup
       PROVE  EndsAreKnown'
  BY <1>1, <1>2, <1>16 DEF Startup, ProbeOrphans, AbandonOrphans, RecoverOrphans, RecoverExpired
<1>17. ASSUME Human \/ Client
       PROVE  EndsAreKnown'
  BY <1>0, <1>9, <1>10, <1>11, <1>17 DEF Human, Client
<1>18. ASSUME Environment \/ UNCHANGED workerVars
       PROVE  EndsAreKnown'
  BY <1>1, <1>18 DEF Environment, workerVars, vars, storeVars
<1> QED
  BY <1>12, <1>13, <1>14, <1>15, <1>16, <1>17, <1>18 DEF WorkerNext, WorkerStep

-----------------------------------------------------------------------------
(* The results *)

\* The invariant holds in every reachable state of the workers.
LEMMA WorkerConsistent == WorkerSpec => []WorkerInv
<1>1. WorkerInit => WorkerInv
  <2> SUFFICES ASSUME WorkerInit
               PROVE  WorkerInv
    OBVIOUS
  <2>1. RecoveryInv
    BY InitRecovery DEF WorkerInit
  <2>2. TickTypeOK
    BY DEF WorkerInit, TickTypeOK, Places
  <2>3. /\ \A w \in Workers : pc[w] = "idle" /\ handle[w] = None /\ keeper[w] = "off"
        /\ \A j \in Jobs : /\ started[j] = 0 /\ claim[j] = None /\ receipt[j] = "none"
                           /\ state[j] = "absent"
    BY WorkerAssumption DEF WorkerInit, Init
  <2>4. KeyIsJob /\ HandlesAreUnique
    BY <2>3, WorkerAssumption DEF KeyIsJob, HandlesAreUnique
  <2>5. PlacesAreTrue /\ HistoryIsClaimed
    BY <2>3 DEF PlacesAreTrue, PlaceIsTrue, BeyondCommit, HistoryIsClaimed
  <2>6. CompletedIsKnown /\ NothingForgotten
    BY <2>3 DEF CompletedIsKnown, NothingForgotten
  <2> QED
    BY <2>1, <2>2, <2>4, <2>5, <2>6 DEF WorkerInv, TickInv
<1>2. ASSUME WorkerInv, [WorkerNext]_workerVars
      PROVE  WorkerInv'
  <2>1. TypeOK /\ TickInv /\ RecoveryInv
    BY <1>2 DEF WorkerInv, RecoveryInv, StoreInv
  <2>2. RecoveryInv'
    BY <1>2, <2>1, WorkerStepIsNext, NextKeepsRecovery
  <2>3. TickInv'
    <3>1. CASE UNCHANGED workerVars
      BY <2>1, <3>1, TickFrame DEF workerVars, vars, storeVars, jobVars, effectVars
    <3> QED
      BY <1>2, <2>1, <3>1, WorkerStepKeepsTicks, OthersKeepTicks DEF WorkerNext
  <2>4. EndsAreKnown
    BY <1>2 DEF WorkerInv, CompletedIsKnown, NothingForgotten, EndsAreKnown, EndIsKnown
  <2>5. EndsAreKnown'
    BY <1>2, <2>4, WorkerNextKeepsEnds
  <2>6. CompletedIsKnown' /\ NothingForgotten'
    BY <2>5 DEF CompletedIsKnown, NothingForgotten, EndsAreKnown, EndIsKnown
  <2> QED
    BY <2>2, <2>3, <2>6 DEF WorkerInv
<1> QED
  BY <1>1, <1>2, PTL DEF WorkerSpec

\* The workers, their keeper threads, the recoveries and the human use the store
\* within its specification, so every theorem about the store holds of them.
THEOREM WorkersUseTheStore == WorkerSpec => Spec
<1>1. WorkerInit => Init
  BY DEF WorkerInit
<1> QED
  BY <1>1, WorkerStepIsNext, WorkerConsistent, PTL DEF WorkerSpec, Spec

\* The effect of a job is started at most once, and only behind a stored claim,
\* for any number of workers, deaths, expiries, sweeps and resolutions.
THEOREM EffectStartsOnce == WorkerSpec => []EffectAtMostOnce
<1>1. WorkerInv => EffectAtMostOnce
  BY DEF WorkerInv, TickInv, TickTypeOK, HistoryIsClaimed, EffectAtMostOnce
<1> QED
  BY <1>1, WorkerConsistent, PTL

\* A success receipt is the executor's own word, and a job completed without a
\* human verdict has one.
THEOREM SuccessIsReported == WorkerSpec => []NoInventedSuccess
<1>1. WorkerInv => NoInventedSuccess
  BY DEF WorkerInv, TickInv, HistoryIsClaimed, CompletedIsKnown, NoInventedSuccess
<1> QED
  BY <1>1, WorkerConsistent, PTL

\* Once its job no longer runs, every claimed effect is known by receipt or has a
\* recovery case.
THEOREM NoEffectForgotten == WorkerSpec => []NothingForgotten
BY WorkerConsistent, PTL DEF WorkerInv
=============================================================================
