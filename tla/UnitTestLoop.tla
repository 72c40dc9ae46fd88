---------------------------- MODULE UnitTestLoop ----------------------------
(***************************************************************************)
(* The unit-test loop: one request, its attempt ledger and the sessions    *)
(* that work on it.  A session measures a baseline, asks agents for a plan *)
(* and for test patches, claims an attempt, writes the patch into the      *)
(* user's source tree, measures, has the patch verified, and keeps or      *)
(* takes back what it wrote.  Between any two steps the user edits files,  *)
(* pauses or cancels, the canonical job loses its lease, or the process    *)
(* dies; a later session resumes from the ledger.                          *)
(*                                                                         *)
(* A patch changes one test file and serves one scenario.  The content of  *)
(* a test file is Absent, a negative number (the user's: Given at the      *)
(* start, then one per edit), or the ordinal of the attempt that wrote it. *)
(* Coverage, verdicts and failure classes are free choices.  All final     *)
(* stop reasons but cancellation and success are "stopped".                *)
(***************************************************************************)
EXTENDS Integers, Sequences

CONSTANTS Scenarios,    \* material scenarios of the behaviour plan
          Files,        \* test files the agents may write
          MaxAttempts,  \* budget.max_attempts
          Remote,       \* gateway.remote: the calls of a local one are not counted
          MaxCalls,     \* limits.max_remote_calls
          FlakyRepeats, \* limits.flaky_repeats
          MaxDiagnostic,\* limits.max_diagnostic_runs
          Reported,     \* test files that git status reports by the policy's names
          Window,       \* plateau_policy.window
          MaxEdits,     \* bound: edits by the user
          MaxControls,  \* bound: pause and cancel commands
          MaxFaults,    \* bound: crashes, lost leases, failed reverts
          MaxStarts,    \* bound: sessions
          None

ASSUME LoopAssumption ==
  /\ MaxAttempts \in Nat \ {0} /\ MaxCalls \in Nat /\ Window \in Nat \ {0, 1}
  /\ Remote \in BOOLEAN /\ FlakyRepeats \in Nat \ {0} /\ MaxDiagnostic \in Nat
  /\ Reported \subseteq Files
  /\ {MaxEdits, MaxControls, MaxFaults, MaxStarts} \subseteq Nat

VARIABLES
  attempts,  \* unit_test_attempt with its receipt, by ordinal
  saved,     \* the LoopState in the evidence of the last receipt
  terminal,  \* the last row of unit_test_terminal
  disk,      \* content of the test files
  world,     \* source revision, and production, configuration and toolchain
  pc,        \* where the session is; "idle" when there is none
  mem,       \* self.state
  cur,       \* the attempt being made: candidate, observation, measurement
  fin,       \* how the open attempt is being closed
  why,       \* the stop reason on its way to the ledger
  resume,    \* the session was started with --resume
  lost,      \* technical_interruption
  asked,     \* a pause was recorded since the session started
  theirs,    \* what the user last left in every test file
  raced,     \* files the user edited between a digest check and the write behind it
  edits, controls, faults, starts

ledger  == <<attempts, saved, terminal>>
outside == <<disk, world>>
private == <<mem, cur, fin, why>>
bounds  == <<edits, controls, faults, starts>>
user    == <<theirs, raced>>
fixed   == <<resume, lost, asked, user, bounds>>
vars    == <<ledger, outside, pc, private, resume, lost, asked, user, bounds>>

Absent == 0
Given == -1   \* a test file committed before the request
Worlds == [rev : 0 .. 1, prod : 0 .. MaxEdits]

ASSUME LoopSentinel ==
  /\ None \notin Files /\ None \notin Worlds
  /\ None \notin {"paused", "recovery", "cancelled", "success", "stopped"}

Last == Len(attempts)
IsOpen == Last > 0 /\ attempts[Last].state = "claimed"
Final(t) == t \in {"cancelled", "success", "stopped"}

-----------------------------------------------------------------------------
(* The loop's state. *)

\* A scenario's state; "out" is not in the plan, "unresolved" also stands for
\* quarantined and for lacking a specification.  A verified one remembers the
\* world it was verified in.
Scenario(state) == [state |-> state, at |-> None]
VerifiedIn(w) == [state |-> "verified", at |-> w]

\* LoopState(): "bound" compares accepted_plan_digest with the plan's digest,
\* "dull" counts the latest history entries without a gain.
FreshState ==
  [plan |-> "none", bound |-> "none", board |-> [s \in Scenarios |-> Scenario("out")],
   accepted |-> [f \in Files |-> Absent], frozen |-> {}, base |-> None,
   rebase |-> FALSE, dull |-> 0, calls |-> 0, diag |-> 0]

Verified(m, s) == m.board[s].state = "verified"

\* The plan's digest covers its version and the rejected approaches, so a new
\* plan, new scenarios or a newly rejected approach change it.
PlanChanged(m) == [m EXCEPT !.bound = IF @ = "none" THEN "none" ELSE "changed"]

\* with_scenarios: scenarios the plan did not have join it.
Extended(m, new) ==
  [PlanChanged(m) EXCEPT
     !.board = [s \in Scenarios |-> IF s \in new THEN Scenario("planned") ELSE @[s]]]

Outside(m) == {s \in Scenarios : m.board[s].state = "out"}

\* with_rejected: the approach joins the plan's list unless it is on it.
ApproachRejected(m) == {m, PlanChanged(m)}

\* history.append of an entry that brings no gain
Dull(m) == [m EXCEPT !.dull = IF @ < Window THEN @ + 1 ELSE @]

\* The user's pause or cancel, read from the ledger; a lost lease is a pause.
Signal ==
  IF lost THEN "pause"
  ELSE IF terminal = "cancelled" THEN "cancel"
  ELSE IF terminal = "paused" /\ ~resume THEN "pause"
  ELSE "run"

SignalReason == IF Signal = "cancel" THEN "cancelled" ELSE "paused"

\* Files whose recorded content is no longer on disk
Tampered(expected) == {f \in Files : expected[f] # Absent /\ disk[f] # expected[f]}

\* Mutant: the digests of the own files are not compared with the disk.
StaleReasonsTrustingFiles(rec, expected) ==
  (IF disk # rec.tree \/ world # rec.world THEN {"freshness"} ELSE {})
    \cup (IF mem.base # None /\ world # mem.base THEN {"freshness"} ELSE {})
    \cup (IF mem.bound = "changed" THEN {"plan"} ELSE {})

\* _stale_reasons, by kind
StaleReasons(rec, expected) ==
  (IF disk # rec.tree \/ world # rec.world THEN {"freshness"} ELSE {})
    \cup (IF Tampered(expected) # {} THEN {"patch"} ELSE {})
    \cup (IF mem.base # None /\ world # mem.base THEN {"freshness"} ELSE {})
    \cup (IF mem.bound = "changed" THEN {"plan"} ELSE {})

\* Mutant: no new baseline is asked for.
InvalidatedOnly(m, tampered) ==
  [m EXCEPT !.accepted = [f \in Files |-> IF f \in tampered THEN Absent ELSE @[f]],
            !.board = [s \in Scenarios |-> IF Verified(m, s) THEN Scenario("planned") ELSE @[s]]]

\* _invalidate_for_drift: drop tampered files and every verification.
Invalidated(m, tampered) ==
  [m EXCEPT !.accepted = [f \in Files |-> IF f \in tampered THEN Absent ELSE @[f]],
            !.board = [s \in Scenarios |-> IF Verified(m, s) THEN Scenario("planned") ELSE @[s]],
            !.rebase = TRUE]

-----------------------------------------------------------------------------
(* Moving on. *)

Goto(p) == pc' = p /\ UNCHANGED <<fin, why>>
StopFor(r) == pc' = "stop" /\ why' = r /\ UNCHANGED fin

\* Close the open attempt; a patch that is to be taken back is reverted first.
\* "cautious" says that a failed revert stops the session (_finish_rejected).
EndAttempt(first, state, kept, cautious, next, r) ==
  /\ pc' = first
  /\ fin' = [state |-> state, kept |-> kept, cautious |-> cautious, next |-> next]
  /\ why' = r

\* The process is gone, and with it everything that is not in the ledger.
Gone == pc' = "idle" /\ mem' = FreshState /\ cur' = None /\ fin' = None /\ why' = None

Reject(state, next, r) == EndAttempt("revert", state, FALSE, TRUE, next, r)
Keep(next, r) == EndAttempt("close", "interrupted", TRUE, FALSE, next, r)

-----------------------------------------------------------------------------
(* Start of a session. *)

\* execute, _admit and _recover: a request with a final terminal is not worked
\* on; the state is the one of the last receipt; an attempt without a receipt
\* is reverted and closed, not run again.
Start(r, admitted) ==
  /\ pc = "idle" /\ starts < MaxStarts /\ ~Final(terminal)
  /\ starts' = starts + 1 /\ resume' = r /\ lost' = FALSE /\ asked' = FALSE
  /\ IF ~admitted
     THEN mem' = FreshState /\ cur' = None /\ StopFor("stopped")
     ELSE /\ mem' = saved
          /\ IF IsOpen
             THEN /\ cur' = [file |-> attempts[Last].file, pre |-> attempts[Last].pre]
                  /\ EndAttempt("revert", "interrupted", FALSE, FALSE, "loop", why)
             ELSE cur' = None /\ Goto("loop")
  /\ UNCHANGED <<ledger, outside, user, edits, controls, faults>>

-----------------------------------------------------------------------------
(* The main loop. *)

CallsExceeded == Remote /\ mem.calls >= MaxCalls
BudgetExceeded == Last >= MaxAttempts \/ CallsExceeded

\* _git_dirty: files that differ from the committed ones, the loop's own included
Dirty == {f \in Reported : disk[f] \notin {Absent, Given}}

\* The checks at the top of an iteration, up to the kind of attempt to make
LoopTop ==
  /\ pc = "loop"
  /\ \/ Signal # "run" /\ StopFor(SignalReason) /\ UNCHANGED <<mem, cur>>
     \/ Signal = "run" /\ BudgetExceeded /\ StopFor("stopped") /\ UNCHANGED <<mem, cur>>
     \/ /\ Signal = "run" /\ ~BudgetExceeded
        /\ IF mem.base = None \/ mem.rebase
           THEN /\ cur' = [file |-> None, scen |-> None, pre |-> Absent, obs |-> world]
                /\ Goto("gate") /\ UNCHANGED mem
           ELSE IF world.rev # mem.base.rev
           THEN StopFor("stopped") /\ UNCHANGED <<mem, cur>>
           ELSE IF world # mem.base \/ Tampered(mem.accepted) # {}
           THEN mem' = Invalidated(mem, Tampered(mem.accepted)) /\ Goto("loop") /\ UNCHANGED cur
           ELSE cur' = [dirty |-> Dirty] /\ Goto("build") /\ UNCHANGED mem
  /\ UNCHANGED <<ledger, outside, fixed>>

\* _plateau_step: after a window without gain the loop measures afresh,
\* changes its strategy (a history entry) or gives up.
Plateau ==
  /\ pc = "loop" /\ Signal = "run" /\ ~BudgetExceeded /\ mem.dull = Window
  /\ \/ mem' = [mem EXCEPT !.rebase = TRUE] /\ ~mem.rebase /\ Goto("loop")
     \/ StopFor("stopped") /\ UNCHANGED mem
  /\ UNCHANGED <<ledger, outside, cur, fixed>>

Called == [mem EXCEPT !.calls = IF Remote THEN @ + 1 ELSE @]

\* _invoke: the call of a remote gateway is counted; a call may bring no result,
\* or one failure too many and the end of the session.
Invoke(result) ==
  \/ CallsExceeded /\ StopFor("stopped") /\ UNCHANGED <<mem, cur>>
  \/ /\ ~CallsExceeded
     /\ \/ result
        \/ (\E r \in {"stopped", "recovery"} : StopFor(r)) /\ mem' = Called /\ UNCHANGED cur

\* _plan_step: the limit of replans, no plan, or a plan that keeps some
\* scenarios as they are and has new or changed ones (carry_over)
Plan ==
  /\ pc = "build" /\ mem.plan # "ready"
  /\ \/ mem.plan = "replan" /\ StopFor("stopped") /\ UNCHANGED <<mem, cur>>
     \/ Invoke(/\ UNCHANGED cur
               /\ \/ mem' = Called /\ Goto("loop")
                  \/ \E kept \in SUBSET (Scenarios \ Outside(mem)), new \in SUBSET Scenarios,
                        first \in {"planned", "unresolved"} :
                       /\ kept \cap new = {} /\ kept \cup new # {}
                       /\ mem' = [PlanChanged(Called) EXCEPT
                                    !.plan = "ready",
                                    !.board = [s \in Scenarios |->
                                                 IF s \in kept THEN @[s]
                                                 ELSE Scenario(IF s \in new THEN first ELSE "out")]]
                       /\ Goto("build"))
  /\ UNCHANGED <<ledger, outside, fixed>>

\* The preimages a proposal may name and _store_candidate finds on disk: an owned
\* file as it was accepted; any other file as it is, whoever wrote it, unless git
\* reported it when the iteration began; or no file
Preimages(f) ==
  LET owned == mem.accepted[f]
  IN  {c \in {disk[f]} \ {Absent} : f \notin cur.dirty /\ owned \in {Absent, c}}
        \cup (IF owned = Absent THEN {Absent} ELSE {})

\* _build_attempt up to the stored candidate: the builder is called for an open
\* scenario; its proposal is refused, or becomes the candidate.
Build ==
  /\ pc = "build" /\ mem.plan = "ready"
  /\ \E s \in Scenarios :
       /\ mem.board[s].state = "planned"
       /\ Invoke(\/ mem' = Called /\ Goto("loop") /\ UNCHANGED cur
                 \/ /\ \E m \in ApproachRejected(Called) : mem' = Dull(m)
                    /\ UNCHANGED cur
                    /\ Goto("loop") \/ StopFor("stopped")
                 \/ \E f \in Files \ mem.frozen : \E pre \in Preimages(f) :
                      /\ \/ mem' = Called
                         \/ \E new \in SUBSET Outside(mem) : mem' = Extended(Called, new)
                      /\ cur' = [file |-> f, scen |-> s, pre |-> pre, obs |-> world]
                      /\ Goto("gate"))
  /\ UNCHANGED <<ledger, outside, fixed>>

\* _no_actionable: stop, or plan again unless there is a defect (state.defects is
\* empty exactly when no path is frozen)
NoActionable ==
  /\ pc = "build" /\ mem.plan = "ready" /\ \A s \in Scenarios : mem.board[s].state # "planned"
  /\ \/ StopFor("stopped") /\ UNCHANGED mem
     \/ /\ mem.frozen = {}
        /\ mem' = [mem EXCEPT !.plan = "replan"] /\ Goto("loop")
  /\ UNCHANGED <<ledger, outside, cur, fixed>>

-----------------------------------------------------------------------------
(* One attempt. *)

\* _gate before the claim
Gate ==
  /\ pc = "gate"
  /\ IF Signal # "run" THEN StopFor(SignalReason) ELSE Goto("claim")
  /\ UNCHANGED <<ledger, outside, mem, cur, fixed>>

\* The content of the user's that lies beneath content c of a file: c itself, or
\* what the attempt that wrote c replaced, and so on down.
Beneath(c) == IF c > 0 THEN attempts[c].under ELSE c

\* _claim and claim_attempt: refused after a final terminal or past the budget.
\* "under" and "by" record what the preimage stands on and who measured.
Claim ==
  /\ pc = "claim"
  /\ IF Final(terminal) \/ Last >= MaxAttempts
     THEN StopFor("stopped") /\ UNCHANGED attempts
     ELSE /\ attempts' = Append(attempts, [file |-> cur.file, pre |-> cur.pre,
                                           under |-> Beneath(cur.pre), runs |-> 0, by |-> {},
                                           state |-> "claimed", kept |-> FALSE])
          /\ Goto(IF cur.file = None THEN "run" ELSE "apply")
  /\ UNCHANGED <<saved, terminal, outside, mem, cur, fixed>>

\* The second signal check, then the first half of workspace.apply: the preimage
\* is compared with the disk.
Apply ==
  /\ pc = "apply"
  /\ \/ /\ Signal # "run" /\ UNCHANGED mem
        /\ EndAttempt("close", "interrupted", FALSE, FALSE, "stop", SignalReason)
     \/ /\ Signal = "run" /\ disk[cur.file] # cur.pre
        /\ mem' = Dull(mem)
        /\ EndAttempt("close", "failed", FALSE, FALSE, "loop", why)
     \/ Signal = "run" /\ disk[cur.file] = cur.pre /\ Goto("write") /\ UNCHANGED mem
  /\ UNCHANGED <<ledger, outside, cur, fixed>>

\* The second half: the file is replaced, whatever it holds by now.
Write ==
  /\ pc = "write"
  /\ disk' = [disk EXCEPT ![cur.file] = Last]
  /\ Goto("run")
  /\ UNCHANGED <<ledger, world, mem, cur, fixed>>

\* A measurement of the open attempt by this session
Counted == [attempts EXCEPT ![Last].runs = @ + 1, ![Last].by = @ \cup {starts}]

\* _run_measure: the tests as they are on disk against the sources as they
\* are.  A run whose job lost its lease is cancelled.
Run ==
  /\ pc = "run"
  /\ \E out \in {"accepted", "failed", "unusable", "blocked", "incomplete"}, met \in BOOLEAN :
       /\ lost => out = "incomplete"
       /\ met => out = "accepted"
       /\ cur' = [file |-> cur.file, scen |-> cur.scen, pre |-> cur.pre, obs |-> cur.obs,
                  out |-> out, again |-> 0, rec |-> [world |-> world, tree |-> disk, met |-> met]]
  /\ attempts' = Counted
  /\ Goto("judge")
  /\ UNCHANGED <<saved, terminal, outside, mem, fixed>>

\* _measure_only_attempt after the run: a usable measurement of what was
\* observed before it is the new baseline.
JudgeBaseline ==
  /\ pc = "judge" /\ cur.file = None
  /\ IF cur.out = "accepted" /\ cur.rec.world = cur.obs
     THEN /\ mem' = [mem EXCEPT !.base = cur.obs, !.rebase = FALSE,
                                !.bound = IF mem.plan = "none" THEN "none" ELSE "same"]
          /\ \E state \in {"completed", "failed"} :  \* failed: no tests, nothing observed
               /\ cur.rec.met => state = "completed"
               /\ EndAttempt("close", state, FALSE, FALSE,
                             IF ~cur.rec.met THEN "loop"
                             ELSE IF mem.base = None THEN "succeed" ELSE "final", why)
     ELSE /\ EndAttempt("close", IF cur.out = "incomplete" THEN "interrupted" ELSE "failed",
                        FALSE, FALSE, "stop", "stopped")
          /\ UNCHANGED mem
  /\ UNCHANGED <<ledger, outside, cur, fixed>>

Expected == [mem.accepted EXCEPT ![cur.file] = Last]

\* The candidate is stale: it is rejected, and drift asks for a new baseline.
RejectStale(m, reasons) ==
  /\ mem' = Dull([m EXCEPT !.rebase = @ \/ "freshness" \in reasons])
  /\ Reject("failed", "loop", why)

\* _diagnose_repeats goes on: a fixed number of repeats for an attempt, bounded
\* over the request, and none after a cancel
Repeats ==
  /\ cur.out = "failed" /\ cur.again < FlakyRepeats /\ mem.diag < MaxDiagnostic
  /\ Signal # "cancel"

\* One diagnostic repeat, the same tests again for the same attempt; one without
\* a record ends the diagnosis.
Diagnose ==
  /\ pc = "judge" /\ cur.file # None /\ Repeats
  /\ attempts' = Counted
  /\ mem' = [mem EXCEPT !.diag = @ + 1]
  /\ \E again \in {cur.again + 1, FlakyRepeats} : cur' = [cur EXCEPT !.again = again]
  /\ Goto("judge")
  /\ UNCHANGED <<saved, terminal, outside, fixed>>

\* A failed run that is diagnosed: a defect, quarantine, repair within a limit,
\* or an unknown cause and the end of the session
FailedMeasurement ==
  \/ Goto("triage") /\ UNCHANGED mem
  \/ \E m \in ApproachRejected(mem), after \in {"planned", "unresolved"} :
       mem' = Dull([m EXCEPT !.board[cur.scen] = Scenario(after)]) /\ Reject("failed", "loop", why)
  \/ mem' = Dull(mem) /\ Reject("failed", "stop", "stopped")

\* A failure of the environment, or a doubtful parser, for which the new baseline
\* is asked for after the receipt; neither is repeated.
UnusableMeasurement ==
  mem' = Dull(mem) /\ \E next \in {"remeasure", "stop"} : Reject("failed", next, "stopped")

\* _evaluate: an incomplete run leaves the patch where it is.
JudgeCandidate ==
  /\ pc = "judge" /\ cur.file # None
  /\ \/ cur.out = "blocked" /\ mem' = Dull(mem) /\ Reject("failed", "stop", "stopped")
     \/ cur.out = "incomplete" /\ mem' = Dull(mem) /\ Keep("stop", "stopped")
     \/ cur.out = "failed" /\ ~Repeats /\ FailedMeasurement
     \/ cur.out = "unusable" /\ UnusableMeasurement
     \/ /\ cur.out = "accepted"
        /\ LET stale == StaleReasons(cur.rec, Expected)
           IN  IF stale # {} THEN RejectStale(mem, stale)
                             ELSE Goto("verify") /\ UNCHANGED mem
  /\ UNCHANGED <<ledger, outside, cur, fixed>>

\* _handle_defect: the test was wrong, or the reproducer's path is frozen.
Triage ==
  /\ pc = "triage"
  /\ Invoke(/\ UNCHANGED cur
            /\ \/ mem' = Dull(Called) /\ Reject("failed", "loop", why)
               \/ mem' = Dull(Called) /\ Reject("failed", "stop", "stopped")
               \/ /\ mem' = Dull([Called EXCEPT !.board[cur.scen] = Scenario("defect"),
                                                !.frozen = @ \cup {cur.file}])
                  /\ Reject("failed", "loop", why))
  /\ UNCHANGED <<ledger, outside, fixed>>

\* The verifier turned the candidate down (or was unavailable or not
\* independent): repair, replan, a limit, or an end of the session.
Unconvinced ==
  \/ mem' = Dull(Called) /\ \E next \in {"loop", "stop"} : Reject("failed", next, "stopped")
  \/ \E m \in ApproachRejected(Called), after \in {"planned", "unresolved"},
        plan \in {"ready", "replan"} :
       /\ mem' = Dull([m EXCEPT !.board[cur.scen] = Scenario(after), !.plan = plan])
       /\ Reject("completed", "loop", why)

\* Acceptance: checked again for drift and for a signal, then the file is owned,
\* the scenario is as the verifier says and the plan has the new risks.
Convinced ==
  LET stale == StaleReasons(cur.rec, Expected)
  IN  IF stale # {} THEN RejectStale(Called, stale)
      ELSE IF Signal = "cancel" THEN mem' = Called /\ Keep("stop", "cancelled")
      ELSE IF Signal = "pause" THEN mem' = Dull(Called) /\ Reject("interrupted", "stop", "paused")
      ELSE /\ \E new \in SUBSET Outside(mem), gain \in {0, Dull(mem).dull},
                 seen \in {VerifiedIn(cur.rec.world), Scenario("unresolved"), Scenario("planned")} :
                /\ seen.state = "verified" => gain = 0
                /\ mem' = [Extended(Called, new) EXCEPT !.board[cur.scen] = seen, !.dull = gain,
                                                       !.accepted = Expected, !.bound = "same"]
           /\ EndAttempt("close", "completed", FALSE, FALSE,
                         IF cur.rec.met THEN "final" ELSE "loop", why)

\* _accepted_measurement from the verifier's call on
Verify ==
  /\ pc = "verify"
  /\ Invoke((Unconvinced \/ Convinced) /\ UNCHANGED cur)
  /\ UNCHANGED <<ledger, outside, fixed>>

\* Mutant: whatever is on disk is replaced by the preimage.
RevertUnchecked ==
  /\ pc = "revert"
  /\ IF cur.file = None THEN pc' = "close" ELSE pc' = "restore"
  /\ UNCHANGED <<ledger, outside, private, fixed>>

\* Mutant: nothing is taken back.
RevertNothing ==
  /\ pc = "revert" /\ pc' = "close"
  /\ UNCHANGED <<ledger, outside, private, fixed>>

\* The first half of workspace.revert: a file that has the preimage already, or
\* that no longer has the content the attempt wrote, is left alone.
Revert ==
  /\ pc = "revert"
  /\ pc' = IF cur.file = None \/ disk[cur.file] # Last THEN "close" ELSE "restore"
  /\ UNCHANGED <<ledger, outside, private, fixed>>

\* The second half: the preimage comes back, whatever the file holds by now.
Restore ==
  /\ pc = "restore" /\ pc' = "close"
  /\ disk' = [disk EXCEPT ![cur.file] = cur.pre]
  /\ UNCHANGED <<ledger, world, private, fixed>>

\* Either half fails on the file, and the receipt says so.
RevertFails ==
  /\ pc \in {"revert", "restore"} /\ pc' = "close"
  /\ cur.file # None /\ faults < MaxFaults /\ faults' = faults + 1
  /\ fin' = [fin EXCEPT !.kept = TRUE, !.next = IF fin.cautious THEN "stop" ELSE @]
  /\ why' = IF fin.cautious THEN "recovery" ELSE why
  /\ UNCHANGED <<ledger, outside, mem, cur, resume, lost, asked, user, edits, controls, starts>>

\* _close and record_attempt_receipt: the receipt and the state in its evidence
Close ==
  /\ pc = "close"
  /\ attempts' = [attempts EXCEPT ![Last].state = fin.state, ![Last].kept = fin.kept]
  /\ saved' = mem
  /\ CASE fin.next = "idle"      -> Gone
       [] fin.next = "remeasure" ->
            mem' = [mem EXCEPT !.rebase = TRUE] /\ Goto("loop") /\ UNCHANGED cur
       [] OTHER                  -> Goto(fin.next) /\ UNCHANGED <<mem, cur>>
  /\ UNCHANGED <<terminal, outside, fixed>>

-----------------------------------------------------------------------------
(* The end of a session. *)

\* The final verifier has no answer, names new risks, asks for a new plan, or agrees.
FinalVerdict ==
  \/ mem' = Called /\ Goto("loop")
  \/ \E new \in SUBSET Outside(mem) : mem' = Extended(Called, new) /\ Goto("loop")
  \/ mem' = [Called EXCEPT !.plan = "replan"] /\ Goto("loop")
  \/ mem' = Called /\ Goto("succeed")

\* _try_finalize.  Without a plan its assertion fails and ends the session.
TryFinalize ==
  /\ pc = "final"
  /\ IF mem.plan = "none"
     THEN Gone
     ELSE IF mem.frozen # {}
     THEN StopFor("stopped") /\ UNCHANGED <<mem, cur>>
     ELSE IF \E s \in Scenarios \ Outside(mem) : ~Verified(mem, s)
     THEN Goto("loop") /\ UNCHANGED <<mem, cur>>
     ELSE IF StaleReasons(cur.rec, mem.accepted) # {}
     THEN /\ mem' = Invalidated(mem, Tampered(mem.accepted))
          /\ Goto("loop") /\ UNCHANGED <<cur>>
     ELSE \/ StopFor("stopped") /\ UNCHANGED <<mem, cur>>  \* too many rejections
          \/ Invoke(FinalVerdict /\ UNCHANGED cur)
  /\ UNCHANGED <<ledger, outside, fixed>>

\* _succeed: a signal wins, a stale success is refused.
Succeed ==
  /\ pc = "succeed"
  /\ IF Signal # "run" THEN StopFor(SignalReason) /\ UNCHANGED mem
     ELSE IF StaleReasons(cur.rec, mem.accepted) # {}
     THEN /\ mem' = Invalidated(mem, Tampered(mem.accepted))
          /\ Goto("loop") \/ StopFor("stopped")
     ELSE StopFor("success") /\ UNCHANGED mem
  /\ UNCHANGED <<ledger, outside, cur, fixed>>

\* _stop and record_terminal.  After a final terminal the write is refused and
\* the exception ends the session as it is.  A stop in the middle of an
\* evaluation then reverts and closes the open attempt.
Stop ==
  /\ pc = "stop"
  /\ terminal' = IF Final(terminal) THEN terminal ELSE IF lost THEN "recovery" ELSE why
  /\ IF ~Final(terminal) /\ IsOpen /\ cur # None
     THEN EndAttempt("revert", "interrupted", FALSE, FALSE, "idle", why) /\ UNCHANGED <<mem, cur>>
     ELSE Gone
  /\ UNCHANGED <<attempts, saved, outside, fixed>>

-----------------------------------------------------------------------------
(* Everybody else. *)

\* A check of this file's digest has been made and the write behind it has not.
InWindow(f) == pc \in {"write", "restore"} /\ f = cur.file

\* The user edits or deletes a test file, edits production code, or checks out a
\* revision.
Edit ==
  /\ edits < MaxEdits /\ edits' = edits + 1
  /\ \/ \E f \in Files : \E c \in {-(edits + 2), Absent} :
          /\ disk' = [disk EXCEPT ![f] = c] /\ theirs' = [theirs EXCEPT ![f] = c]
          /\ raced' = IF InWindow(f) THEN raced \cup {f} ELSE raced
          /\ UNCHANGED world
     \/ world' = [world EXCEPT !.prod = @ + 1] /\ UNCHANGED <<disk, user>>
     \/ world' = [world EXCEPT !.rev = 1] /\ UNCHANGED <<disk, user>>
  /\ UNCHANGED <<ledger, pc, private, resume, lost, asked, controls, faults, starts>>

\* zekam test pause, zekam test cancel
Control(r) ==
  /\ starts > 0 /\ ~Final(terminal) /\ controls < MaxControls
  /\ terminal' = r /\ controls' = controls + 1
  /\ asked' = (asked \/ (r = "paused" /\ pc # "idle"))
  /\ UNCHANGED <<attempts, saved, outside, pc, private, resume, lost, user, edits, faults, starts>>

\* The canonical job loses its lease.
LoseLease ==
  /\ pc # "idle" /\ ~lost /\ faults < MaxFaults
  /\ lost' = TRUE /\ faults' = faults + 1
  /\ UNCHANGED <<ledger, outside, pc, private, resume, asked, user, edits, controls, starts>>

Crash ==
  /\ pc # "idle" /\ faults < MaxFaults
  /\ Gone /\ faults' = faults + 1
  /\ UNCHANGED <<ledger, outside, resume, lost, asked, user, edits, controls, starts>>

Init ==
  /\ attempts = <<>> /\ saved = FreshState /\ terminal = None
  /\ disk \in [Files -> {Absent, Given}] /\ world = [rev |-> 0, prod |-> 0]
  /\ theirs = disk /\ raced = {}
  /\ pc = "idle" /\ mem = FreshState /\ cur = None /\ fin = None /\ why = None
  /\ resume = FALSE /\ lost = FALSE /\ asked = FALSE
  /\ edits = 0 /\ controls = 0 /\ faults = 0 /\ starts = 0

SessionStep ==
  \/ LoopTop \/ Plateau \/ Plan \/ Build \/ NoActionable
  \/ Gate \/ Claim \/ Apply \/ Write \/ Run \/ JudgeBaseline \/ Diagnose \/ JudgeCandidate
  \/ Triage \/ Verify \/ Revert \/ Restore \/ RevertFails \/ Close
  \/ TryFinalize \/ Succeed \/ Stop

Next ==
  \/ SessionStep
  \/ \E r, admitted \in BOOLEAN : Start(r, admitted)
  \/ Edit \/ LoseLease \/ Crash
  \/ \E r \in {"paused", "cancelled"} : Control(r)

Spec == Init /\ [][Next]_vars

\* A session that is not killed goes on; nobody has to start one.
FairSpec == Spec /\ WF_vars(SessionStep)

-----------------------------------------------------------------------------
(* Properties. *)

States == {"claimed", "completed", "failed", "interrupted"}
Contents == -(MaxEdits + 1) .. MaxAttempts
Owned == 0 .. MaxAttempts
LoopStates ==
  [plan : {"none", "ready", "replan"}, bound : {"none", "same", "changed"},
   board : [Scenarios -> [state : {"planned", "unresolved", "defect", "verified", "out"},
                           at : Worlds \cup {None}]],
   accepted : [Files -> Owned], frozen : SUBSET Files,
   base : Worlds \cup {None}, rebase : BOOLEAN, dull : 0 .. Window, calls : 0 .. MaxCalls,
   diag : 0 .. MaxDiagnostic]

\* Types of the ledger, the disk and the loop's state; every attempt but the
\* last has its receipt.
UnitTypeOK ==
  /\ attempts \in Seq([file : Files \cup {None}, pre : Contents, under : Contents, runs : Nat,
                        by : SUBSET Nat, state : States, kept : BOOLEAN])
  /\ Last <= MaxAttempts
  /\ \A n \in 1 .. Last - 1 : attempts[n].state # "claimed"
  /\ {saved, mem} \subseteq LoopStates
  /\ terminal \in {None, "paused", "recovery", "cancelled", "success", "stopped"}
  /\ disk \in [Files -> Contents] /\ world \in Worlds

\* An attempt is measured once and then repeated for a diagnosis at most
\* flaky_repeats times, all by the session that claimed it: no resume does the
\* work of a claimed attempt again.
MeasuredByItsSession ==
  \A n \in 1 .. Last :
    /\ attempts[n].runs <= 1 + FlakyRepeats
    /\ \A s, t \in attempts[n].by : s = t

\* Content an attempt wrote is on disk only while the attempt is open, or
\* because it was accepted, or because its receipt says that it was left there.
LeftoverIsRecorded ==
  \A f \in Files : LET n == disk[f] IN
    n > 0 => \/ attempts[n].state = "claimed"
             \/ attempts[n].kept
             \/ saved.accepted[f] = n

\* The ledger accounts for every attempt over crashes and resumes: a bounded
\* number of measurements by one session, and no trace on disk that it does not
\* name.
AttemptsAreAccounted == MeasuredByItsSession /\ LeftoverIsRecorded

\* What the user last left in a test file is on disk, or it is the preimage, over
\* any number of patches, of the attempt whose content is there, so that the
\* reverts lead back to it.  Only a file that the user edited between a digest
\* check of workspace.apply or workspace.revert and the write behind it is excepted.
UserContentIsRecoverable ==
  \A f \in Files \ raced : Beneath(disk[f]) = theirs[f]

\* A success rests on the last attempt: completed, target met, measured against
\* the baseline's sources and with every owned file as it was accepted.
SuccessIsMeasured ==
  [][terminal' = "success" /\ terminal # "success" =>
       /\ attempts[Last].state = "completed"
       /\ cur.rec.met /\ cur.rec.world = saved.base
       /\ \A f \in Files : saved.accepted[f] # Absent => cur.rec.tree[f] = saved.accepted[f]]_vars

\* A session that is not killed comes to an end.
EverySessionEnds == (pc # "idle") ~> (pc = "idle")

(* What comments, docs and assertions say, and the code does not do. *)

\* "Anything but the digest the task wrote (a user's edit) is not touched": a write
\* replaces what its check saw.
UserEditsSurvive ==
  [][edits' = edits =>
       \A f \in Files : disk'[f] # disk[f] =>
         disk[f] = IF pc = "write" THEN cur.pre ELSE Last]_vars

\* "Before a new claim, patch or success, cancel and pause win": a session in
\* which a pause was recorded does not pass the gate before a claim.
PauseWins == [][pc = "gate" /\ pc' = "claim" => ~asked]_vars

\* "No new attempt starts after a cancel or a timeout" of a run: none is claimed
\* while the patch of an interrupted one is still on disk.
NoAttemptOverLeftover ==
  [][Len(attempts') > Len(attempts) =>
       \A n \in 1 .. Last : attempts[n].state = "interrupted" /\ attempts[n].kept
                           => disk[attempts[n].file] # n]_vars

\* "Old verification is not carried over external drift": whenever the baseline
\* is not to be renewed, every verified scenario was verified in its world.
VerifiedInMeasuredWorld ==
  pc # "idle" /\ ~mem.rebase =>
    \A s \in Scenarios : Verified(mem, s) => mem.board[s].at = mem.base

\* "The limit is not exceeded": the calls a session made are in the ledger when it
\* ends, for the next one to count on.
CallsAreRemembered == [][pc # "idle" /\ pc' = "idle" => saved.calls = mem.calls]_vars

\* "A claim without a receipt is closed": a finished request leaves no attempt
\* open when no session runs.
FinishedIsClosed == Final(terminal) /\ pc = "idle" => ~IsOpen

\* "Repairable: only the builder's way": a measurement that was accepted, with
\* nothing changed on disk or in the sources since, is not rejected as stale.
RepairIsJudged ==
  [][(pc = "judge" /\ cur.file # None /\ cur.out = "accepted" /\ pc' = "revert")
       => "freshness" \in StaleReasons(cur.rec, Expected)
            \/ Tampered(Expected) # {}]_vars

\* The assertion of _try_finalize: there is a plan.
FinalizeHasPlan == pc = "final" => mem.plan # "none"
=============================================================================
