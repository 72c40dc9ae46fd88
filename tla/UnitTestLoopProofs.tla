------------------------ MODULE UnitTestLoopProofs ------------------------
(***************************************************************************)
(* Theorems about UnitTestLoop, for every value of its constants: what the *)
(* user left in a test file stays recoverable, the ledger accounts for     *)
(* every attempt over crashes and resumes, and a recorded success rests on *)
(* a measurement.                                                          *)
(***************************************************************************)
EXTENDS UnitTestLoop, SequenceTheorems, TLAPS

-----------------------------------------------------------------------------
(* The inductive invariant *)

Rows ==
  [file : Files \cup {None}, pre : Contents, under : Contents, runs : Nat, by : SUBSET Nat,
   state : States, kept : BOOLEAN]
Reasons == {"paused", "recovery", "cancelled", "success", "stopped"}
Places == {"idle", "loop", "build", "gate", "claim", "apply", "write", "run", "judge", "triage",
           "verify", "revert", "restore", "close", "final", "succeed", "stop"}

\* What a session knows of the attempt it makes: what git reported, an attempt found
\* open at its start, a candidate, and a candidate that was measured.
Observed == [dirty : SUBSET Files]
Recovered == [file : Files \cup {None}, pre : Contents]
Candidates == [file : Files \cup {None}, scen : Scenarios \cup {None}, pre : Contents, obs : Worlds]
Measured ==
  [file : Files \cup {None}, scen : Scenarios \cup {None}, pre : Contents, obs : Worlds,
   out : {"accepted", "failed", "unusable", "blocked", "incomplete"}, again : 0 .. FlakyRepeats,
   rec : [world : Worlds, tree : [Files -> Contents], met : BOOLEAN]]
Attempted == Recovered \cup Candidates \cup Measured
Endings ==
  [state : States \ {"claimed"}, kept : BOOLEAN, cautious : BOOLEAN,
   next : {"loop", "stop", "idle", "remeasure", "final", "succeed"}]

\* Types of the ledger, of the loop's state and of everything outside it
LedgerTypes ==
  /\ attempts \in Seq(Rows) /\ Last <= MaxAttempts
  /\ \A n \in 1 .. Last - 1 : attempts[n].state # "claimed"
  /\ terminal \in {None} \cup Reasons
LoopTypes == saved \in LoopStates /\ mem \in LoopStates
OutsideTypes ==
  /\ disk \in [Files -> Contents]
  /\ world \in Worlds /\ world.prod <= edits /\ edits \in 0 .. MaxEdits

\* What the session knows fits the place where it is.
SessionTypes ==
  /\ pc \in Places
  /\ pc = "idle" => cur = None
  /\ pc = "build" => cur \in Observed /\ mem.base # None
  /\ pc \in {"gate", "claim", "apply", "write", "run"} => cur \in Candidates
  /\ pc \in {"judge", "triage", "verify", "final", "succeed"} => cur \in Measured
  /\ pc \in {"revert", "restore", "close"} => cur \in Attempted
  /\ pc \in {"apply", "write", "triage", "verify", "restore"} => cur.file # None
  /\ pc \in {"gate", "claim", "apply", "write", "run", "judge", "triage", "verify"} /\ cur.file # None
       => cur.scen \in Scenarios /\ mem.base # None

\* An attempt that is being closed will be told how, and only a completed one
\* that met its target leads to success.
EndingTypes ==
  /\ pc = "stop" => why \in Reasons
  /\ pc \in {"revert", "restore", "close"} =>
       /\ fin \in Endings
       /\ fin.next = "stop" => why \in Reasons
       /\ fin.next \in {"final", "succeed"} =>
            /\ pc = "close" /\ fin.state = "completed" /\ mem.base # None
            /\ cur \in Measured /\ cur.rec.met

\* The last attempt is the session's own from its claim to its receipt.
Own == IsOpen /\ attempts[Last].file = cur.file /\ attempts[Last].pre = cur.pre
OwnAttempt ==
  /\ pc \in {"apply", "write", "run", "judge", "triage", "verify", "revert", "restore", "close"} => Own
  /\ pc = "stop" /\ IsOpen /\ cur # None => Own /\ cur \in Attempted
  /\ pc \in {"loop", "build", "gate", "claim", "final", "succeed"} => ~IsOpen

\* Ordinals on disk and in the saved state name attempts on their file.
OrdinalsNamed ==
  \A f \in Files :
    /\ disk[f] > 0 => disk[f] <= Last /\ attempts[disk[f]].file = f
    /\ saved.accepted[f] > 0 =>
         /\ saved.accepted[f] <= Last
         /\ attempts[saved.accepted[f]].file = f
         /\ attempts[saved.accepted[f]].state # "claimed"

\* The loop's state is in use: the session was admitted and has not ended.
Live == pc # "idle" /\ (pc = "stop" => cur # None)

\* The files the loop owns are the saved ones, without those found tampered with,
\* and with the one accepted just now.
AcceptedFollows ==
  Live => \A f \in Files :
    \/ mem.accepted[f] = saved.accepted[f]
    \/ mem.accepted[f] = Absent /\ disk[f] # saved.accepted[f]
    \/ pc = "close" /\ f = cur.file /\ mem.accepted[f] = Last /\ (disk[f] = Last \/ disk[f] <= 0)

\* Content p of file f may be put back: if an attempt wrote it, that attempt is
\* closed and the ledger names what it left.
Backed(p, f) ==
  /\ p # Absent => f \in Files
  /\ p > 0 => /\ p \in 1 .. Last /\ attempts[p].file = f /\ attempts[p].state # "claimed"
              /\ attempts[p].kept \/ saved.accepted[f] = p

\* So may the preimage that a revert would put back, and a file dropped as tampered
\* with does not come back as it was owned.
PreimageIsBacked ==
  /\ IsOpen => Backed(attempts[Last].pre, attempts[Last].file)
  /\ (\/ pc \in {"gate", "claim", "apply", "write", "run", "judge", "triage", "verify", "revert", "restore"}
      \/ pc = "stop" /\ IsOpen /\ cur # None)
     => /\ Backed(cur.pre, cur.file)
        /\ cur.file \in Files => \/ mem.accepted[cur.file] = saved.accepted[cur.file]
                                 \/ cur.pre # saved.accepted[cur.file]

\* An attempt writes after its claim, and is closed behind its revert unless its
\* content is kept or accepted.
TraceIsClosed ==
  /\ pc \in {"apply", "write"} => \A f \in Files : disk[f] # Last
  /\ pc = "close" /\ ~fin.kept /\ cur.file \in Files =>
       disk[cur.file] # Last \/ mem.accepted[cur.file] = Last

\* What a success rests on, while the session is on its way to one
OnTheWay ==
  pc \in {"final", "succeed"} =>
    /\ Last > 0 /\ attempts[Last].state = "completed"
    /\ cur.rec.met /\ mem.base # None
    /\ mem.base = saved.base /\ mem.accepted = saved.accepted
Proven ==
  /\ Last > 0 /\ attempts[Last].state = "completed"
  /\ cur \in Measured /\ cur.rec.met /\ cur.rec.world = saved.base
  /\ \A f \in Files : saved.accepted[f] # Absent => cur.rec.tree[f] = saved.accepted[f]
SuccessIsProven == why = "success" => pc = "stop" /\ Proven

LoopInv ==
  /\ LedgerTypes /\ LoopTypes /\ OutsideTypes /\ SessionTypes /\ EndingTypes
  /\ OwnAttempt /\ OrdinalsNamed /\ LeftoverIsRecorded /\ AcceptedFollows /\ PreimageIsBacked
  /\ TraceIsClosed /\ OnTheWay /\ SuccessIsProven

-----------------------------------------------------------------------------
(* The loop's state *)

\* Another state of the loop over the same baseline and the same owned files
Alike(m) == {x \in LoopStates : x.base = m.base /\ x.accepted = m.accepted}

\* Contents that a session may own are natural numbers.
LEMMA OwnedIsNat == Owned \subseteq Nat /\ Owned \subseteq Contents /\ Contents \subseteq Int
BY LoopAssumption DEF Owned, Contents

\* A new request starts with a well-formed state that owns no file.
LEMMA FreshIsLoopState ==
  FreshState \in LoopStates /\ \A f \in Files : FreshState.accepted[f] = Absent
<1>1. FreshState.accepted = [f \in Files |-> Absent]
  BY DEF FreshState
<1>2. Absent \in Owned /\ 0 \in 0 .. Window /\ 0 \in 0 .. MaxCalls /\ 0 \in 0 .. MaxDiagnostic
  BY LoopAssumption DEF Owned, Absent
<1>3. [s \in Scenarios |-> Scenario("out")] \in
        [Scenarios -> [state : {"planned", "unresolved", "defect", "verified", "out"}, at : Worlds \cup {None}]]
  BY DEF Scenario
<1> QED
  BY <1>1, <1>2, <1>3 DEF FreshState, LoopStates

\* The fields of a loop state
LEMMA Fields ==
  ASSUME NEW m \in LoopStates
  PROVE  /\ m.base \in Worlds \cup {None} /\ m.accepted \in [Files -> Owned]
         /\ m.dull \in 0 .. Window /\ m.calls \in 0 .. MaxCalls /\ m.frozen \in SUBSET Files
         /\ m.diag \in 0 .. MaxDiagnostic
BY DEF LoopStates

\* What the invariant says of lengths and numbers
LEMMA Numbers ==
  ASSUME LoopInv
  PROVE  /\ Last \in Nat /\ \A n \in 1 .. Last : attempts[n] \in Rows
         /\ \A f \in Files : disk[f] \in Int /\ saved.accepted[f] \in Nat
<1>1. attempts \in Seq(Rows)
  BY DEF LoopInv, LedgerTypes
<1>2. Last \in Nat /\ \A n \in 1 .. Last : attempts[n] \in Rows
  BY <1>1 DEF Last
<1>3. \A f \in Files : disk[f] \in Int /\ saved.accepted[f] \in Nat
  BY OwnedIsNat, Fields DEF LoopInv, OutsideTypes, LoopTypes
<1> QED
  BY <1>2, <1>3

\* Bookkeeping that keeps the baseline and the owned files.
LEMMA Bookkeeping ==
  ASSUME NEW m \in LoopStates
  PROVE  /\ Dull(m) \in Alike(m) /\ PlanChanged(m) \in Alike(m)
         /\ (Remote => m.calls < MaxCalls) => [m EXCEPT !.calls = IF Remote THEN @ + 1 ELSE @] \in Alike(m)
         /\ m.diag < MaxDiagnostic => [m EXCEPT !.diag = @ + 1] \in Alike(m)
         /\ \A b \in BOOLEAN : [m EXCEPT !.rebase = b] \in Alike(m)
         /\ \A p \in {"none", "ready", "replan"} : [m EXCEPT !.plan = p] \in Alike(m)
         /\ \A F \in SUBSET Files : [m EXCEPT !.frozen = F] \in Alike(m)
<1>1. Dull(m) \in Alike(m)
  <2>1. (IF m.dull < Window THEN m.dull + 1 ELSE m.dull) \in 0 .. Window
    BY Fields, LoopAssumption
  <2> QED
    BY <2>1 DEF Dull, Alike, LoopStates
<1>2. PlanChanged(m) \in Alike(m)
  BY DEF PlanChanged, Alike, LoopStates
<1>3. (Remote => m.calls < MaxCalls) => [m EXCEPT !.calls = IF Remote THEN @ + 1 ELSE @] \in Alike(m)
  <2>1. (Remote => m.calls < MaxCalls) => (IF Remote THEN m.calls + 1 ELSE m.calls) \in 0 .. MaxCalls
    BY Fields, LoopAssumption
  <2> QED
    BY <2>1 DEF Alike, LoopStates
<1>7. m.diag < MaxDiagnostic => [m EXCEPT !.diag = @ + 1] \in Alike(m)
  <2>1. m.diag < MaxDiagnostic => m.diag + 1 \in 0 .. MaxDiagnostic
    BY Fields, LoopAssumption
  <2> QED
    BY <2>1 DEF Alike, LoopStates
<1>4. \A b \in BOOLEAN : [m EXCEPT !.rebase = b] \in Alike(m)
  BY DEF Alike, LoopStates
<1>5. \A p \in {"none", "ready", "replan"} : [m EXCEPT !.plan = p] \in Alike(m)
  BY DEF Alike, LoopStates
<1>6. \A F \in SUBSET Files : [m EXCEPT !.frozen = F] \in Alike(m)
  BY DEF Alike, LoopStates
<1> QED
  BY <1>1, <1>2, <1>3, <1>4, <1>5, <1>6, <1>7

Marks == [state : {"planned", "unresolved", "defect", "verified", "out"}, at : Worlds \cup {None}]

\* A scenario of the board is marked, or new ones join it.
LEMMA Boards ==
  ASSUME NEW m \in LoopStates
  PROVE  /\ \A s, k : s \in Scenarios /\ k \in Marks => [m EXCEPT !.board[s] = k] \in Alike(m)
         /\ \A B \in [Scenarios -> Marks] : [m EXCEPT !.board = B] \in Alike(m)
         /\ \A new : Extended(m, new) \in Alike(m)
<1>1. \A B \in [Scenarios -> Marks] : [m EXCEPT !.board = B] \in Alike(m)
  BY DEF Alike, LoopStates, Marks
<1>2. ASSUME NEW s \in Scenarios, NEW k \in Marks
      PROVE  [m EXCEPT !.board[s] = k] \in Alike(m)
  <2>1. [m.board EXCEPT ![s] = k] \in [Scenarios -> Marks]
    BY DEF LoopStates, Marks
  <2>2. [m EXCEPT !.board[s] = k] = [m EXCEPT !.board = [m.board EXCEPT ![s] = k]]
    OBVIOUS
  <2> QED
    BY <1>1, <2>1, <2>2
<1>3. ASSUME NEW new
      PROVE  Extended(m, new) \in Alike(m)
  <2> DEFINE x == PlanChanged(m)
             B == [s \in Scenarios |-> IF s \in new THEN Scenario("planned") ELSE x.board[s]]
  <2>1. x \in Alike(m) /\ x \in LoopStates
    BY Bookkeeping DEF Alike
  <2>2. B \in [Scenarios -> Marks]
    BY <2>1 DEF LoopStates, Marks, Scenario
  <2>3. Extended(m, new) = [x EXCEPT !.board = B]
    BY DEF Extended
  <2> HIDE DEF x, B
  <2>4. [x EXCEPT !.board = B] \in Alike(m)
    BY <2>1, <2>2 DEF Alike, LoopStates, Marks
  <2> QED
    BY <2>3, <2>4
<1> QED
  BY <1>1, <1>2, <1>3

\* Being alike is transitive.
LEMMA AlikeTrans ==
  ASSUME NEW m, NEW x \in Alike(m)
  PROVE  x \in LoopStates /\ x.base = m.base /\ x.accepted = m.accepted /\ Alike(x) = Alike(m)
BY DEF Alike

\* A rejected approach changes the plan alone.
LEMMA ApproachAlike ==
  ASSUME NEW m, NEW x \in Alike(m), NEW y \in ApproachRejected(x)
  PROVE  y \in LoopStates /\ y \in Alike(m) /\ Alike(y) = Alike(m)
<1>1. x \in LoopStates /\ PlanChanged(x) \in Alike(x) /\ Alike(x) = Alike(m)
  BY AlikeTrans, Bookkeeping
<1>2. y \in Alike(m)
  BY <1>1 DEF ApproachRejected
<1> QED
  BY <1>2, AlikeTrans

\* A tampered file is no longer owned, the others are.
LEMMA InvalidatedKeeps ==
  ASSUME NEW m \in LoopStates, NEW T \in SUBSET Files
  PROVE  /\ Invalidated(m, T) \in LoopStates /\ Invalidated(m, T).base = m.base
         /\ \A f \in Files : Invalidated(m, T).accepted[f] = IF f \in T THEN Absent ELSE m.accepted[f]
<1> DEFINE A == [f \in Files |-> IF f \in T THEN Absent ELSE m.accepted[f]]
           B == [s \in Scenarios |-> IF Verified(m, s) THEN Scenario("planned") ELSE m.board[s]]
<1>1. A \in [Files -> Owned]
  BY LoopAssumption DEF LoopStates, Owned, Absent
<1>2. B \in [Scenarios -> Marks]
  BY DEF LoopStates, Marks, Scenario
<1>3. Invalidated(m, T) = [m EXCEPT !.accepted = A, !.board = B, !.rebase = TRUE]
  BY DEF Invalidated
<1>4. \A f \in Files : A[f] = IF f \in T THEN Absent ELSE m.accepted[f]
  OBVIOUS
<1> HIDE DEF A, B
<1> QED
  BY <1>1, <1>2, <1>3, <1>4 DEF LoopStates, Marks

-----------------------------------------------------------------------------
(* Steps of the session that write nothing outside its memory *)

\* What the ledger and the disk say does not depend on the session, nor on the
\* terminal row.
LEMMA Unwritten ==
  ASSUME LoopInv, UNCHANGED <<attempts, saved, outside, edits>>, terminal' \in {None} \cup Reasons
  PROVE  /\ LedgerTypes' /\ OutsideTypes' /\ OrdinalsNamed' /\ LeftoverIsRecorded'
         /\ saved' \in LoopStates
         /\ Last' = Last /\ (IsOpen' <=> IsOpen) /\ attempts' = attempts /\ saved' = saved /\ disk' = disk
         /\ (IsOpen => Backed(attempts[Last].pre, attempts[Last].file))'
         /\ \A p, f : Backed(p, f)' <=> Backed(p, f)
<1>1. attempts' = attempts /\ saved' = saved /\ disk' = disk /\ world' = world /\ edits' = edits
  BY DEF outside
<1> QED
  BY <1>1 DEF LoopInv, LedgerTypes, OutsideTypes, OrdinalsNamed, LeftoverIsRecorded, LoopTypes,
              PreimageIsBacked, Backed, Last, IsOpen

\* The terminal row is one of those written.
LEMMA LedgerUnwritten ==
  ASSUME LoopInv, UNCHANGED ledger
  PROVE  attempts' = attempts /\ saved' = saved /\ terminal' \in {None} \cup Reasons
BY DEF LoopInv, LedgerTypes, ledger

\* The state is alike, but for owned files found tampered with.
Thought ==
  /\ mem' \in LoopStates /\ mem'.base = mem.base
  /\ \A f \in Files : \/ mem'.accepted[f] = mem.accepted[f]
                      \/ mem'.accepted[f] = Absent /\ disk[f] # mem.accepted[f]

\* Both kinds of bookkeeping are.
LEMMA ThoughtCases ==
  ASSUME mem \in LoopStates,
         mem' \in Alike(mem) \/ mem' = Invalidated(mem, Tampered(mem.accepted))
  PROVE  Thought
<1>1. CASE mem' \in Alike(mem)
  BY <1>1 DEF Thought, Alike
<1>2. CASE mem' = Invalidated(mem, Tampered(mem.accepted))
  <2>1. Tampered(mem.accepted) \in SUBSET Files
    BY DEF Tampered
  <2> QED
    BY <1>2, <2>1, InvalidatedKeeps DEF Thought, Tampered
<1> QED
  BY <1>1, <1>2

\* The owned files still follow the saved ones.
LEMMA FollowsThought ==
  ASSUME LoopInv, Thought, UNCHANGED <<ledger, outside>>, pc # "close", Live
  PROVE  AcceptedFollows'
<1>1. \A f \in Files : \/ mem.accepted[f] = saved.accepted[f]
                       \/ mem.accepted[f] = Absent /\ disk[f] # saved.accepted[f]
  BY DEF LoopInv, AcceptedFollows
<1>2. saved' = saved /\ disk' = disk
  BY DEF ledger, outside
<1>3. \A f \in Files : \/ mem'.accepted[f] = saved'.accepted[f]
                       \/ mem'.accepted[f] = Absent /\ disk'[f] # saved'.accepted[f]
  BY <1>1, <1>2 DEF Thought
<1> QED
  BY <1>3 DEF AcceptedFollows

\* Back to the top of the loop, or on to the build.
LEMMA ReturnKeeps ==
  ASSUME LoopInv, Thought, UNCHANGED <<ledger, outside, edits, cur, fin, why>>,
         pc \in {"loop", "build", "final", "succeed"},
         pc' = "loop" \/ (pc' = "build" /\ pc = "build")
  PROVE  LoopInv'
<1> USE DEF LoopInv
<1>1. SessionTypes' /\ EndingTypes'
  BY DEF SessionTypes, EndingTypes, Thought, Places
<1>2. OwnAttempt' /\ PreimageIsBacked' /\ TraceIsClosed' /\ OnTheWay' /\ SuccessIsProven'
  BY LedgerUnwritten, Unwritten DEF OwnAttempt, PreimageIsBacked, TraceIsClosed, OnTheWay, SuccessIsProven
<1>3. AcceptedFollows'
  BY FollowsThought DEF Live
<1>4. LoopTypes'
  BY LedgerUnwritten, Unwritten DEF LoopTypes, Thought
<1> QED
  BY <1>1, <1>2, <1>3, <1>4, LedgerUnwritten, Unwritten

\* What git reported is known, and the build begins.
LEMMA ObservedKeeps ==
  ASSUME LoopInv, UNCHANGED <<ledger, outside, edits, mem, fin, why>>, pc = "loop", mem.base # None,
         pc' = "build", cur' = [dirty |-> Dirty]
  PROVE  LoopInv'
<1> USE DEF LoopInv
<1>0. Thought
  BY ThoughtCases DEF LoopTypes, Alike
<1>1. cur' \in Observed
  BY LoopAssumption DEF Observed, Dirty
<1>2. SessionTypes' /\ EndingTypes'
  BY <1>1 DEF SessionTypes, EndingTypes, Places
<1>3. OwnAttempt' /\ PreimageIsBacked' /\ TraceIsClosed' /\ OnTheWay' /\ SuccessIsProven'
  BY LedgerUnwritten, Unwritten DEF OwnAttempt, PreimageIsBacked, TraceIsClosed, OnTheWay, SuccessIsProven
<1>4. AcceptedFollows'
  BY <1>0, FollowsThought DEF Live
<1>5. LoopTypes'
  BY LedgerUnwritten, Unwritten DEF LoopTypes
<1> QED
  BY <1>2, <1>3, <1>4, <1>5, LedgerUnwritten, Unwritten

\* On to the end of the session, with an attempt open only if it is the session's.
LEMMA StopKeeps ==
  ASSUME LoopInv, Thought, UNCHANGED <<ledger, outside, edits, cur, fin>>,
         pc \in {"loop", "build", "gate", "claim", "triage", "verify", "final", "succeed"},
         pc \in {"triage", "verify"} => mem' \in Alike(mem),
         pc' = "stop", why' \in Reasons, why' = "success" => Proven
  PROVE  LoopInv'
<1> USE DEF LoopInv
<1>1. SessionTypes' /\ EndingTypes'
  BY DEF SessionTypes, EndingTypes, Thought, Places
<1>2. OwnAttempt'
  BY LedgerUnwritten, Unwritten DEF OwnAttempt, Own, SessionTypes, Attempted
<1>3. PreimageIsBacked'
  <2>1. ASSUME pc \in {"triage", "verify"}
        PROVE  /\ Backed(cur.pre, cur.file)
               /\ cur.file \in Files => \/ mem'.accepted[cur.file] = saved.accepted[cur.file]
                                        \/ cur.pre # saved.accepted[cur.file]
    BY <2>1 DEF PreimageIsBacked, Alike
  <2>2. pc \notin {"triage", "verify"} => ~IsOpen
    BY DEF OwnAttempt
  <2> QED
    BY <2>1, <2>2, LedgerUnwritten, Unwritten DEF PreimageIsBacked
<1>4. TraceIsClosed' /\ OnTheWay'
  BY DEF TraceIsClosed, OnTheWay
<1>5. SuccessIsProven'
  BY LedgerUnwritten, Unwritten DEF SuccessIsProven, Proven
<1>6. AcceptedFollows'
  BY FollowsThought DEF Live
<1>7. LoopTypes'
  BY LedgerUnwritten, Unwritten DEF LoopTypes, Thought
<1> QED
  BY <1>1, <1>2, <1>3, <1>4, <1>5, <1>6, <1>7, LedgerUnwritten, Unwritten

\* A candidate, or the measurement without one, comes to the gate.
LEMMA CandidateKeeps ==
  ASSUME LoopInv, UNCHANGED <<ledger, outside, edits, fin, why>>, mem' \in Alike(mem),
         pc \in {"loop", "build"}, pc' = "gate", cur' \in Candidates,
         cur'.file # None => /\ cur'.scen \in Scenarios /\ mem.base # None
                             /\ cur'.pre = Absent \/ cur'.pre = disk[cur'.file]
                             /\ mem.accepted[cur'.file] \in {Absent, cur'.pre},
         cur'.file = None => cur'.pre = Absent
  PROVE  LoopInv'
<1> USE DEF LoopInv
<1>0. Thought
  BY ThoughtCases DEF LoopTypes
<1>1. SessionTypes' /\ EndingTypes'
  BY DEF SessionTypes, EndingTypes, Alike, Places
<1>2. PreimageIsBacked'
  <2>1. cur'.file \in Files \cup {None} /\ mem'.accepted = mem.accepted /\ Last \in Nat
    BY DEF Candidates, Alike, LedgerTypes, Last
  <2>2. CASE cur'.file = None
    BY <2>1, <2>2, LoopSentinel, LedgerUnwritten, Unwritten DEF PreimageIsBacked, Backed, Absent
  <2>3. CASE cur'.file # None
    <3> DEFINE f == cur'.file
    <3>1. f \in Files /\ disk[f] \in Int /\ saved.accepted[f] \in Nat
      BY <2>1, <2>3, OwnedIsNat, Fields DEF OutsideTypes, LoopTypes
    <3>2. \/ mem.accepted[f] = saved.accepted[f]
          \/ mem.accepted[f] = Absent /\ disk[f] # saved.accepted[f]
      BY <3>1 DEF AcceptedFollows, Live
    <3>3. ~IsOpen /\ \A n \in 1 .. Last : attempts[n].state # "claimed"
      BY <2>1 DEF OwnAttempt, IsOpen, LedgerTypes
    <3>4. ASSUME cur'.pre > 0
          PROVE  /\ cur'.pre \in 1 .. Last /\ attempts[cur'.pre].file = f
                 /\ attempts[cur'.pre].kept \/ saved.accepted[f] = cur'.pre
      BY <2>1, <2>3, <3>1, <3>2, <3>3, <3>4 DEF OrdinalsNamed, LeftoverIsRecorded, Absent
    <3>5. mem.accepted[f] = saved.accepted[f] \/ cur'.pre # saved.accepted[f]
      BY <2>3, <3>1, <3>2
    <3> HIDE DEF f
    <3>6. Backed(cur'.pre, cur'.file)
      BY <3>1, <3>3, <3>4 DEF Backed, f
    <3> QED
      BY <2>1, <3>3, <3>5, <3>6, LedgerUnwritten, Unwritten DEF PreimageIsBacked, f
  <2> QED
    BY <2>2, <2>3
<1>3. OwnAttempt' /\ TraceIsClosed' /\ OnTheWay' /\ SuccessIsProven'
  BY LedgerUnwritten, Unwritten DEF OwnAttempt, TraceIsClosed, OnTheWay, SuccessIsProven
<1>4. AcceptedFollows'
  BY <1>0, FollowsThought DEF Live
<1>5. LoopTypes'
  BY LedgerUnwritten, Unwritten DEF LoopTypes, Alike
<1> QED
  BY <1>1, <1>2, <1>3, <1>4, <1>5, LedgerUnwritten, Unwritten

\* The session's attempt is on its way to a receipt that owns nothing new.
LEMMA EndingKeeps ==
  ASSUME LoopInv, UNCHANGED <<attempts, saved, outside, edits, cur>>, terminal' \in {None} \cup Reasons,
         mem' \in Alike(mem), Own, Live, pc \in {"apply", "judge", "triage", "verify", "stop"},
         cur \in Attempted,
         pc' \in {"revert", "close"}, fin' \in Endings, fin'.next \notin {"final", "succeed"},
         why' # "success", fin'.next = "stop" => why' \in Reasons,
         pc' = "close" /\ ~fin'.kept /\ cur.file \in Files => disk[cur.file] # Last
  PROVE  LoopInv'
<1> USE DEF LoopInv
<1>1. SessionTypes' /\ EndingTypes'
  BY DEF SessionTypes, EndingTypes, Places
<1>2. OwnAttempt'
  BY Unwritten DEF OwnAttempt, Own
<1>3. PreimageIsBacked'
  <2>1. /\ Backed(cur.pre, cur.file)
        /\ cur.file \in Files => \/ mem.accepted[cur.file] = saved.accepted[cur.file]
                                 \/ cur.pre # saved.accepted[cur.file]
    BY DEF PreimageIsBacked, Own, Live
  <2> QED
    BY <2>1, Unwritten DEF PreimageIsBacked, Alike
<1>4. TraceIsClosed' /\ OnTheWay' /\ SuccessIsProven'
  BY Unwritten DEF TraceIsClosed, OnTheWay, SuccessIsProven
<1>5. AcceptedFollows'
  BY Unwritten DEF AcceptedFollows, Alike
<1>6. LoopTypes'
  BY Unwritten DEF LoopTypes, Alike
<1> QED
  BY <1>1, <1>2, <1>3, <1>4, <1>5, <1>6, Unwritten

\* The process is gone; the ledger and the disk stay.
LEMMA GoneKeeps ==
  ASSUME LoopInv, Gone, UNCHANGED <<attempts, saved, outside, edits>>, terminal' \in {None} \cup Reasons
  PROVE  LoopInv'
<1> USE DEF LoopInv
<1>1. SessionTypes' /\ EndingTypes' /\ OwnAttempt' /\ AcceptedFollows' /\ TraceIsClosed' /\ OnTheWay'
      /\ SuccessIsProven'
  BY LoopSentinel, Unwritten DEF Gone, SessionTypes, EndingTypes, OwnAttempt, AcceptedFollows, Live, TraceIsClosed,
                   OnTheWay, SuccessIsProven, Places
<1>2. PreimageIsBacked'
  BY Unwritten DEF Gone, PreimageIsBacked
<1>3. LoopTypes'
  BY FreshIsLoopState, Unwritten DEF LoopTypes, Gone
<1> QED
  BY <1>1, <1>2, <1>3, Unwritten

-----------------------------------------------------------------------------
(* Each action keeps the invariant *)

\* _admit and _recover
LEMMA StartKeeps ==
  ASSUME LoopInv, NEW r, NEW admitted \in BOOLEAN, Start(r, admitted)
  PROVE  LoopInv'
<1> USE DEF LoopInv
<1>0. UNCHANGED <<attempts, saved, outside, edits>> /\ terminal' \in {None} \cup Reasons
  BY LedgerUnwritten DEF Start
<1>w. why # "success" /\ pc = "idle"
  BY DEF SuccessIsProven, Start
<1>1. CASE ~admitted
  <2>1. mem' = FreshState /\ cur' = None /\ pc' = "stop" /\ why' = "stopped"
    BY <1>1 DEF Start, StopFor
  <2>2. SessionTypes' /\ EndingTypes' /\ OwnAttempt' /\ AcceptedFollows' /\ TraceIsClosed' /\ OnTheWay'
        /\ SuccessIsProven'
    BY <2>1 DEF SessionTypes, EndingTypes, OwnAttempt, AcceptedFollows, Live, TraceIsClosed, OnTheWay,
                SuccessIsProven, Places, Reasons
  <2>3. PreimageIsBacked'
    BY <1>0, <2>1, Unwritten DEF PreimageIsBacked
  <2>4. LoopTypes'
    BY <1>0, <2>1, FreshIsLoopState, Unwritten DEF LoopTypes
  <2> QED
    BY <1>0, <2>2, <2>3, <2>4, Unwritten
<1>2. CASE admitted /\ IsOpen
  <2>1. /\ mem' = saved /\ pc' = "revert" /\ why' = why
        /\ cur' = [file |-> attempts[Last].file, pre |-> attempts[Last].pre]
        /\ fin' = [state |-> "interrupted", kept |-> FALSE, cautious |-> FALSE, next |-> "loop"]
    BY <1>2 DEF Start, EndAttempt
  <2>2. attempts[Last] \in Rows
    BY <1>2 DEF IsOpen, Last, LedgerTypes
  <2>3. cur' \in Recovered /\ cur'.file = attempts[Last].file /\ cur'.pre = attempts[Last].pre
        /\ cur' \in Attempted
    BY <2>1, <2>2 DEF Recovered, Rows, Attempted
  <2>4. fin' \in Endings /\ fin'.next = "loop"
    BY <2>1 DEF Endings, States
  <2>5. SessionTypes' /\ EndingTypes'
    BY <2>1, <2>3, <2>4 DEF SessionTypes, EndingTypes, Places
  <2>6. OwnAttempt'
    BY <1>0, <1>2, <2>1, <2>3, Unwritten DEF OwnAttempt, Own
  <2>7. PreimageIsBacked'
    BY <1>0, <1>2, <2>1, <2>3, Unwritten DEF PreimageIsBacked
  <2>8. AcceptedFollows' /\ TraceIsClosed' /\ OnTheWay' /\ SuccessIsProven'
    BY <1>0, <1>w, <2>1, Unwritten DEF AcceptedFollows, TraceIsClosed, OnTheWay, SuccessIsProven
  <2>9. LoopTypes'
    BY <1>0, <2>1, Unwritten DEF LoopTypes
  <2> QED
    BY <1>0, <2>5, <2>6, <2>7, <2>8, <2>9, Unwritten
<1>3. CASE admitted /\ ~IsOpen
  <2>1. mem' = saved /\ cur' = None /\ pc' = "loop" /\ why' = why
    BY <1>3 DEF Start, Goto
  <2>2. SessionTypes' /\ EndingTypes' /\ TraceIsClosed' /\ OnTheWay' /\ SuccessIsProven'
    BY <1>w, <2>1 DEF SessionTypes, EndingTypes, TraceIsClosed, OnTheWay, SuccessIsProven, Places
  <2>3. OwnAttempt' /\ PreimageIsBacked' /\ AcceptedFollows'
    BY <1>0, <1>3, <2>1, Unwritten DEF OwnAttempt, PreimageIsBacked, AcceptedFollows
  <2>4. LoopTypes'
    BY <1>0, <2>1, Unwritten DEF LoopTypes
  <2> QED
    BY <1>0, <2>2, <2>3, <2>4, Unwritten
<1> QED
  BY <1>1, <1>2, <1>3

\* An agent's call is counted, and may be the last of the session.
LEMMA InvokeCases ==
  ASSUME LoopInv, NEW R \in BOOLEAN, Invoke(R)
  PROVE  \/ R /\ Called \in Alike(mem)
         \/ /\ pc' = "stop" /\ why' \in Reasons \ {"success"} /\ fin' = fin /\ cur' = cur
            /\ mem' \in Alike(mem)
<1>0. mem \in LoopStates /\ mem \in Alike(mem)
  BY DEF LoopInv, LoopTypes, Alike
<1>1. ~CallsExceeded => Called \in Alike(mem)
  <2>1. ~CallsExceeded => (Remote => mem.calls < MaxCalls)
    BY <1>0, Fields, LoopAssumption DEF CallsExceeded
  <2> QED
    BY <1>0, <2>1, Bookkeeping DEF Called
<1> QED
  BY <1>0, <1>1 DEF Invoke, StopFor, Reasons

\* The top of an iteration: a stop, a new baseline, drift, or on to the build.
LEMMA LoopTopKeeps ==
  ASSUME LoopInv, LoopTop
  PROVE  LoopInv'
<1>0. /\ UNCHANGED <<ledger, outside, edits>> /\ pc = "loop"
      /\ mem \in LoopStates /\ mem \in Alike(mem)
  BY DEF LoopInv, LoopTypes, Alike, LoopTop, fixed, bounds
<1>1. SignalReason \in Reasons \ {"success"} /\ "stopped" \in Reasons \ {"success"}
  BY DEF SignalReason, Reasons
<1>2. ASSUME NEW w \in Reasons \ {"success"}, StopFor(w), UNCHANGED <<mem, cur>>
      PROVE  LoopInv'
  <2>1. Thought
    BY <1>0, <1>2, ThoughtCases
  <2> QED
    BY <1>0, <1>2, <2>1, StopKeeps DEF StopFor
<1>3. ASSUME cur' = [file |-> None, scen |-> None, pre |-> Absent, obs |-> world], Goto("gate"), mem' = mem
      PROVE  LoopInv'
  <2>1. cur' \in Candidates /\ cur'.file = None /\ cur'.pre = Absent
    BY <1>3, LoopAssumption DEF Candidates, Contents, Absent, LoopInv, OutsideTypes
  <2> QED
    BY <1>0, <1>3, <2>1, CandidateKeeps DEF Goto
<1>4. ASSUME mem' = Invalidated(mem, Tampered(mem.accepted)), Goto("loop"), cur' = cur
      PROVE  LoopInv'
  <2>1. Thought
    BY <1>0, <1>4, ThoughtCases
  <2> QED
    BY <1>0, <1>4, <2>1, ReturnKeeps DEF Goto
<1>5. ASSUME mem.base # None, Goto("build"), mem' = mem, cur' = [dirty |-> Dirty]
      PROVE  LoopInv'
  BY <1>0, <1>5, ObservedKeeps DEF Goto
<1> QED
  BY <1>1, <1>2, <1>3, <1>4, <1>5 DEF LoopTop

\* _plateau_step asks for a measurement or gives up.
LEMMA PlateauKeeps ==
  ASSUME LoopInv, Plateau
  PROVE  LoopInv'
<1>0. /\ UNCHANGED <<ledger, outside, edits, cur>> /\ pc = "loop" /\ "stopped" \in Reasons \ {"success"}
      /\ mem \in LoopStates /\ mem \in Alike(mem)
  BY DEF LoopInv, LoopTypes, Alike, Plateau, fixed, bounds, Reasons
<1>1. mem' \in Alike(mem)
  BY <1>0, Bookkeeping DEF Plateau
<1>2. Thought
  BY <1>0, <1>1, ThoughtCases
<1> QED
  BY <1>0, <1>1, <1>2, ReturnKeeps, StopKeeps DEF Plateau, Goto, StopFor

\* _plan_step replaces the board and the plan, and owns nothing new.
LEMMA PlanKeeps ==
  ASSUME LoopInv, Plan
  PROVE  LoopInv'
<1>0. /\ UNCHANGED <<ledger, outside, edits>> /\ pc = "build" /\ "stopped" \in Reasons \ {"success"}
      /\ mem \in LoopStates /\ mem \in Alike(mem) /\ mem.base # None
  BY DEF LoopInv, LoopTypes, SessionTypes, Alike, Plan, fixed, bounds, Reasons
<1>1. ASSUME pc' = "stop", why' \in Reasons \ {"success"}, fin' = fin, cur' = cur, mem' \in Alike(mem)
      PROVE  LoopInv'
  <2>1. Thought
    BY <1>0, <1>1, ThoughtCases
  <2> QED
    BY <1>0, <1>1, <2>1, StopKeeps
<1>2. ASSUME mem' \in Alike(mem), cur' = cur, Goto("loop") \/ Goto("build")
      PROVE  LoopInv'
  <2>1. Thought
    BY <1>0, <1>2, ThoughtCases
  <2> QED
    BY <1>0, <1>2, <2>1, ReturnKeeps DEF Goto
<1> DEFINE Planned(kept, new, first) ==
             [PlanChanged(Called) EXCEPT
                !.plan = "ready",
                !.board = [s \in Scenarios |->
                             IF s \in kept THEN @[s]
                             ELSE Scenario(IF s \in new THEN first ELSE "out")]]
           Result == /\ UNCHANGED cur
                     /\ \/ mem' = Called /\ Goto("loop")
                        \/ \E kept \in SUBSET (Scenarios \ Outside(mem)), new \in SUBSET Scenarios,
                              first \in {"planned", "unresolved"} :
                             /\ kept \cap new = {} /\ kept \cup new # {}
                             /\ mem' = Planned(kept, new, first)
                             /\ Goto("build")
<1>3. ASSUME Called \in Alike(mem), NEW kept, NEW new, NEW first \in {"planned", "unresolved"}
      PROVE  Planned(kept, new, first) \in Alike(mem)
  <2> DEFINE x == PlanChanged(Called)
             B == [s \in Scenarios |-> IF s \in kept THEN x.board[s]
                                       ELSE Scenario(IF s \in new THEN first ELSE "out")]
             y == [x EXCEPT !.plan = "ready"]
  <2>1. x \in Alike(mem) /\ x \in LoopStates
    BY <1>3, AlikeTrans, Bookkeeping
  <2>2. B \in [Scenarios -> Marks]
    BY <2>1 DEF LoopStates, Marks, Scenario
  <2>3. Planned(kept, new, first) = [y EXCEPT !.board = B]
    OBVIOUS
  <2> HIDE DEF x, B, Planned
  <2>4. y \in Alike(x)
    BY <2>1, Bookkeeping
  <2>5. y \in Alike(mem) /\ y \in LoopStates
    BY <2>1, <2>4, AlikeTrans
  <2> HIDE DEF y
  <2> QED
    BY <2>2, <2>3, <2>5, AlikeTrans, Boards
<1>4. CASE mem.plan = "replan" /\ StopFor("stopped") /\ UNCHANGED <<mem, cur>>
  BY <1>0, <1>1, <1>4 DEF StopFor
<1>5. CASE Invoke(Result)
  <2> HIDE DEF Planned
  <2>1. Result \in BOOLEAN
    OBVIOUS
  <2>2. CASE Result /\ Called \in Alike(mem)
    BY <1>2, <1>3, <2>2
  <2> HIDE DEF Result
  <2> QED
    BY <1>1, <1>5, <2>1, <2>2, InvokeCases
<1> QED
  BY <1>4, <1>5 DEF Plan

\* _build_attempt names what is on disk, or no file, as the preimage of its candidate.
LEMMA BuildKeeps ==
  ASSUME LoopInv, Build
  PROVE  LoopInv'
<1>0. /\ UNCHANGED <<ledger, outside, edits>> /\ pc = "build" /\ "stopped" \in Reasons \ {"success"}
      /\ mem \in LoopStates /\ mem \in Alike(mem) /\ mem.base # None
  BY DEF LoopInv, LoopTypes, SessionTypes, Alike, Build, fixed, bounds, Reasons
<1>1. ASSUME pc' = "stop", why' \in Reasons \ {"success"}, fin' = fin, cur' = cur, mem' \in Alike(mem)
      PROVE  LoopInv'
  <2>1. Thought
    BY <1>0, <1>1, ThoughtCases
  <2> QED
    BY <1>0, <1>1, <2>1, StopKeeps
<1>2. ASSUME mem' \in Alike(mem), cur' = cur, Goto("loop")
      PROVE  LoopInv'
  <2>1. Thought
    BY <1>0, <1>2, ThoughtCases
  <2> QED
    BY <1>0, <1>2, <2>1, ReturnKeeps DEF Goto
<1>3. PICK s \in Scenarios :
        Invoke(\/ mem' = Called /\ Goto("loop") /\ UNCHANGED cur
               \/ /\ \E m \in ApproachRejected(Called) : mem' = Dull(m)
                  /\ UNCHANGED cur
                  /\ Goto("loop") \/ StopFor("stopped")
               \/ \E f \in Files \ mem.frozen : \E pre \in Preimages(f) :
                    /\ \/ mem' = Called
                       \/ \E new \in SUBSET Outside(mem) : mem' = Extended(Called, new)
                    /\ cur' = [file |-> f, scen |-> s, pre |-> pre, obs |-> world]
                    /\ Goto("gate"))
  BY DEF Build
<1> DEFINE Refused == mem' = Called /\ Goto("loop") /\ UNCHANGED cur
           Rejected == /\ \E m \in ApproachRejected(Called) : mem' = Dull(m)
                       /\ UNCHANGED cur
                       /\ Goto("loop") \/ StopFor("stopped")
           Candidate(f, pre) == /\ \/ mem' = Called
                                   \/ \E new \in SUBSET Outside(mem) : mem' = Extended(Called, new)
                                /\ cur' = [file |-> f, scen |-> s, pre |-> pre, obs |-> world]
                                /\ Goto("gate")
           Result == \/ Refused \/ Rejected
                     \/ \E f \in Files \ mem.frozen : \E pre \in Preimages(f) : Candidate(f, pre)
<1>4. Invoke(Result)
  BY <1>3
<1>5. ASSUME Called \in Alike(mem), Refused
      PROVE  LoopInv'
  BY <1>2, <1>5
<1>6. ASSUME Called \in Alike(mem), Rejected
      PROVE  LoopInv'
  <2>1. PICK m \in ApproachRejected(Called) : mem' = Dull(m)
    BY <1>6
  <2>2. m \in LoopStates /\ Alike(m) = Alike(mem)
    BY <1>6, ApproachAlike
  <2>3. mem' \in Alike(mem)
    BY <2>1, <2>2, Bookkeeping
  <2> QED
    BY <1>0, <1>1, <1>2, <1>6, <2>3 DEF StopFor
<1>7. ASSUME Called \in Alike(mem), NEW f \in Files, NEW pre \in Preimages(f), Candidate(f, pre)
      PROVE  LoopInv'
  <2>1. mem' \in Alike(mem)
    BY <1>7, AlikeTrans, Boards
  <2>2. /\ pre = Absent \/ pre = disk[f]
        /\ mem.accepted[f] \in {Absent, pre}
    BY <1>7 DEF Preimages
  <2>4. pre \in Contents /\ world \in Worlds
    BY <2>2, LoopAssumption DEF LoopInv, OutsideTypes, Contents, Absent
  <2>3. /\ cur' \in Candidates /\ cur'.file = f /\ cur'.file # None /\ cur'.scen \in Scenarios
        /\ cur'.pre = pre
    BY <1>7, <2>4, LoopSentinel DEF Candidates
  <2> QED
    BY <1>0, <1>7, <2>1, <2>2, <2>3, CandidateKeeps DEF Goto
<1> HIDE DEF Refused, Rejected, Candidate
<1>8. Result \in BOOLEAN
  OBVIOUS
<1>9. ASSUME Called \in Alike(mem), Result
      PROVE  LoopInv'
  BY <1>5, <1>6, <1>7, <1>9
<1> HIDE DEF Result
<1> QED
  BY <1>1, <1>4, <1>8, <1>9, InvokeCases

\* _no_actionable stops or plans again.
LEMMA NoActionableKeeps ==
  ASSUME LoopInv, NoActionable
  PROVE  LoopInv'
<1>0. /\ UNCHANGED <<ledger, outside, edits, cur>> /\ pc = "build" /\ "stopped" \in Reasons \ {"success"}
      /\ mem \in LoopStates /\ mem \in Alike(mem)
  BY DEF LoopInv, LoopTypes, Alike, NoActionable, fixed, bounds, Reasons
<1>1. mem' \in Alike(mem)
  BY <1>0, Bookkeeping DEF NoActionable
<1>2. Thought
  BY <1>0, <1>1, ThoughtCases
<1> QED
  BY <1>0, <1>1, <1>2, ReturnKeeps, StopKeeps DEF NoActionable, Goto, StopFor

\* _gate changes nothing.
LEMMA GateKeeps ==
  ASSUME LoopInv, Gate
  PROVE  LoopInv'
<1>0. /\ UNCHANGED <<ledger, outside, edits, cur, mem>> /\ pc = "gate"
      /\ SignalReason \in Reasons \ {"success"}
      /\ mem \in LoopStates /\ mem \in Alike(mem)
  BY DEF LoopInv, LoopTypes, Alike, Gate, fixed, bounds, Reasons, SignalReason
<1>1. Thought
  BY <1>0, ThoughtCases
<1>2. CASE StopFor(SignalReason)
  BY <1>0, <1>1, <1>2, StopKeeps DEF StopFor
<1>3. CASE Goto("claim")
  <2> USE DEF LoopInv
  <2>1. SessionTypes' /\ EndingTypes' /\ TraceIsClosed' /\ OnTheWay' /\ SuccessIsProven'
    BY <1>0, <1>3 DEF Goto, SessionTypes, EndingTypes, TraceIsClosed, OnTheWay, SuccessIsProven, Places
  <2>2. OwnAttempt' /\ PreimageIsBacked'
    BY <1>0, <1>3, LedgerUnwritten, Unwritten DEF Goto, OwnAttempt, PreimageIsBacked
  <2>3. AcceptedFollows'
    BY <1>0, <1>1, FollowsThought DEF Live
  <2>4. LoopTypes'
    BY <1>0, LedgerUnwritten, Unwritten DEF LoopTypes
  <2> QED
    BY <1>0, <2>1, <2>2, <2>3, <2>4, LedgerUnwritten, Unwritten
<1> QED
  BY <1>2, <1>3 DEF Gate

\* claim_attempt: the next ordinal is on no file yet.
LEMMA ClaimKeeps ==
  ASSUME LoopInv, Claim
  PROVE  LoopInv'
<1> USE DEF LoopInv
<1>0. /\ UNCHANGED <<saved, terminal, outside, edits, cur, mem>> /\ pc = "claim"
      /\ "stopped" \in Reasons \ {"success"} /\ mem \in LoopStates /\ mem \in Alike(mem)
      /\ saved' = saved /\ disk' = disk
  BY DEF LoopTypes, Alike, Claim, fixed, bounds, Reasons, outside
<1>1. CASE StopFor("stopped") /\ attempts' = attempts
  <2>1. Thought
    BY <1>0, ThoughtCases
  <2> QED
    BY <1>0, <1>1, <2>1, StopKeeps DEF StopFor, ledger
<1>2. CASE ~(Final(terminal) \/ Last >= MaxAttempts)
  <2> DEFINE row == [file |-> cur.file, pre |-> cur.pre, under |-> Beneath(cur.pre), runs |-> 0, by |-> {},
                     state |-> "claimed", kept |-> FALSE]
  <2>1. /\ attempts' = Append(attempts, row) /\ fin' = fin /\ why' = why
        /\ pc' = IF cur.file = None THEN "run" ELSE "apply"
    BY <1>2 DEF Claim, Goto
  <2>0. cur \in Candidates /\ attempts \in Seq(Rows) /\ Backed(cur.pre, cur.file)
    BY <1>0 DEF SessionTypes, LedgerTypes, PreimageIsBacked
  <2>15. cur.pre \in Contents /\ Beneath(cur.pre) \in Contents
    <3>1. cur.pre \in Contents
      BY <2>0 DEF Candidates
    <3>2. CASE cur.pre > 0
      <4>1. attempts[cur.pre] \in Rows
        BY <2>0, <3>2 DEF Backed, Last
      <4> QED
        BY <3>1, <3>2, <4>1 DEF Beneath, Rows
    <3> QED
      BY <3>1, <3>2 DEF Beneath
  <2>2. row \in Rows /\ cur \in Candidates /\ attempts \in Seq(Rows)
    BY <2>0, <2>15 DEF Candidates, Rows, States
  <2>3. row.state = "claimed" /\ row.file = cur.file /\ row.pre = cur.pre
    OBVIOUS
  <2> HIDE DEF row
  <2>4. /\ attempts' \in Seq(Rows) /\ Last \in Nat /\ Last' = Last + 1 /\ attempts'[Last + 1] = row
        /\ \A n \in 1 .. Last : attempts'[n] = attempts[n]
    BY <2>1, <2>2, AppendProperties DEF Last
  <2>5. ~IsOpen /\ \A n \in 1 .. Last : attempts[n].state # "claimed"
    BY <1>0, <2>4 DEF OwnAttempt, IsOpen, LedgerTypes
  <2>6. LedgerTypes'
    BY <1>0, <1>2, <2>4, <2>5, LoopAssumption DEF LedgerTypes
  <2>7. OutsideTypes' /\ LoopTypes'
    BY <1>0 DEF OutsideTypes, LoopTypes, outside
  <2>8. \A f \in Files : disk[f] \in Int /\ saved.accepted[f] \in Nat
    BY OwnedIsNat, Fields DEF OutsideTypes, LoopTypes
  <2>9. OrdinalsNamed' /\ LeftoverIsRecorded'
    BY <1>0, <2>4, <2>8 DEF OrdinalsNamed, LeftoverIsRecorded
  <2>10. SessionTypes' /\ EndingTypes' /\ OnTheWay' /\ SuccessIsProven'
    BY <1>0, <2>1 DEF SessionTypes, EndingTypes, OnTheWay, SuccessIsProven, Places
  <2>11. IsOpen' /\ Own' /\ OwnAttempt'
    BY <1>0, <2>1, <2>3, <2>4 DEF OwnAttempt, Own, IsOpen
  <2>12. AcceptedFollows'
    BY <1>0, <2>1 DEF AcceptedFollows, Live
  <2>13. PreimageIsBacked'
    <3>1. cur.file \in Files => \/ mem.accepted[cur.file] = saved.accepted[cur.file]
                                \/ cur.pre # saved.accepted[cur.file]
      BY <1>0 DEF PreimageIsBacked
    <3>2. Backed(cur.pre, cur.file)'
      BY <1>0, <2>0, <2>4 DEF Backed
    <3> QED
      BY <1>0, <2>1, <2>3, <2>4, <3>1, <3>2 DEF PreimageIsBacked
  <2>14. TraceIsClosed'
    BY <1>0, <2>1, <2>4, <2>8 DEF TraceIsClosed, OrdinalsNamed
  <2> QED
    BY <2>6, <2>7, <2>9, <2>10, <2>11, <2>12, <2>13, <2>14
<1> QED
  BY <1>1, <1>2 DEF Claim

\* The first half of workspace.apply compares, and writes nothing.
LEMMA ApplyKeeps ==
  ASSUME LoopInv, Apply
  PROVE  LoopInv'
<1> USE DEF LoopInv
<1>0. /\ UNCHANGED <<ledger, attempts, saved, terminal, outside, edits, cur>> /\ pc = "apply"
      /\ SignalReason \in Reasons \ {"success"} /\ mem \in LoopStates /\ mem \in Alike(mem)
      /\ why # "success" /\ Own /\ cur \in Candidates /\ cur \in Attempted /\ cur.file \in Files
      /\ terminal' \in {None} \cup Reasons
  BY DEF LoopTypes, Alike, Apply, fixed, bounds, Reasons, SignalReason, ledger, SuccessIsProven,
         OwnAttempt, SessionTypes, Candidates, Attempted, LedgerTypes
<1>1. \A f \in Files : disk[f] # Last
  BY <1>0 DEF TraceIsClosed
<1>2. ASSUME EndAttempt("close", "interrupted", FALSE, FALSE, "stop", SignalReason), mem' = mem
      PROVE  LoopInv'
  <2>1. fin' \in Endings /\ fin'.next = "stop" /\ pc' = "close" /\ why' = SignalReason
    BY <1>2 DEF EndAttempt, Endings, States
  <2> QED
    BY <1>0, <1>1, <1>2, <2>1, EndingKeeps DEF Live
<1>3. ASSUME EndAttempt("close", "failed", FALSE, FALSE, "loop", why), mem' = Dull(mem)
      PROVE  LoopInv'
  <2>1. fin' \in Endings /\ fin'.next = "loop" /\ pc' = "close" /\ why' = why
    BY <1>3 DEF EndAttempt, Endings, States
  <2>2. mem' \in Alike(mem)
    BY <1>0, <1>3, Bookkeeping
  <2> QED
    BY <1>0, <1>1, <2>1, <2>2, EndingKeeps DEF Live
<1>4. ASSUME Goto("write"), mem' = mem
      PROVE  LoopInv'
  <2>1. SessionTypes' /\ EndingTypes' /\ OnTheWay' /\ SuccessIsProven'
    BY <1>0, <1>4 DEF Goto, SessionTypes, EndingTypes, OnTheWay, SuccessIsProven, Places
  <2>2. OwnAttempt' /\ PreimageIsBacked' /\ AcceptedFollows' /\ TraceIsClosed'
    BY <1>0, <1>4, Unwritten DEF Goto, OwnAttempt, Own, PreimageIsBacked, AcceptedFollows, Live, TraceIsClosed
  <2>3. LoopTypes'
    BY <1>0, <1>4, Unwritten DEF LoopTypes
  <2> QED
    BY <1>0, <2>1, <2>2, <2>3, Unwritten
<1> QED
  BY <1>2, <1>3, <1>4 DEF Apply

\* The second half puts the attempt's ordinal on disk.
LEMMA WriteKeeps ==
  ASSUME LoopInv, Write
  PROVE  LoopInv'
<1> USE DEF LoopInv
<1>0. /\ UNCHANGED <<attempts, saved, terminal, world, edits, cur>> /\ pc = "write"
      /\ mem \in LoopStates /\ mem' = mem /\ Goto("run")
      /\ why # "success" /\ Own /\ cur \in Candidates /\ cur.file \in Files
      /\ disk' = [disk EXCEPT ![cur.file] = Last]
  BY DEF LoopTypes, Write, fixed, bounds, ledger, SuccessIsProven, OwnAttempt, SessionTypes, Candidates
<1>1. /\ Last \in Nat /\ Last > 0 /\ Last <= MaxAttempts /\ attempts[Last].state = "claimed"
      /\ Last' = Last /\ (IsOpen' <=> IsOpen) /\ attempts' = attempts /\ saved' = saved
      /\ attempts[Last].file = cur.file
  BY <1>0 DEF Own, IsOpen, Last, LedgerTypes
<1>2. \A f \in Files : /\ disk[f] \in Contents /\ disk[f] \in Int /\ saved.accepted[f] \in Nat
                       /\ disk'[f] = IF f = cur.file THEN Last ELSE disk[f]
  BY <1>0, OwnedIsNat, Fields DEF OutsideTypes, LoopTypes
<1>3. Last \in Contents
  BY <1>1, LoopAssumption DEF Contents
<1>4. disk' \in [Files -> Contents]
  BY <1>0, <1>3 DEF OutsideTypes
<1>5. OutsideTypes' /\ LedgerTypes' /\ LoopTypes'
  BY <1>0, <1>1, <1>4 DEF OutsideTypes, LedgerTypes, LoopTypes
<1>6. OrdinalsNamed' /\ LeftoverIsRecorded'
  BY <1>1, <1>2 DEF OrdinalsNamed, LeftoverIsRecorded
<1>7. SessionTypes' /\ EndingTypes' /\ TraceIsClosed' /\ OnTheWay' /\ SuccessIsProven'
  BY <1>0 DEF Goto, SessionTypes, EndingTypes, TraceIsClosed, OnTheWay, SuccessIsProven, Places
<1>8. OwnAttempt' /\ PreimageIsBacked'
  BY <1>0, <1>1 DEF Goto, OwnAttempt, Own, PreimageIsBacked, Backed
<1>9. AcceptedFollows'
  <2>1. \A f \in Files : saved.accepted[f] # Last
    BY <1>1, <1>2 DEF OrdinalsNamed
  <2> QED
    BY <1>0, <1>1, <1>2, <2>1 DEF AcceptedFollows, Live, Goto
<1> QED
  BY <1>5, <1>6, <1>7, <1>8, <1>9

\* A measurement changes the counts of the open attempt and nothing else in the ledger.
LEMMA CountedRow ==
  ASSUME LoopInv, Own, starts \in Nat, attempts' = Counted
  PROVE  /\ attempts' \in Seq(Rows) /\ Last' = Last /\ Last \in Nat /\ Last > 0 /\ IsOpen' /\ IsOpen
         /\ attempts[Last].runs \in Nat /\ attempts[Last].by \in SUBSET Nat
         /\ \A n \in 1 .. Last :
              /\ attempts'[n].file = attempts[n].file /\ attempts'[n].pre = attempts[n].pre
              /\ attempts'[n].state = attempts[n].state /\ attempts'[n].kept = attempts[n].kept
              /\ attempts'[n].under = attempts[n].under
              /\ attempts'[n].runs = attempts[n].runs + (IF n = Last THEN 1 ELSE 0)
              /\ attempts'[n].by = attempts[n].by \cup (IF n = Last THEN {starts} ELSE {})
<1> DEFINE row == [attempts[Last] EXCEPT !.runs = @ + 1, !.by = @ \cup {starts}]
<1>1. /\ Last \in Nat /\ Last > 0 /\ attempts \in Seq(Rows) /\ IsOpen
      /\ \A n \in 1 .. Last : attempts[n] \in Rows
  BY DEF LoopInv, Own, IsOpen, Last, LedgerTypes
<1>2. \A n \in 1 .. Last : attempts[n].runs \in Nat /\ attempts[n].by \in SUBSET Nat
  BY <1>1 DEF Rows
<1>3. /\ row \in Rows /\ row.file = attempts[Last].file /\ row.pre = attempts[Last].pre
      /\ row.state = attempts[Last].state /\ row.kept = attempts[Last].kept
      /\ row.under = attempts[Last].under
      /\ row.runs = attempts[Last].runs + 1 /\ row.by = attempts[Last].by \cup {starts}
  <2>1. attempts[Last] \in Rows /\ attempts[Last].runs + 1 \in Nat /\ attempts[Last].by \cup {starts} \in SUBSET Nat
    BY <1>1, <1>2
  <2> QED
    BY <2>1 DEF Rows
<1>4. attempts' = [attempts EXCEPT ![Last] = row]
  BY <1>1 DEF Counted
<1> HIDE DEF row
<1>5. /\ attempts' \in Seq(Rows) /\ Last' = Last
      /\ \A n \in 1 .. Last : attempts'[n] = IF n = Last THEN row ELSE attempts[n]
  BY <1>1, <1>3, <1>4, ExceptSeq DEF Last
<1> QED
  BY <1>1, <1>2, <1>3, <1>5 DEF IsOpen

\* So it keeps the invariant on the way to a judgement.
LEMMA CountedKeeps ==
  ASSUME LoopInv, Own, starts \in Nat, attempts' = Counted,
         UNCHANGED <<saved, terminal, outside, edits, fin, why>>, mem' \in Alike(mem),
         pc \in {"run", "judge"}, pc' = "judge", cur \in Attempted, cur' \in Measured,
         cur'.file = cur.file, cur'.scen = cur.scen, cur'.pre = cur.pre
  PROVE  LoopInv'
<1> USE DEF LoopInv
<1>0. saved' = saved /\ disk' = disk /\ world' = world /\ mem' \in LoopStates
      /\ mem'.base = mem.base /\ mem'.accepted = mem.accepted
  BY DEF outside, Alike
<1>1. /\ attempts' \in Seq(Rows) /\ Last' = Last /\ Last \in Nat /\ Last > 0 /\ IsOpen' /\ IsOpen
      /\ \A n \in 1 .. Last : /\ attempts'[n].file = attempts[n].file /\ attempts'[n].pre = attempts[n].pre
                              /\ attempts'[n].state = attempts[n].state /\ attempts'[n].kept = attempts[n].kept
  BY CountedRow
<1>2. \A f \in Files : disk[f] \in Int /\ saved.accepted[f] \in Nat
  BY OwnedIsNat, Fields DEF OutsideTypes, LoopTypes
<1>3. OutsideTypes' /\ LoopTypes'
  BY <1>0 DEF OutsideTypes, LoopTypes
<1>10. LedgerTypes'
  <2>1. \A n \in 1 .. Last - 1 : attempts'[n].state # "claimed"
    BY <1>1 DEF LedgerTypes
  <2> QED
    BY <1>1, <2>1 DEF LedgerTypes
<1>4. OrdinalsNamed' /\ LeftoverIsRecorded'
  BY <1>0, <1>1, <1>2 DEF OrdinalsNamed, LeftoverIsRecorded
<1>5. SessionTypes' /\ EndingTypes' /\ TraceIsClosed' /\ OnTheWay' /\ SuccessIsProven'
  BY <1>0 DEF SessionTypes, EndingTypes, TraceIsClosed, OnTheWay, SuccessIsProven, Places
<1>6. OwnAttempt'
  BY <1>1 DEF OwnAttempt, Own
<1>7. \A p, f : Backed(p, f)' <=> Backed(p, f)
  BY <1>0, <1>1 DEF Backed
<1>8. PreimageIsBacked'
  BY <1>0, <1>1, <1>7 DEF PreimageIsBacked
<1>9. AcceptedFollows'
  BY <1>0, <1>1 DEF AcceptedFollows, Live
<1> QED
  BY <1>3, <1>4, <1>5, <1>6, <1>8, <1>9, <1>10

\* _run_measure
LEMMA RunKeeps ==
  ASSUME LoopInv, starts \in Nat, Run
  PROVE  LoopInv'
<1>0. /\ UNCHANGED <<saved, terminal, outside, edits, mem, fin, why>> /\ pc = "run" /\ pc' = "judge"
      /\ Own /\ cur \in Candidates /\ cur \in Attempted /\ attempts' = Counted /\ mem \in Alike(mem)
  BY DEF Run, Goto, fixed, bounds, outside, LoopInv, OwnAttempt, SessionTypes, Attempted, Alike, LoopTypes
<1>1. /\ cur' \in Measured /\ cur'.file = cur.file /\ cur'.scen = cur.scen /\ cur'.pre = cur.pre
  <2>1. PICK out \in {"accepted", "failed", "unusable", "blocked", "incomplete"}, met \in BOOLEAN :
          cur' = [file |-> cur.file, scen |-> cur.scen, pre |-> cur.pre, obs |-> cur.obs,
                  out |-> out, again |-> 0, rec |-> [world |-> world, tree |-> disk, met |-> met]]
    BY DEF Run
  <2> QED
    BY <1>0, <2>1, LoopAssumption DEF Measured, Candidates, LoopInv, OutsideTypes
<1> QED
  BY <1>0, <1>1, CountedKeeps

\* _diagnose_repeats
LEMMA DiagnoseKeeps ==
  ASSUME LoopInv, starts \in Nat, Diagnose
  PROVE  LoopInv'
<1>0. /\ UNCHANGED <<saved, terminal, outside, edits, fin, why>> /\ pc = "judge" /\ pc' = "judge"
      /\ Own /\ cur \in Measured /\ cur \in Attempted /\ attempts' = Counted
      /\ mem \in LoopStates /\ mem.diag < MaxDiagnostic /\ mem' = [mem EXCEPT !.diag = @ + 1]
      /\ cur.again < FlakyRepeats
  BY DEF Diagnose, Repeats, Goto, fixed, bounds, outside, LoopInv, OwnAttempt, SessionTypes, Attempted, LoopTypes
<1>1. mem' \in Alike(mem)
  BY <1>0, Bookkeeping
<1>2. PICK again \in {cur.again + 1, FlakyRepeats} : cur' = [cur EXCEPT !.again = again]
  BY DEF Diagnose
<1>3. again \in 0 .. FlakyRepeats
  BY <1>0, <1>2, LoopAssumption DEF Measured
<1>4. cur' \in Measured /\ cur'.file = cur.file /\ cur'.scen = cur.scen /\ cur'.pre = cur.pre
  BY <1>0, <1>2, <1>3 DEF Measured
<1> QED
  BY <1>0, <1>1, <1>4, CountedKeeps

\* The baseline is measured: it is closed as it is, or its target is met.
LEMMA JudgeBaselineKeeps ==
  ASSUME LoopInv, JudgeBaseline
  PROVE  LoopInv'
<1> USE DEF LoopInv
<1>0. /\ UNCHANGED <<ledger, attempts, saved, outside, edits, cur>> /\ terminal' \in {None} \cup Reasons
      /\ pc = "judge" /\ cur.file = None /\ cur \in Measured /\ cur \in Attempted /\ Own /\ why # "success"
      /\ mem \in LoopStates /\ mem \in Alike(mem) /\ "stopped" \in Reasons
  BY DEF JudgeBaseline, fixed, bounds, ledger, LedgerTypes, SessionTypes, OwnAttempt, SuccessIsProven,
         LoopTypes, Alike, Reasons, Attempted
<1>1. ASSUME cur.out = "accepted", cur.rec.world = cur.obs
      PROVE  LoopInv'
  <2>1. PICK state \in {"completed", "failed"} :
          /\ cur.rec.met => state = "completed"
          /\ pc' = "close" /\ why' = why
          /\ fin' = [state |-> state, kept |-> FALSE, cautious |-> FALSE,
                     next |-> IF ~cur.rec.met THEN "loop"
                              ELSE IF mem.base = None THEN "succeed" ELSE "final"]
    BY <1>1 DEF JudgeBaseline, EndAttempt
  <2>2. /\ fin' \in Endings /\ fin'.next # "stop" /\ ~fin'.kept
        /\ fin'.next \in {"final", "succeed"} => fin'.state = "completed" /\ cur.rec.met
    BY <2>1 DEF Endings, States
  <2> DEFINE b == IF mem.plan = "none" THEN "none" ELSE "same"
  <2>3. mem' = [mem EXCEPT !.base = cur.obs, !.rebase = FALSE, !.bound = b] /\ cur.obs \in Worlds
    BY <1>0, <1>1 DEF JudgeBaseline, Measured
  <2>4. mem' \in LoopStates /\ mem'.base # None /\ mem'.accepted = mem.accepted
    BY <1>0, <2>3, LoopSentinel DEF LoopStates
  <2>5. SessionTypes' /\ EndingTypes'
    BY <1>0, <2>1, <2>2, <2>4 DEF SessionTypes, EndingTypes, Places
  <2>6. OwnAttempt' /\ PreimageIsBacked'
    BY <1>0, <2>1, Unwritten DEF OwnAttempt, Own, PreimageIsBacked
  <2>7. AcceptedFollows'
    BY <1>0, <2>1, <2>4, Unwritten DEF AcceptedFollows, Live
  <2>8. TraceIsClosed' /\ OnTheWay' /\ SuccessIsProven'
    BY <1>0, <2>1, LoopSentinel DEF TraceIsClosed, OnTheWay, SuccessIsProven
  <2>9. LoopTypes'
    BY <1>0, <2>4, Unwritten DEF LoopTypes
  <2> QED
    BY <1>0, <2>5, <2>6, <2>7, <2>8, <2>9, Unwritten
<1>2. ASSUME mem' = mem,
             EndAttempt("close", IF cur.out = "incomplete" THEN "interrupted" ELSE "failed",
                        FALSE, FALSE, "stop", "stopped")
      PROVE  LoopInv'
  <2>1. fin' \in Endings /\ fin'.next = "stop" /\ pc' = "close" /\ why' = "stopped"
    BY <1>2 DEF EndAttempt, Endings, States
  <2> QED
    BY <1>0, <1>2, <2>1, LoopSentinel, EndingKeeps DEF Live
<1> QED
  BY <1>1, <1>2 DEF JudgeBaseline

\* A rejected candidate is reverted, a kept one closed with the word that it is.
LEMMA RejectKeeps ==
  ASSUME LoopInv, UNCHANGED <<ledger, outside, edits, cur>>, pc \in {"judge", "triage", "verify"},
         mem' \in Alike(mem), NEW w \in Reasons \ {"success"}, NEW state \in States \ {"claimed"},
         \/ \E next \in {"loop", "stop", "remeasure"} : Reject(state, next, w)
         \/ \E next \in {"loop", "remeasure"} : Reject(state, next, why)
         \/ Keep("stop", w)
  PROVE  LoopInv'
<1>0. /\ UNCHANGED <<attempts, saved, outside, edits, cur>> /\ terminal' \in {None} \cup Reasons
      /\ cur \in Attempted /\ Own /\ why # "success"
  BY DEF LoopInv, ledger, LedgerTypes, SessionTypes, OwnAttempt, SuccessIsProven, Attempted
<1>1. /\ fin' \in Endings /\ fin'.next \notin {"final", "succeed"}
      /\ pc' = "revert" \/ (pc' = "close" /\ fin'.kept)
      /\ why' # "success" /\ (fin'.next = "stop" => why' \in Reasons)
  <2>1. ASSUME NEW next \in {"loop", "stop", "remeasure"}, NEW r, Reject(state, next, r),
               r = w \/ (r = why /\ next # "stop")
        PROVE  /\ fin' \in Endings /\ fin'.next \notin {"final", "succeed"} /\ pc' = "revert"
               /\ why' # "success" /\ (fin'.next = "stop" => why' \in Reasons)
    BY <1>0, <2>1 DEF Reject, EndAttempt, Endings
  <2>2. ASSUME Keep("stop", w)
        PROVE  /\ fin' \in Endings /\ fin'.next = "stop" /\ pc' = "close" /\ fin'.kept
               /\ why' # "success" /\ why' \in Reasons
    BY <2>2 DEF Keep, EndAttempt, Endings, States
  <2> QED
    BY <2>1, <2>2
<1> QED
  BY <1>0, <1>1, EndingKeeps DEF Live

\* The candidate goes on to the next agent.
LEMMA JudgedKeeps ==
  ASSUME LoopInv, UNCHANGED <<ledger, outside, edits, cur, mem>>, pc = "judge", cur.file # None,
         Goto("triage") \/ Goto("verify")
  PROVE  LoopInv'
<1> USE DEF LoopInv
<1>1. SessionTypes' /\ EndingTypes' /\ TraceIsClosed' /\ OnTheWay' /\ SuccessIsProven'
  BY DEF SessionTypes, EndingTypes, TraceIsClosed, OnTheWay, SuccessIsProven, Places, Goto
<1>2. OwnAttempt' /\ PreimageIsBacked'
  BY LedgerUnwritten, Unwritten DEF OwnAttempt, Own, PreimageIsBacked, Goto
<1>3. AcceptedFollows'
  BY LedgerUnwritten, Unwritten DEF AcceptedFollows, Live, Goto
<1>4. LoopTypes'
  BY LedgerUnwritten, Unwritten DEF LoopTypes
<1> QED
  BY <1>1, <1>2, <1>3, <1>4, LedgerUnwritten, Unwritten

\* Marking the scenario of the attempt keeps the baseline and the owned files.
LEMMA MarkAlike ==
  ASSUME NEW m, NEW x \in Alike(m), NEW s \in Scenarios,
         NEW a \in {"planned", "unresolved", "defect"}
  PROVE  /\ [x EXCEPT !.board[s] = Scenario(a)] \in Alike(m)
         /\ Dull([x EXCEPT !.board[s] = Scenario(a)]) \in Alike(m)
         /\ Dull(x) \in Alike(m)
         /\ \A p \in {"ready", "replan"} : Dull([x EXCEPT !.board[s] = Scenario(a), !.plan = p]) \in Alike(m)
         /\ \A F \in SUBSET Files : Dull([x EXCEPT !.board[s] = Scenario(a), !.frozen = F]) \in Alike(m)
<1> DEFINE y == [x EXCEPT !.board[s] = Scenario(a)]
<1>1. Scenario(a) \in Marks
  BY DEF Scenario, Marks
<1>2. x \in LoopStates /\ Alike(x) = Alike(m)
  BY AlikeTrans
<1>3. y \in Alike(m)
  BY <1>1, <1>2, Boards
<1>4. y \in LoopStates /\ Alike(y) = Alike(m)
  BY <1>3, AlikeTrans
<1>5. \A z \in Alike(m) : Dull(z) \in Alike(m)
  BY AlikeTrans, Bookkeeping
<1>6. \A p \in {"ready", "replan"} : [y EXCEPT !.plan = p] \in Alike(m)
  <2> HIDE DEF y
  <2> QED
    BY <1>4, Bookkeeping
<1>7. \A F \in SUBSET Files : [y EXCEPT !.frozen = F] \in Alike(m)
  <2> HIDE DEF y
  <2> QED
    BY <1>4, Bookkeeping
<1>8. \A p : [x EXCEPT !.board[s] = Scenario(a), !.plan = p] = [y EXCEPT !.plan = p]
  OBVIOUS
<1>9. \A F : [x EXCEPT !.board[s] = Scenario(a), !.frozen = F] = [y EXCEPT !.frozen = F]
  OBVIOUS
<1>10. y = [x EXCEPT !.board[s] = Scenario(a)]
  OBVIOUS
<1> HIDE DEF y
<1> QED
  BY <1>3, <1>5, <1>6, <1>7, <1>8, <1>9, <1>10

\* A stale candidate may ask for a new baseline, and changes nothing else.
LEMMA RejectStaleKeeps ==
  ASSUME LoopInv, UNCHANGED <<ledger, outside, edits, cur>>, pc \in {"judge", "verify"},
         NEW m \in Alike(mem), NEW S, RejectStale(m, S)
  PROVE  LoopInv'
<1>1. "stopped" \in Reasons \ {"success"} /\ "failed" \in States \ {"claimed"}
  BY DEF Reasons, States
<1> DEFINE b == m.rebase \/ "freshness" \in S
<1>2. m \in LoopStates /\ Alike(m) = Alike(mem) /\ b \in BOOLEAN
  BY AlikeTrans DEF LoopStates
<1>3. mem' = Dull([m EXCEPT !.rebase = b])
  BY DEF RejectStale
<1> HIDE DEF b
<1>4. [m EXCEPT !.rebase = b] \in Alike(mem)
  BY <1>2, Bookkeeping
<1>5. mem' \in Alike(mem)
  <2> DEFINE x == [m EXCEPT !.rebase = b]
  <2> HIDE DEF x
  <2>1. x \in Alike(mem) /\ x \in LoopStates
    BY <1>4 DEF x, Alike
  <2>2. Dull(x) \in Alike(mem)
    BY <2>1, AlikeTrans, Bookkeeping
  <2> QED
    BY <1>3, <2>2 DEF x
<1> QED
  BY <1>1, <1>5, RejectKeeps DEF RejectStale

\* _evaluate: every verdict on a measurement.
LEMMA JudgeCandidateKeeps ==
  ASSUME LoopInv, JudgeCandidate
  PROVE  LoopInv'
<1>0. /\ UNCHANGED <<ledger, outside, edits, cur>> /\ pc = "judge" /\ cur.file # None /\ cur.scen \in Scenarios
      /\ mem \in LoopStates /\ mem \in Alike(mem)
      /\ "stopped" \in Reasons \ {"success"}
      /\ "failed" \in States \ {"claimed"} /\ "interrupted" \in States \ {"claimed"}
  BY DEF JudgeCandidate, fixed, bounds, LoopInv, SessionTypes, LoopTypes, Alike, Reasons, States
<1>1. Dull(mem) \in Alike(mem)
  BY <1>0, Bookkeeping
<1>2. ASSUME mem' = Dull(mem), Reject("failed", "stop", "stopped") \/ Keep("stop", "stopped")
      PROVE  LoopInv'
  BY <1>0, <1>1, <1>2, RejectKeeps
<1>3. ASSUME FailedMeasurement \/ UnusableMeasurement
      PROVE  LoopInv'
  <2>1. ASSUME NEW m \in ApproachRejected(mem), NEW after \in {"planned", "unresolved"},
               mem' = Dull([m EXCEPT !.board[cur.scen] = Scenario(after)]), Reject("failed", "loop", why)
        PROVE  LoopInv'
    <3>1. mem' \in Alike(mem)
      BY <1>0, <2>1, ApproachAlike, MarkAlike
    <3> QED
      BY <1>0, <2>1, <3>1, RejectKeeps
  <2>2. ASSUME mem' = Dull(mem), NEW next \in {"remeasure", "stop"}, Reject("failed", next, "stopped")
        PROVE  LoopInv'
    BY <1>0, <1>1, <2>2, RejectKeeps
  <2>3. ASSUME Goto("triage"), mem' = mem
        PROVE  LoopInv'
    BY <1>0, <2>3, JudgedKeeps
  <2> QED
    BY <1>3, <2>1, <2>2, <2>3 DEF FailedMeasurement, UnusableMeasurement
<1>4. ASSUME NEW S, RejectStale(mem, S)
      PROVE  LoopInv'
  BY <1>0, <1>4, RejectStaleKeeps
<1>5. ASSUME Goto("triage") \/ Goto("verify"), mem' = mem
      PROVE  LoopInv'
  BY <1>0, <1>5, JudgedKeeps
<1> QED
  BY <1>2, <1>3, <1>4, <1>5 DEF JudgeCandidate

\* _handle_defect rejects the candidate, and may freeze its path.
LEMMA TriageKeeps ==
  ASSUME LoopInv, Triage
  PROVE  LoopInv'
<1>0. /\ UNCHANGED <<ledger, outside, edits>> /\ pc = "triage" /\ cur.scen \in Scenarios
      /\ cur.file \in Files /\ mem \in LoopStates /\ mem \in Alike(mem)
      /\ "stopped" \in Reasons \ {"success"} /\ "failed" \in States \ {"claimed"}
  BY DEF Triage, fixed, bounds, LoopInv, SessionTypes, LoopTypes, Alike, Reasons, States, Measured
<1>1. ASSUME pc' = "stop", why' \in Reasons \ {"success"}, fin' = fin, cur' = cur, mem' \in Alike(mem)
      PROVE  LoopInv'
  <2>1. Thought
    BY <1>0, <1>1, ThoughtCases
  <2> QED
    BY <1>0, <1>1, <2>1, StopKeeps
<1> DEFINE frozen == [Called EXCEPT !.board[cur.scen] = Scenario("defect"), !.frozen = @ \cup {cur.file}]
           Result == /\ UNCHANGED cur
                     /\ \/ mem' = Dull(Called) /\ Reject("failed", "loop", why)
                        \/ mem' = Dull(Called) /\ Reject("failed", "stop", "stopped")
                        \/ mem' = Dull(frozen) /\ Reject("failed", "loop", why)
<1>2. Invoke(Result)
  BY DEF Triage
<1>3. ASSUME Called \in Alike(mem)
      PROVE  Dull(Called) \in Alike(mem) /\ Dull(frozen) \in Alike(mem)
  <2>1. Called.frozen \cup {cur.file} \in SUBSET Files
    BY <1>0, <1>3, AlikeTrans, Fields
  <2> QED
    BY <1>0, <1>3, <2>1, MarkAlike
<1> HIDE DEF frozen
<1>4. ASSUME Result, Called \in Alike(mem)
      PROVE  LoopInv'
  BY <1>0, <1>3, <1>4, RejectKeeps
<1>5. Result \in BOOLEAN
  OBVIOUS
<1> HIDE DEF Result
<1> QED
  BY <1>1, <1>2, <1>4, <1>5, InvokeCases

\* The accepted patch: on disk as it was measured, and owned from now on.
LEMMA AcceptKeeps ==
  ASSUME LoopInv, UNCHANGED <<ledger, outside, edits, cur>>, pc = "verify",
         StaleReasons(cur.rec, Expected) = {},
         mem' \in LoopStates, mem'.base = mem.base, mem'.accepted = Expected,
         EndAttempt("close", "completed", FALSE, FALSE, IF cur.rec.met THEN "final" ELSE "loop", why)
  PROVE  LoopInv'
<1> USE DEF LoopInv
<1>0. /\ UNCHANGED <<attempts, saved, outside, edits, cur>> /\ terminal' \in {None} \cup Reasons
      /\ cur \in Measured /\ Own /\ why # "success" /\ cur.file \in Files /\ mem.base # None
      /\ mem \in LoopStates /\ Last \in Nat /\ Last > 0
  BY DEF ledger, LedgerTypes, SessionTypes, OwnAttempt, SuccessIsProven, Measured, LoopTypes, Own, IsOpen,
         Last
<1>1. \A f \in Files : Expected[f] = IF f = cur.file THEN Last ELSE mem.accepted[f]
  BY <1>0, Fields DEF Expected
<1>2. disk[cur.file] = Last
  <2>1. Tampered(Expected) = {}
    BY DEF StaleReasons
  <2> QED
    BY <1>0, <1>1, <2>1 DEF Tampered, Absent
<1>3. /\ fin' \in Endings /\ fin'.next # "stop" /\ pc' = "close" /\ why' = why
      /\ fin'.next \in {"final", "succeed"} => fin'.state = "completed" /\ cur.rec.met
  BY DEF EndAttempt, Endings, States
<1>4. SessionTypes' /\ EndingTypes'
  BY <1>0, <1>3 DEF SessionTypes, EndingTypes, Places, Attempted
<1>5. OwnAttempt' /\ PreimageIsBacked'
  BY <1>0, <1>3, Unwritten DEF OwnAttempt, Own, PreimageIsBacked
<1>6. AcceptedFollows'
  BY <1>0, <1>1, <1>2, <1>3, Unwritten DEF AcceptedFollows, Live
<1>7. TraceIsClosed' /\ OnTheWay' /\ SuccessIsProven'
  BY <1>0, <1>1, <1>3, Unwritten DEF TraceIsClosed, OnTheWay, SuccessIsProven
<1>8. LoopTypes'
  BY <1>0, Unwritten DEF LoopTypes
<1> QED
  BY <1>0, <1>4, <1>5, <1>6, <1>7, <1>8, Unwritten

\* The state after the acceptance
LEMMA AcceptedState ==
  ASSUME LoopInv, pc = "verify", Called \in Alike(mem), NEW new \in SUBSET Outside(mem),
         NEW gain \in {0, Dull(mem).dull},
         NEW seen \in {VerifiedIn(cur.rec.world), Scenario("unresolved"), Scenario("planned")},
         mem' = [Extended(Called, new) EXCEPT !.board[cur.scen] = seen, !.dull = gain,
                                              !.accepted = Expected, !.bound = "same"]
  PROVE  mem' \in LoopStates /\ mem'.base = mem.base /\ mem'.accepted = Expected
<1>0. /\ cur \in Measured /\ cur.scen \in Scenarios /\ cur.file \in Files /\ mem \in LoopStates
      /\ cur.rec.world \in Worlds /\ Last \in 1 .. MaxAttempts
  BY LoopAssumption DEF LoopInv, SessionTypes, LoopTypes, Measured, OwnAttempt, Own, IsOpen, Last, LedgerTypes
<1>1. gain \in 0 .. Window
  <2>1. Dull(mem) \in LoopStates
    BY <1>0, Bookkeeping, AlikeTrans
  <2> QED
    BY <2>1, Fields, LoopAssumption
<1>2. seen \in Marks
  BY <1>0 DEF VerifiedIn, Scenario, Marks
<1>3. Expected \in [Files -> Owned]
  <2>1. Last \in Owned /\ mem.accepted \in [Files -> Owned]
    BY <1>0, LoopAssumption DEF Owned, LoopStates
  <2> QED
    BY <1>0, <2>1 DEF Expected
<1> DEFINE x == Extended(Called, new)
           y == [x EXCEPT !.board[cur.scen] = seen]
<1>4. x \in LoopStates /\ Alike(x) = Alike(mem)
  BY AlikeTrans, Boards
<1>5. mem' = [y EXCEPT !.dull = gain, !.accepted = Expected, !.bound = "same"]
  OBVIOUS
<1> HIDE DEF x
<1>6. y \in Alike(mem)
  BY <1>0, <1>2, <1>4, Boards
<1>7. y \in LoopStates /\ y.base = mem.base
  BY <1>6, AlikeTrans
<1> HIDE DEF y
<1> QED
  BY <1>1, <1>3, <1>5, <1>7 DEF LoopStates

\* _accepted_measurement: the verifier's answer, and the checks behind it.
LEMMA VerifyKeeps ==
  ASSUME LoopInv, Verify
  PROVE  LoopInv'
<1>0. /\ UNCHANGED <<ledger, outside, edits>> /\ pc = "verify" /\ cur.scen \in Scenarios
      /\ cur.file \in Files /\ mem \in LoopStates /\ mem \in Alike(mem)
      /\ {"stopped", "paused", "cancelled"} \subseteq Reasons \ {"success"}
      /\ {"failed", "completed", "interrupted"} \subseteq States \ {"claimed"}
  BY DEF Verify, fixed, bounds, LoopInv, SessionTypes, LoopTypes, Alike, Reasons, States, Measured
<1>1. ASSUME pc' = "stop", why' \in Reasons \ {"success"}, fin' = fin, cur' = cur, mem' \in Alike(mem)
      PROVE  LoopInv'
  <2>1. Thought
    BY <1>0, <1>1, ThoughtCases
  <2> QED
    BY <1>0, <1>1, <2>1, StopKeeps
<1>2. ASSUME Unconvinced, cur' = cur, Called \in Alike(mem)
      PROVE  LoopInv'
  <2>1. ASSUME mem' = Dull(Called), NEW next \in {"loop", "stop"}, Reject("failed", next, "stopped")
        PROVE  LoopInv'
    <3>1. mem' \in Alike(mem)
      BY <1>2, <2>1, AlikeTrans, Bookkeeping
    <3> QED
      BY <1>0, <1>2, <2>1, <3>1, RejectKeeps
  <2>2. ASSUME NEW m \in ApproachRejected(Called), NEW after \in {"planned", "unresolved"},
               NEW plan \in {"ready", "replan"},
               mem' = Dull([m EXCEPT !.board[cur.scen] = Scenario(after), !.plan = plan]),
               Reject("completed", "loop", why)
        PROVE  LoopInv'
    <3>1. m \in Alike(mem)
      BY <1>2, <2>2, ApproachAlike
    <3>2. mem' \in Alike(mem)
      BY <1>0, <2>2, <3>1, MarkAlike
    <3> QED
      BY <1>0, <1>2, <2>2, <3>2, RejectKeeps
  <2> QED
    BY <1>2, <2>1, <2>2 DEF Unconvinced
<1>3. ASSUME Convinced, cur' = cur, Called \in Alike(mem)
      PROVE  LoopInv'
  <2> DEFINE stale == StaleReasons(cur.rec, Expected)
  <2>1. CASE stale # {}
    BY <1>0, <1>3, <2>1, RejectStaleKeeps DEF Convinced
  <2>2. CASE mem' = Called /\ Keep("stop", "cancelled")
    BY <1>0, <1>3, <2>2, RejectKeeps
  <2>3. CASE mem' = Dull(Called) /\ Reject("interrupted", "stop", "paused")
    <3>1. mem' \in Alike(mem)
      BY <1>3, <2>3, AlikeTrans, Bookkeeping
    <3> QED
      BY <1>0, <1>3, <2>3, <3>1, RejectKeeps
  <2>4. CASE stale = {} /\ Signal \notin {"cancel", "pause"}
    <3>1. PICK new \in SUBSET Outside(mem), gain \in {0, Dull(mem).dull},
               seen \in {VerifiedIn(cur.rec.world), Scenario("unresolved"), Scenario("planned")} :
            mem' = [Extended(Called, new) EXCEPT !.board[cur.scen] = seen, !.dull = gain,
                                                 !.accepted = Expected, !.bound = "same"]
      BY <1>3, <2>4 DEF Convinced
    <3>2. mem' \in LoopStates /\ mem'.base = mem.base /\ mem'.accepted = Expected
      BY <1>0, <1>3, <3>1, AcceptedState
    <3>3. EndAttempt("close", "completed", FALSE, FALSE, IF cur.rec.met THEN "final" ELSE "loop", why)
      BY <1>3, <2>4 DEF Convinced
    <3> QED
      BY <1>0, <1>3, <2>4, <3>2, <3>3, AcceptKeeps
  <2> QED
    BY <1>3, <2>1, <2>2, <2>3, <2>4 DEF Convinced
<1>4. Invoke((Unconvinced \/ Convinced) /\ UNCHANGED cur)
  BY DEF Verify
<1>5. ((Unconvinced \/ Convinced) /\ UNCHANGED cur) \in BOOLEAN
  OBVIOUS
<1> QED
  BY <1>1, <1>2, <1>3, <1>4, <1>5, InvokeCases

\* A revert comes to its receipt: nothing of the attempt is on disk, or the receipt
\* says so.
LEMMA RevertedKeeps ==
  ASSUME LoopInv, UNCHANGED <<ledger, world, mem, cur, edits>>, pc \in {"revert", "restore"}, pc' = "close",
         \/ UNCHANGED <<disk, fin, why>> /\ (cur.file \in Files => disk[cur.file] # Last)
         \/ /\ disk' = disk
            /\ fin' = [fin EXCEPT !.kept = TRUE, !.next = IF fin.cautious THEN "stop" ELSE @]
            /\ why' = IF fin.cautious THEN "recovery" ELSE why
         \/ UNCHANGED <<fin, why>> /\ cur.file \in Files /\ disk' = [disk EXCEPT ![cur.file] = cur.pre]
  PROVE  LoopInv'
<1> USE DEF LoopInv
<1>0. /\ attempts' = attempts /\ saved' = saved /\ terminal' = terminal /\ world' = world /\ edits' = edits
      /\ mem' = mem /\ cur' = cur
      /\ cur \in Attempted /\ Own /\ why # "success"
      /\ fin \in Endings /\ fin.next \notin {"final", "succeed"} /\ (fin.next = "stop" => why \in Reasons)
      /\ cur.file \in Files \cup {None} /\ cur.pre \in Contents
  BY DEF ledger, SessionTypes, EndingTypes, OwnAttempt, SuccessIsProven, Recovered, Candidates, Measured,
         Attempted
<1>1. /\ Last \in Nat /\ Last > 0 /\ Last <= MaxAttempts /\ attempts[Last].state = "claimed"
      /\ Last' = Last /\ (IsOpen' <=> IsOpen)
      /\ attempts[Last].file = cur.file /\ attempts[Last].pre = cur.pre
  BY <1>0 DEF Own, IsOpen, Last, LedgerTypes
<1>2. \A f \in Files : disk[f] \in Contents /\ disk[f] \in Int /\ saved.accepted[f] \in Nat
  BY OwnedIsNat, Fields DEF OutsideTypes, LoopTypes
<1>3. /\ fin' \in Endings /\ fin'.next \notin {"final", "succeed"} /\ why' # "success"
      /\ fin'.next = "stop" => why' \in Reasons
  <2>1. CASE UNCHANGED <<fin, why>>
    BY <1>0, <2>1
  <2>2. CASE /\ fin' = [fin EXCEPT !.kept = TRUE, !.next = IF fin.cautious THEN "stop" ELSE @]
             /\ why' = IF fin.cautious THEN "recovery" ELSE why
    BY <1>0, <2>2 DEF Endings, Reasons
  <2> QED
    BY <2>1, <2>2
<1>4. \A f \in Files : \/ disk'[f] = disk[f]
                       \/ f = cur.file /\ disk'[f] = cur.pre
  BY DEF OutsideTypes
<1>5. /\ Backed(cur.pre, cur.file) /\ cur.pre \in Int
      /\ cur.file \in Files => \/ mem.accepted[cur.file] = saved.accepted[cur.file]
                               \/ cur.pre # saved.accepted[cur.file]
  BY <1>0, OwnedIsNat DEF PreimageIsBacked
<1>6. disk' \in [Files -> Contents]
  BY <1>0 DEF OutsideTypes
<1>7. LedgerTypes' /\ OutsideTypes' /\ LoopTypes'
  BY <1>0, <1>1, <1>6 DEF LedgerTypes, OutsideTypes, LoopTypes
<1>8. OrdinalsNamed'
  <2>1. cur.pre > 0 => cur.pre <= Last /\ attempts[cur.pre].file = cur.file
    BY <1>1, <1>5 DEF Backed
  <2> QED
    BY <1>0, <1>1, <1>2, <1>4, <2>1 DEF OrdinalsNamed
<1>9. LeftoverIsRecorded'
  <2>1. cur.pre > 0 => attempts[cur.pre].kept \/ saved.accepted[cur.file] = cur.pre
    BY <1>5 DEF Backed
  <2> QED
    BY <1>0, <1>2, <1>4, <2>1 DEF LeftoverIsRecorded
<1>10. SessionTypes' /\ EndingTypes'
  BY <1>0, <1>3 DEF SessionTypes, EndingTypes, Places
<1>11. OwnAttempt' /\ PreimageIsBacked' /\ OnTheWay' /\ SuccessIsProven'
  BY <1>0, <1>1, <1>3 DEF OwnAttempt, Own, PreimageIsBacked, Backed, OnTheWay, SuccessIsProven
<1>12. AcceptedFollows'
  <2>1. \A f \in Files : \/ mem.accepted[f] = saved.accepted[f]
                         \/ mem.accepted[f] = Absent /\ disk[f] # saved.accepted[f]
    BY <1>0 DEF AcceptedFollows, Live
  <2>2. \A f \in Files : \/ mem.accepted[f] = saved.accepted[f]
                         \/ mem.accepted[f] = Absent /\ disk'[f] # saved.accepted[f]
    BY <1>4, <1>5, <2>1
  <2> QED
    BY <1>0, <2>2 DEF AcceptedFollows
<1>13. TraceIsClosed'
  <2>1. ASSUME ~fin'.kept, cur.file \in Files
        PROVE  disk'[cur.file] # Last
    <3>1. cur.pre # Last
      <4>1. cur.pre > 0 => attempts[cur.pre].state # "claimed"
        BY <1>5 DEF Backed
      <4> QED
        BY <1>1, <4>1
    <3>2. fin' # [fin EXCEPT !.kept = TRUE, !.next = IF fin.cautious THEN "stop" ELSE @]
      BY <1>0, <2>1 DEF Endings
    <3> QED
      BY <2>1, <3>1, <3>2 DEF OutsideTypes
  <2> QED
    BY <1>0, <1>1, <2>1 DEF TraceIsClosed
<1> QED
  BY <1>7, <1>8, <1>9, <1>10, <1>11, <1>12, <1>13

\* workspace.revert: the check, the write and their failure.
LEMMA RevertKeeps ==
  ASSUME LoopInv, Revert \/ Restore \/ RevertFails
  PROVE  LoopInv'
<1> USE DEF LoopInv
<1>0. /\ UNCHANGED <<ledger, world, mem, cur, edits>> /\ cur \in Attempted /\ Own
      /\ cur.file \in Files \cup {None}
  BY DEF Revert, Restore, RevertFails, outside, private, fixed, bounds, SessionTypes, OwnAttempt,
         Recovered, Candidates, Measured, Attempted
<1>1. CASE Revert /\ (cur.file = None \/ disk[cur.file] # Last)
  <2>1. UNCHANGED <<disk, fin, why>> /\ pc = "revert" /\ pc' = "close"
    BY <1>1 DEF Revert, outside, private
  <2> QED
    BY <1>0, <1>1, <2>1, LoopSentinel, RevertedKeeps
<1>2. CASE Restore
  <2>1. /\ UNCHANGED <<fin, why>> /\ pc = "restore" /\ pc' = "close" /\ cur.file \in Files
        /\ disk' = [disk EXCEPT ![cur.file] = cur.pre]
    BY <1>0, <1>2 DEF Restore, private, SessionTypes
  <2> QED
    BY <1>0, <2>1, RevertedKeeps
<1>3. CASE RevertFails
  BY <1>0, <1>3, RevertedKeeps DEF RevertFails, outside
<1>4. CASE Revert /\ ~(cur.file = None \/ disk[cur.file] # Last)
  <2>1. /\ UNCHANGED <<ledger, attempts, saved, outside, edits, mem, cur, fin, why>>
        /\ pc = "revert" /\ pc' = "restore" /\ cur.file # None
    BY <1>4 DEF Revert, private, fixed, bounds, ledger
  <2>2. SessionTypes' /\ EndingTypes' /\ OnTheWay' /\ SuccessIsProven'
    BY <2>1 DEF SessionTypes, EndingTypes, OnTheWay, SuccessIsProven, Places
  <2>3. OwnAttempt' /\ PreimageIsBacked' /\ AcceptedFollows' /\ TraceIsClosed'
    BY <2>1, LedgerUnwritten, Unwritten DEF OwnAttempt, Own, PreimageIsBacked, AcceptedFollows, Live, TraceIsClosed
  <2>4. LoopTypes'
    BY <2>1, LedgerUnwritten, Unwritten DEF LoopTypes
  <2> QED
    BY <2>1, <2>2, <2>3, <2>4, LedgerUnwritten, Unwritten
<1> QED
  BY <1>1, <1>2, <1>3, <1>4

\* The receipt of the attempt, and the loop's state in its evidence.
LEMMA CloseKeeps ==
  ASSUME LoopInv, Close
  PROVE  LoopInv'
<1> USE DEF LoopInv
<1>0. /\ UNCHANGED <<terminal, outside, edits>> /\ pc = "close" /\ disk' = disk /\ world' = world
      /\ saved' = mem /\ attempts' = [attempts EXCEPT ![Last].state = fin.state, ![Last].kept = fin.kept]
      /\ mem \in LoopStates /\ mem \in Alike(mem) /\ why # "success" /\ fin \in Endings
      /\ fin.state \in States \ {"claimed"} /\ fin.kept \in BOOLEAN
      /\ cur \in Attempted /\ Own
  BY DEF Close, fixed, bounds, outside, LoopTypes, Alike, SuccessIsProven, SessionTypes, EndingTypes,
         OwnAttempt, Endings
<1> DEFINE row == [attempts[Last] EXCEPT !.state = fin.state, !.kept = fin.kept]
<1>1. Last \in Nat /\ Last > 0 /\ attempts[Last] \in Rows /\ attempts \in Seq(Rows)
  BY <1>0 DEF Own, IsOpen, Last, LedgerTypes
<1>2. /\ row \in Rows /\ row.file = attempts[Last].file /\ row.state = fin.state /\ row.kept = fin.kept
  BY <1>0, <1>1 DEF Rows
<1>3. attempts' = [attempts EXCEPT ![Last] = row]
  BY <1>0, <1>1
<1> HIDE DEF row
<1>4. /\ attempts' \in Seq(Rows) /\ Last' = Last
      /\ \A n \in 1 .. Last : attempts'[n] = IF n = Last THEN row ELSE attempts[n]
  BY <1>1, <1>2, <1>3, ExceptSeq DEF Last
<1>5. ~IsOpen' /\ \A n \in 1 .. Last : attempts'[n].state # "claimed" /\ attempts'[n].file = attempts[n].file
  BY <1>0, <1>1, <1>2, <1>4 DEF IsOpen, LedgerTypes
<1>6. mem' \in LoopStates
  <2>1. [mem EXCEPT !.rebase = TRUE] \in LoopStates
    BY <1>0, Bookkeeping, AlikeTrans
  <2> QED
    BY <1>0, <2>1, FreshIsLoopState DEF Close, Gone
<1>7. LedgerTypes' /\ OutsideTypes' /\ LoopTypes'
  BY <1>0, <1>4, <1>5, <1>6 DEF LedgerTypes, OutsideTypes, LoopTypes
<1>8. \A f \in Files : disk[f] \in Int /\ saved.accepted[f] \in Nat /\ mem.accepted[f] \in Nat
  BY <1>0, OwnedIsNat, Fields DEF OutsideTypes, LoopTypes
<1>9. \A f \in Files : \/ mem.accepted[f] = saved.accepted[f]
                       \/ mem.accepted[f] = Absent /\ disk[f] # saved.accepted[f]
                       \/ f = cur.file /\ mem.accepted[f] = Last /\ (disk[f] = Last \/ disk[f] <= 0)
  BY <1>0 DEF AcceptedFollows, Live
<1>10. attempts[Last].file = cur.file
  BY <1>0 DEF Own
<1>11. OrdinalsNamed'
  BY <1>0, <1>1, <1>4, <1>5, <1>8, <1>9, <1>10 DEF OrdinalsNamed, Absent
<1>12. LeftoverIsRecorded'
  <2>1. ASSUME NEW f \in Files, disk[f] > 0
        PROVE  attempts'[disk[f]].kept \/ mem.accepted[f] = disk[f]
    <3>1. disk[f] \in 1 .. Last /\ attempts[disk[f]].file = f
      BY <1>1, <1>8, <2>1 DEF OrdinalsNamed
    <3>2. CASE disk[f] = Last
      BY <1>0, <1>1, <1>2, <1>4, <1>10, <3>1, <3>2 DEF TraceIsClosed
    <3>3. CASE disk[f] # Last
      <4>1. attempts'[disk[f]].kept = attempts[disk[f]].kept
        BY <1>4, <3>1, <3>3
      <4>2. attempts[disk[f]].state # "claimed"
        BY <1>1, <3>1, <3>3 DEF LedgerTypes
      <4>3. attempts[disk[f]].kept \/ saved.accepted[f] = disk[f]
        BY <2>1, <4>2 DEF LeftoverIsRecorded
      <4> QED
        BY <1>8, <1>9, <2>1, <3>3, <4>1, <4>3
    <3> QED
      BY <3>2, <3>3
  <2> QED
    BY <1>0, <2>1 DEF LeftoverIsRecorded
<1>13. CASE fin.next = "idle"
  <2>1. Gone
    BY <1>13 DEF Close
  <2>2. SessionTypes' /\ EndingTypes' /\ OwnAttempt' /\ PreimageIsBacked' /\ AcceptedFollows'
        /\ TraceIsClosed' /\ OnTheWay' /\ SuccessIsProven'
    BY <1>5, <2>1, LoopSentinel DEF Gone, SessionTypes, EndingTypes, OwnAttempt, PreimageIsBacked,
       AcceptedFollows, Live, TraceIsClosed, OnTheWay, SuccessIsProven, Places
  <2> QED
    BY <1>7, <1>11, <1>12, <2>2
<1>14. CASE fin.next # "idle"
  <2>1. /\ UNCHANGED <<cur, fin, why>> /\ mem' \in Alike(mem)
        /\ pc' = IF fin.next = "remeasure" THEN "loop" ELSE fin.next
        /\ fin.next # "remeasure" => mem' = mem
    BY <1>0, <1>14, Bookkeeping DEF Close, Goto
  <2>2. /\ pc' \in {"loop", "stop", "final", "succeed"} /\ (pc' = "stop" => why \in Reasons)
        /\ pc' \in {"final", "succeed"} =>
             /\ fin.state = "completed" /\ mem.base # None /\ cur \in Measured /\ cur.rec.met /\ mem' = mem
    BY <1>0, <1>14, <2>1 DEF EndingTypes, Endings
  <2>3. SessionTypes'
    BY <1>0, <2>1, <2>2 DEF SessionTypes, Places
  <2>4. EndingTypes' /\ TraceIsClosed' /\ SuccessIsProven'
    BY <1>0, <2>1, <2>2 DEF EndingTypes, TraceIsClosed, SuccessIsProven
  <2>5. OwnAttempt' /\ PreimageIsBacked'
    BY <1>5, <2>2 DEF OwnAttempt, PreimageIsBacked
  <2>6. AcceptedFollows'
    BY <1>0, <2>1 DEF AcceptedFollows, Alike
  <2>7. OnTheWay'
    BY <1>0, <1>1, <1>2, <1>4, <2>1, <2>2 DEF OnTheWay
  <2> QED
    BY <1>7, <1>11, <1>12, <2>3, <2>4, <2>5, <2>6, <2>7
<1> QED
  BY <1>13, <1>14

\* _try_finalize leads to success only with the saved baseline and files.
LEMMA TryFinalizeKeeps ==
  ASSUME LoopInv, TryFinalize
  PROVE  LoopInv'
<1>0. /\ UNCHANGED <<ledger, outside, edits>> /\ pc = "final" /\ "stopped" \in Reasons \ {"success"}
      /\ mem \in LoopStates /\ mem \in Alike(mem)
  BY DEF LoopInv, LoopTypes, Alike, TryFinalize, fixed, bounds, Reasons
<1>1. ASSUME pc' = "stop", why' \in Reasons \ {"success"}, fin' = fin, cur' = cur, mem' \in Alike(mem)
      PROVE  LoopInv'
  <2>1. Thought
    BY <1>0, <1>1, ThoughtCases
  <2> QED
    BY <1>0, <1>1, <2>1, StopKeeps
<1>2. ASSUME mem' \in Alike(mem) \/ mem' = Invalidated(mem, Tampered(mem.accepted)), cur' = cur, Goto("loop")
      PROVE  LoopInv'
  <2>1. Thought
    BY <1>0, <1>2, ThoughtCases
  <2> QED
    BY <1>0, <1>2, <2>1, ReturnKeeps DEF Goto
<1>3. ASSUME Gone
      PROVE  LoopInv'
  BY <1>0, <1>3, LedgerUnwritten, GoneKeeps
<1>4. ASSUME mem' \in Alike(mem), cur' = cur, Goto("succeed")
      PROVE  LoopInv'
  <2> USE DEF LoopInv
  <2>1. SessionTypes' /\ EndingTypes' /\ TraceIsClosed' /\ SuccessIsProven'
    BY <1>0, <1>4 DEF Goto, SessionTypes, EndingTypes, TraceIsClosed, SuccessIsProven, Places
  <2>2. OnTheWay' /\ OwnAttempt' /\ PreimageIsBacked'
    BY <1>0, <1>4, LedgerUnwritten, Unwritten DEF Goto, OnTheWay, OwnAttempt, PreimageIsBacked, Alike
  <2>3. AcceptedFollows'
    BY <1>0, <1>4, LedgerUnwritten, Unwritten DEF AcceptedFollows, Live, Alike
  <2>4. LoopTypes'
    BY <1>0, <1>4, LedgerUnwritten, Unwritten DEF LoopTypes, Alike
  <2> QED
    BY <1>0, <2>1, <2>2, <2>3, <2>4, LedgerUnwritten, Unwritten
<1>5. ASSUME FinalVerdict, cur' = cur, Called \in Alike(mem)
      PROVE  LoopInv'
  <2>1. \A new : Extended(Called, new) \in Alike(mem)
    BY <1>5, AlikeTrans, Boards
  <2>2. [Called EXCEPT !.plan = "replan"] \in Alike(mem)
    BY <1>5, AlikeTrans, Bookkeeping
  <2> QED
    BY <1>2, <1>4, <1>5, <2>1, <2>2 DEF FinalVerdict
<1>6. ASSUME Invoke(FinalVerdict /\ UNCHANGED cur)
      PROVE  LoopInv'
  <2>1. (FinalVerdict /\ UNCHANGED cur) \in BOOLEAN
    OBVIOUS
  <2> QED
    BY <1>1, <1>5, <1>6, <2>1, InvokeCases
<1>7. ASSUME StopFor("stopped"), UNCHANGED <<mem, cur>>
      PROVE  LoopInv'
  BY <1>0, <1>1, <1>7 DEF StopFor
<1> QED
  BY <1>0, <1>2, <1>3, <1>6, <1>7 DEF TryFinalize

\* _succeed: nothing is stale, so the measurement is of what is owned.
LEMMA SucceedKeeps ==
  ASSUME LoopInv, Succeed
  PROVE  LoopInv'
<1>0. /\ UNCHANGED <<ledger, outside, edits, cur>> /\ pc = "succeed"
      /\ {"stopped", "success"} \subseteq Reasons /\ SignalReason \in Reasons \ {"success"}
      /\ mem \in LoopStates /\ mem \in Alike(mem)
  BY DEF LoopInv, LoopTypes, Alike, Succeed, fixed, bounds, Reasons, SignalReason
<1>1. mem' \in Alike(mem) \/ mem' = Invalidated(mem, Tampered(mem.accepted))
  BY <1>0 DEF Succeed
<1>2. Thought
  BY <1>0, <1>1, ThoughtCases
<1>3. ASSUME StaleReasons(cur.rec, mem.accepted) = {}
      PROVE  Proven
  <2>1. /\ Last > 0 /\ attempts[Last].state = "completed" /\ cur.rec.met /\ mem.base # None
        /\ mem.base = saved.base /\ mem.accepted = saved.accepted /\ cur \in Measured
    BY <1>0 DEF LoopInv, OnTheWay, SessionTypes
  <2>2. disk = cur.rec.tree /\ world = cur.rec.world /\ world = mem.base /\ Tampered(mem.accepted) = {}
    BY <1>3, <2>1 DEF StaleReasons
  <2> QED
    BY <2>1, <2>2 DEF Proven, Tampered
<1>4. CASE Goto("loop")
  BY <1>0, <1>2, <1>4, ReturnKeeps DEF Goto
<1>5. CASE \E w \in Reasons \ {"success"} : StopFor(w)
  BY <1>0, <1>2, <1>5, StopKeeps DEF StopFor
<1>6. CASE StaleReasons(cur.rec, mem.accepted) = {} /\ StopFor("success")
  BY <1>0, <1>2, <1>3, <1>6, StopKeeps DEF StopFor
<1> QED
  BY <1>0, <1>4, <1>5, <1>6 DEF Succeed

\* record_terminal: a success is recorded with its proof at hand.
LEMMA StopRecords ==
  ASSUME LoopInv, Stop
  PROVE  LoopInv' /\ (terminal' = "success" /\ terminal # "success" => Proven)
<1>0. /\ UNCHANGED <<attempts, saved, outside, edits>> /\ pc = "stop"
      /\ terminal' = IF Final(terminal) THEN terminal ELSE IF lost THEN "recovery" ELSE why
      /\ mem \in LoopStates /\ mem \in Alike(mem) /\ why \in Reasons /\ terminal \in {None} \cup Reasons
  BY DEF LoopInv, LoopTypes, Alike, Stop, fixed, bounds, EndingTypes, LedgerTypes
<1>1. terminal' \in {None} \cup Reasons
  BY <1>0 DEF Reasons
<1>2. terminal' = "success" /\ terminal # "success" => Proven
  BY <1>0 DEF LoopInv, SuccessIsProven
<1>3. CASE Gone
  BY <1>0, <1>1, <1>2, <1>3, GoneKeeps
<1>4. CASE /\ IsOpen /\ cur # None /\ UNCHANGED <<mem, cur>>
           /\ EndAttempt("revert", "interrupted", FALSE, FALSE, "idle", why)
  <2>1. fin' \in Endings /\ fin'.next = "idle" /\ pc' = "revert" /\ why' = why
    BY <1>4 DEF EndAttempt, Endings, States
  <2>2. Own /\ Live /\ cur \in Attempted
    BY <1>0, <1>4 DEF LoopInv, OwnAttempt, Live, SessionTypes
  <2>3. why # "success"
    BY <1>4 DEF LoopInv, SuccessIsProven, Proven, IsOpen
  <2> QED
    BY <1>0, <1>1, <1>2, <1>4, <2>1, <2>2, <2>3, EndingKeeps
<1> QED
  BY <1>3, <1>4 DEF Stop

\* The user's edits bring no ordinal to the disk.
LEMMA EditKeeps ==
  ASSUME LoopInv, Edit
  PROVE  LoopInv'
<1> USE DEF LoopInv
<1>0. /\ attempts' = attempts /\ saved' = saved /\ terminal' = terminal /\ pc' = pc
      /\ mem' = mem /\ cur' = cur /\ fin' = fin /\ why' = why
      /\ edits' = edits + 1 /\ edits < MaxEdits
      /\ Last' = Last /\ (IsOpen' <=> IsOpen)
  BY DEF Edit, ledger, private, Last, IsOpen
<1>1. /\ edits \in 0 .. MaxEdits /\ Last \in Nat /\ \A f \in Files : saved.accepted[f] \in Nat
      /\ \A f \in Files : disk[f] \in Int
  BY Numbers DEF OutsideTypes
<1>2. \/ disk' = disk
      \/ \E f \in Files : \E c \in {-(edits + 2), Absent} : disk' = [disk EXCEPT ![f] = c]
  BY DEF Edit
<1>3. disk' \in [Files -> Contents] /\ \A f \in Files : disk'[f] = disk[f] \/ disk'[f] <= 0
  <2>1. \A c \in {-(edits + 2), Absent} : c \in Contents /\ c <= 0
    BY <1>0, <1>1, LoopAssumption DEF Contents, Absent
  <2> QED
    BY <1>2, <2>1 DEF OutsideTypes
<1>4. world' \in Worlds /\ world'.prod <= edits'
  <2>1. world \in Worlds /\ world.prod <= edits /\ edits \in 0 .. MaxEdits /\ MaxEdits \in Nat
    BY LoopAssumption DEF OutsideTypes
  <2>2. world' = world \/ world' = [world EXCEPT !.prod = @ + 1] \/ world' = [world EXCEPT !.rev = 1]
    BY DEF Edit
  <2> QED
    BY <1>0, <2>1, <2>2 DEF Worlds
<1>5. edits' \in 0 .. MaxEdits
  BY <1>0, LoopAssumption DEF OutsideTypes
<1>6. LedgerTypes' /\ LoopTypes' /\ OutsideTypes'
  BY <1>0, <1>3, <1>4, <1>5 DEF LedgerTypes, LoopTypes, OutsideTypes
<1>7. OrdinalsNamed' /\ LeftoverIsRecorded'
  <2>0. \A f \in Files : disk'[f] \in Int
    BY <1>3, OwnedIsNat
  <2>1. \A f \in Files : disk'[f] > 0 => disk'[f] = disk[f]
    BY <1>1, <1>3, <2>0
  <2> QED
    BY <1>0, <2>1 DEF OrdinalsNamed, LeftoverIsRecorded
<1>8. SessionTypes' /\ EndingTypes' /\ OwnAttempt' /\ PreimageIsBacked' /\ OnTheWay' /\ SuccessIsProven'
  BY <1>0 DEF SessionTypes, EndingTypes, OwnAttempt, Own, PreimageIsBacked, Backed, OnTheWay, SuccessIsProven,
              Proven
<1>9. AcceptedFollows'
  <2>1. \A f \in Files : disk'[f] # disk[f] => disk'[f] <= 0
    BY <1>3
  <2> QED
    BY <1>0, <1>1, <2>1 DEF AcceptedFollows, Live, Absent
<1>10. TraceIsClosed'
  BY <1>0, <1>1, <1>3 DEF TraceIsClosed, OwnAttempt, Own, IsOpen
<1> QED
  BY <1>6, <1>7, <1>8, <1>9, <1>10

\* A command writes the terminal row, a lost lease nothing.
LEMMA SignalKeeps ==
  ASSUME LoopInv, LoseLease \/ \E r \in {"paused", "cancelled"} : Control(r)
  PROVE  LoopInv' /\ terminal' \in {terminal, "paused", "cancelled"} /\ disk' = disk
<1> USE DEF LoopInv
<1>0. /\ UNCHANGED <<attempts, saved, outside, edits>> /\ terminal' \in {terminal, "paused", "cancelled"}
      /\ pc' = pc /\ mem' = mem /\ cur' = cur /\ fin' = fin /\ why' = why
  BY DEF LoseLease, Control, ledger, private
<1>1. terminal' \in {None} \cup Reasons
  BY <1>0 DEF LedgerTypes, Reasons
<1>2. SessionTypes' /\ EndingTypes' /\ OwnAttempt' /\ PreimageIsBacked' /\ OnTheWay' /\ SuccessIsProven'
  BY <1>0, <1>1, Unwritten
     DEF SessionTypes, EndingTypes, OwnAttempt, Own, PreimageIsBacked, OnTheWay, SuccessIsProven, Proven
<1>3. AcceptedFollows' /\ TraceIsClosed'
  BY <1>0, <1>1, Unwritten DEF AcceptedFollows, Live, TraceIsClosed
<1>4. LoopTypes'
  BY <1>0, <1>1, Unwritten DEF LoopTypes
<1> QED
  BY <1>0, <1>1, <1>2, <1>3, <1>4, Unwritten

-----------------------------------------------------------------------------
(* Every step *)

\* A new request, with no file of its own on disk.
LEMMA InitLoop == Init => LoopInv
<1> SUFFICES ASSUME Init PROVE LoopInv
  OBVIOUS
<1>1. Last = 0 /\ attempts \in Seq(Rows)
  BY DEF Init, Last
<1>2. LedgerTypes /\ LoopTypes /\ OutsideTypes
  BY <1>1, FreshIsLoopState, LoopAssumption
     DEF Init, LedgerTypes, LoopTypes, OutsideTypes, Worlds, Contents, Absent, Given
<1>3. SessionTypes /\ EndingTypes /\ AcceptedFollows /\ TraceIsClosed /\ OnTheWay /\ SuccessIsProven
  BY LoopSentinel DEF Init, SessionTypes, EndingTypes, AcceptedFollows, Live, TraceIsClosed, OnTheWay,
                      SuccessIsProven, Places
<1>4. OwnAttempt /\ PreimageIsBacked
  BY <1>1 DEF Init, OwnAttempt, PreimageIsBacked, IsOpen
<1>5. OrdinalsNamed /\ LeftoverIsRecorded
  BY FreshIsLoopState DEF Init, OrdinalsNamed, LeftoverIsRecorded, Absent, Given
<1> QED
  BY <1>2, <1>3, <1>4, <1>5 DEF LoopInv

\* A step keeps the invariant and records no success without its proof.
LEMMA NextKeepsLoop ==
  ASSUME LoopInv, starts \in Nat, [Next]_vars
  PROVE  /\ LoopInv' /\ starts' \in Nat
         /\ terminal' = "success" /\ terminal # "success" => Proven
<1> DEFINE Goal == /\ LoopInv' /\ starts' \in Nat
                   /\ terminal' = "success" /\ terminal # "success" => Proven
<1>1. ASSUME LoopInv', starts' = starts, terminal' = terminal
      PROVE  Goal
  BY <1>1
<1>2. ASSUME \/ LoopTop \/ Plateau \/ Plan \/ Build \/ NoActionable \/ Gate \/ Claim \/ Run \/ Diagnose
             \/ JudgeBaseline \/ JudgeCandidate \/ Triage \/ Verify \/ Close \/ TryFinalize \/ Succeed
             \/ Apply \/ Write
      PROVE  Goal
  <2>1. starts' = starts /\ terminal' = terminal
    BY <1>2 DEF LoopTop, Plateau, Plan, Build, NoActionable, Gate, Claim, Run, Diagnose, JudgeBaseline,
                JudgeCandidate, Triage, Verify, Close, TryFinalize, Succeed, Apply, Write, ledger, fixed, bounds
  <2> HIDE DEF Goal
  <2> QED
    BY <1>1, <1>2, <2>1, LoopTopKeeps, PlateauKeeps, PlanKeeps, BuildKeeps, NoActionableKeeps, GateKeeps,
       ClaimKeeps, RunKeeps, DiagnoseKeeps, JudgeBaselineKeeps, JudgeCandidateKeeps, TriageKeeps, VerifyKeeps,
       CloseKeeps, TryFinalizeKeeps, SucceedKeeps, ApplyKeeps, WriteKeeps
<1>3. ASSUME Revert \/ Restore \/ RevertFails \/ Edit
      PROVE  Goal
  <2>1. terminal' = terminal /\ starts' = starts
    BY <1>3 DEF Revert, Restore, RevertFails, Edit, ledger, fixed, bounds
  <2> QED
    BY <1>3, <2>1, RevertKeeps, EditKeeps
<1>4. ASSUME Stop
      PROVE  Goal
  BY <1>4, StopRecords DEF Stop, fixed, bounds
<1>5. ASSUME NEW r \in BOOLEAN, NEW admitted \in BOOLEAN, Start(r, admitted)
      PROVE  Goal
  <2>1. terminal' = terminal /\ starts' \in Nat
    BY <1>5 DEF Start, ledger
  <2> QED
    BY <1>5, <2>1, StartKeeps
<1>6. ASSUME LoseLease \/ \E r \in {"paused", "cancelled"} : Control(r)
      PROVE  Goal
  <2>1. starts' = starts
    BY <1>6 DEF LoseLease, Control
  <2> QED
    BY <1>6, <2>1, SignalKeeps
<1>7. ASSUME Crash
      PROVE  Goal
  <2>1. UNCHANGED <<attempts, saved, outside, edits>> /\ terminal' = terminal /\ Gone /\ starts' = starts
    BY <1>7 DEF Crash, ledger, outside
  <2>2. terminal' \in {None} \cup Reasons
    BY <2>1 DEF LoopInv, LedgerTypes
  <2> QED
    BY <1>1, <2>1, <2>2, GoneKeeps
<1>8. ASSUME UNCHANGED vars
      PROVE  Goal
  <2>1. /\ UNCHANGED <<attempts, saved, terminal, outside, edits, pc, mem, cur, fin, why>> /\ disk' = disk
        /\ attempts' = attempts /\ saved' = saved /\ world' = world /\ starts' = starts
    BY <1>8 DEF vars, ledger, outside, private, bounds
  <2>2. LoopInv'
    BY <2>1 DEF LoopInv, LedgerTypes, LoopTypes, OutsideTypes, SessionTypes, EndingTypes, OwnAttempt,
                Own, IsOpen, Last, OrdinalsNamed, LeftoverIsRecorded, AcceptedFollows, Live, PreimageIsBacked,
                Backed, TraceIsClosed, OnTheWay, SuccessIsProven, Proven
  <2> QED
    BY <1>1, <2>1, <2>2
<1> HIDE DEF Goal
<1>9. Goal
  BY <1>2, <1>3, <1>4, <1>5, <1>6, <1>7, <1>8 DEF Next, SessionStep
<1> QED
  BY <1>9 DEF Goal

\* The inductive invariant of the loop.
LEMMA LoopConsistent == Spec => [](LoopInv /\ starts \in Nat)
<1>1. Init => starts \in Nat
  BY DEF Init
<1>2. LoopInv /\ starts \in Nat /\ [Next]_vars => LoopInv' /\ (starts \in Nat)'
  BY NextKeepsLoop
<1> QED
  BY <1>1, <1>2, InitLoop, PTL DEF Spec

-----------------------------------------------------------------------------
(* Who measures, and what the user left *)

\* An attempt that was not measured yet has no measurement; one that is judged has
\* those of this session, and no more than the repeats it counted.
MeasureInv ==
  /\ MeasuredByItsSession
  /\ pc \in {"apply", "write", "run"} => attempts[Last].runs = 0 /\ attempts[Last].by = {}
  /\ pc = "judge" => attempts[Last].runs <= 1 + cur.again /\ attempts[Last].by \subseteq {starts}

\* What the user left is on disk or beneath what is there; the open attempt stands
\* on its preimage; and a write meets what its check saw, unless the user raced it.
UserInv ==
  /\ theirs \in [Files -> Contents]
  /\ UserContentIsRecoverable
  /\ IsOpen => attempts[Last].under = Beneath(attempts[Last].pre)
  /\ pc = "write" /\ cur.file \notin raced => disk[cur.file] = cur.pre
  /\ pc = "restore" /\ cur.file \notin raced => disk[cur.file] = Last

\* Steps that write neither the ledger's attempts nor the disk, and that lead to no
\* measurement and into no window.
Quiet ==
  /\ attempts' = attempts /\ disk' = disk /\ theirs' = theirs /\ raced' = raced
  /\ pc' \notin {"apply", "write", "run", "judge", "restore"}

LEMMA QuietSteps ==
  ASSUME \/ LoopTop \/ Plateau \/ Plan \/ Build \/ NoActionable \/ Gate \/ JudgeBaseline \/ JudgeCandidate
         \/ Triage \/ Verify \/ RevertFails \/ TryFinalize \/ Succeed \/ Stop \/ Crash
         \/ \E r, admitted \in BOOLEAN : Start(r, admitted)
  PROVE  Quiet
<1>1. attempts' = attempts /\ disk' = disk /\ theirs' = theirs /\ raced' = raced
  BY DEF LoopTop, Plateau, Plan, Build, NoActionable, Gate, JudgeBaseline, JudgeCandidate, Triage, Verify,
         RevertFails, TryFinalize, Succeed, Stop, Crash, Start, ledger, outside, fixed, user
<1>2. ASSUME LoopTop \/ Plateau \/ NoActionable \/ Gate
      PROVE  pc' \notin {"apply", "write", "run", "judge", "restore"}
  BY <1>2 DEF LoopTop, Plateau, NoActionable, Gate, Goto, StopFor
<1>3. ASSUME Plan
      PROVE  pc' \notin {"apply", "write", "run", "judge", "restore"}
  BY <1>3 DEF Plan, Invoke, Goto, StopFor
<1>4. ASSUME Build
      PROVE  pc' \notin {"apply", "write", "run", "judge", "restore"}
  BY <1>4 DEF Build, Invoke, Goto, StopFor
<1>5. ASSUME JudgeBaseline \/ JudgeCandidate
      PROVE  pc' \notin {"apply", "write", "run", "judge", "restore"}
  BY <1>5 DEF JudgeBaseline, JudgeCandidate, FailedMeasurement, UnusableMeasurement, RejectStale, Reject, Keep,
              EndAttempt, Goto
<1>6. ASSUME Triage
      PROVE  pc' \notin {"apply", "write", "run", "judge", "restore"}
  BY <1>6 DEF Triage, Invoke, Reject, EndAttempt, StopFor
<1>7. ASSUME Verify
      PROVE  pc' \notin {"apply", "write", "run", "judge", "restore"}
  BY <1>7 DEF Verify, Invoke, Unconvinced, Convinced, RejectStale, Reject, Keep, EndAttempt, StopFor
<1>8. ASSUME TryFinalize
      PROVE  pc' \notin {"apply", "write", "run", "judge", "restore"}
  BY <1>8 DEF TryFinalize, Invoke, FinalVerdict, Gone, Goto, StopFor
<1>9. ASSUME Succeed \/ Stop \/ Crash \/ RevertFails \/ \E r, admitted \in BOOLEAN : Start(r, admitted)
      PROVE  pc' \notin {"apply", "write", "run", "judge", "restore"}
  BY <1>9 DEF Succeed, Stop, Crash, RevertFails, Start, EndAttempt, Gone, Goto, StopFor
<1> QED
  BY <1>1, <1>2, <1>3, <1>4, <1>5, <1>6, <1>7, <1>8, <1>9 DEF Quiet

\* The claim's new row
LEMMA ClaimedRow ==
  ASSUME LoopInv, Claim, attempts' # attempts
  PROVE  /\ Last \in Nat /\ Last' = Last + 1 /\ IsOpen' /\ cur' = cur /\ disk' = disk
         /\ \A n \in 1 .. Last : attempts'[n] = attempts[n]
         /\ attempts'[Last + 1].runs = 0 /\ attempts'[Last + 1].by = {}
         /\ attempts'[Last + 1].pre = cur.pre /\ attempts'[Last + 1].under = Beneath(cur.pre)
         /\ pc' \in {"apply", "run"}
<1> DEFINE row == [file |-> cur.file, pre |-> cur.pre, under |-> Beneath(cur.pre), runs |-> 0, by |-> {},
                   state |-> "claimed", kept |-> FALSE]
<1>1. attempts \in Seq(Rows) /\ Last \in Nat
  BY DEF LoopInv, LedgerTypes, Last
<1>2. attempts' = Append(attempts, row) /\ cur' = cur /\ disk' = disk /\ pc' \in {"apply", "run"}
  BY DEF Claim, Goto, outside
<1>3. /\ row.runs = 0 /\ row.by = {} /\ row.pre = cur.pre /\ row.under = Beneath(cur.pre)
      /\ row.state = "claimed"
  OBVIOUS
<1> HIDE DEF row
<1>4. Last' = Last + 1 /\ attempts'[Last + 1] = row /\ \A n \in 1 .. Last : attempts'[n] = attempts[n]
  BY <1>1, <1>2 DEF Last
<1>5. IsOpen'
  BY <1>1, <1>3, <1>4 DEF IsOpen
<1> QED
  BY <1>1, <1>2, <1>3, <1>4, <1>5

\* The receipt says nothing about measurements and preimages.
LEMMA ClosedRow ==
  ASSUME LoopInv, Close
  PROVE  /\ Last' = Last /\ disk' = disk /\ UNCHANGED user
         /\ pc' \notin {"apply", "write", "run", "judge", "restore"}
         /\ \A n \in 1 .. Last :
              /\ attempts'[n].runs = attempts[n].runs /\ attempts'[n].by = attempts[n].by
              /\ attempts'[n].pre = attempts[n].pre /\ attempts'[n].under = attempts[n].under
<1> DEFINE row == [attempts[Last] EXCEPT !.state = fin.state, !.kept = fin.kept]
<1>0. /\ pc = "close" /\ attempts \in Seq(Rows) /\ Own /\ fin \in Endings
  BY DEF Close, LoopInv, LedgerTypes, OwnAttempt, EndingTypes
<1>1. Last \in Nat /\ Last > 0 /\ attempts[Last] \in Rows /\ fin.state \in States /\ fin.kept \in BOOLEAN
  BY <1>0 DEF Own, IsOpen, Last, Endings
<1>2. /\ row \in Rows /\ row.runs = attempts[Last].runs /\ row.by = attempts[Last].by
      /\ row.pre = attempts[Last].pre /\ row.under = attempts[Last].under
  BY <1>1 DEF Rows
<1>3. attempts' = [attempts EXCEPT ![Last] = row]
  BY <1>0, <1>1 DEF Close
<1> HIDE DEF row
<1>4. Last' = Last /\ \A n \in 1 .. Last : attempts'[n] = IF n = Last THEN row ELSE attempts[n]
  BY <1>0, <1>1, <1>2, <1>3, ExceptSeq DEF Last
<1>5. pc' \notin {"apply", "write", "run", "judge", "restore"}
  BY <1>0 DEF Close, Gone, Goto, Endings
<1> QED
  BY <1>2, <1>4, <1>5 DEF Close, outside, fixed

\* Measurements stay with the session that claimed the attempt.
LEMMA NextKeepsMeasures ==
  ASSUME LoopInv, starts \in Nat, MeasureInv, [Next]_vars
  PROVE  MeasureInv'
<1>0. Last \in Nat
  BY DEF LoopInv, LedgerTypes, Last
<1>1. ASSUME Quiet
      PROVE  MeasureInv'
  BY <1>1 DEF Quiet, MeasureInv, MeasuredByItsSession, Last
<1>2. ASSUME Claim
      PROVE  MeasureInv'
  <2>1. CASE attempts' = attempts
    <3>1. pc' = "stop"
      <4>1. Append(attempts, [file |-> cur.file, pre |-> cur.pre, under |-> Beneath(cur.pre), runs |-> 0,
                              by |-> {}, state |-> "claimed", kept |-> FALSE]) # attempts
        <5> DEFINE row == [file |-> cur.file, pre |-> cur.pre, under |-> Beneath(cur.pre), runs |-> 0,
                           by |-> {}, state |-> "claimed", kept |-> FALSE]
        <5> HIDE DEF row
        <5>1. attempts \in Seq(Rows)
          BY DEF LoopInv, LedgerTypes
        <5>2. Len(Append(attempts, row)) = Len(attempts) + 1 /\ Len(attempts) \in Nat
          BY <5>1
        <5>3. Append(attempts, row) # attempts
          BY <5>2
        <5> QED
          BY <5>3 DEF row
      <4> QED
        BY <1>2, <2>1, <4>1 DEF Claim, StopFor
    <3> QED
      BY <2>1, <3>1 DEF MeasureInv, MeasuredByItsSession, Last
  <2>2. CASE attempts' # attempts
    BY <1>0, <1>2, <2>2, ClaimedRow, LoopAssumption DEF MeasureInv, MeasuredByItsSession
  <2> QED
    BY <2>1, <2>2
<1>3. ASSUME Apply
      PROVE  MeasureInv'
  <2>1. attempts' = attempts /\ pc = "apply" /\ pc' \in {"close", "write"}
    BY <1>3 DEF Apply, ledger, EndAttempt, Goto
  <2> QED
    BY <2>1 DEF MeasureInv, MeasuredByItsSession, Last
<1>4. ASSUME Write
      PROVE  MeasureInv'
  <2>1. attempts' = attempts /\ pc = "write" /\ pc' = "run"
    BY <1>4 DEF Write, ledger, Goto
  <2> QED
    BY <2>1 DEF MeasureInv, MeasuredByItsSession, Last
<1>5. ASSUME Revert \/ Restore
      PROVE  MeasureInv'
  <2>1. attempts' = attempts /\ pc' \in {"close", "restore"}
    BY <1>5 DEF Revert, Restore, ledger
  <2> QED
    BY <2>1 DEF MeasureInv, MeasuredByItsSession, Last
<1>6. ASSUME Run
      PROVE  MeasureInv'
  <2>1. pc = "run" /\ pc' = "judge" /\ attempts' = Counted /\ cur'.again = 0 /\ starts' = starts /\ Own
    BY <1>6 DEF Run, Goto, fixed, bounds, LoopInv, OwnAttempt
  <2>2. attempts[Last].runs = 0 /\ attempts[Last].by = {}
    BY <2>1 DEF MeasureInv
  <2>3. /\ Last' = Last /\ Last > 0
        /\ \A n \in 1 .. Last : /\ attempts'[n].runs = attempts[n].runs + (IF n = Last THEN 1 ELSE 0)
                               /\ attempts'[n].by = attempts[n].by \cup (IF n = Last THEN {starts} ELSE {})
                               /\ attempts[n].runs \in Nat
    BY <2>1, CountedRow, Numbers DEF Rows
  <2>4. attempts'[Last].runs = 1 /\ attempts'[Last].by = {starts}
    BY <1>0, <2>2, <2>3
  <2>5. MeasuredByItsSession'
    BY <1>0, <2>3, <2>4, LoopAssumption DEF MeasureInv, MeasuredByItsSession
  <2> QED
    BY <2>1, <2>3, <2>4, <2>5 DEF MeasureInv
<1>7. ASSUME Diagnose
      PROVE  MeasureInv'
  <2>1. /\ pc = "judge" /\ pc' = "judge" /\ attempts' = Counted /\ starts' = starts /\ Own
        /\ cur \in Measured /\ cur.again < FlakyRepeats
    BY <1>7 DEF Diagnose, Repeats, Goto, fixed, bounds, LoopInv, OwnAttempt, SessionTypes
  <2>2. cur.again \in Nat /\ cur'.again \in {cur.again + 1, FlakyRepeats}
    BY <1>7, <2>1 DEF Diagnose, Measured
  <2>3. attempts[Last].runs <= 1 + cur.again /\ attempts[Last].by \subseteq {starts}
    BY <2>1 DEF MeasureInv
  <2>4. /\ Last' = Last /\ Last > 0
        /\ \A n \in 1 .. Last : /\ attempts'[n].runs = attempts[n].runs + (IF n = Last THEN 1 ELSE 0)
                               /\ attempts'[n].by = attempts[n].by \cup (IF n = Last THEN {starts} ELSE {})
                               /\ attempts[n].runs \in Nat
    BY <2>1, CountedRow, Numbers DEF Rows
  <2>5. /\ attempts'[Last].runs <= 1 + cur'.again /\ attempts'[Last].by \subseteq {starts}
        /\ cur'.again <= FlakyRepeats /\ cur'.again \in Nat
    BY <1>0, <2>1, <2>2, <2>3, <2>4, LoopAssumption
  <2>6. attempts'[Last].runs <= 1 + FlakyRepeats
    BY <1>0, <2>4, <2>5, LoopAssumption
  <2>7. MeasuredByItsSession'
    BY <1>0, <2>4, <2>5, <2>6, LoopAssumption DEF MeasureInv, MeasuredByItsSession
  <2> QED
    BY <2>1, <2>4, <2>5, <2>7 DEF MeasureInv
<1>8. ASSUME Close
      PROVE  MeasureInv'
  BY <1>0, <1>8, ClosedRow DEF MeasureInv, MeasuredByItsSession
<1>9. ASSUME Edit \/ LoseLease \/ (\E r \in {"paused", "cancelled"} : Control(r)) \/ UNCHANGED vars
      PROVE  MeasureInv'
  <2>1. attempts' = attempts /\ pc' = pc /\ cur' = cur /\ starts' = starts
    BY <1>9 DEF Edit, LoseLease, Control, vars, ledger, private, bounds
  <2> QED
    BY <2>1 DEF MeasureInv, MeasuredByItsSession, Last
<1> QED
  BY <1>1, <1>2, <1>3, <1>4, <1>5, <1>6, <1>7, <1>8, <1>9, QuietSteps DEF Next, SessionStep

\* What lies beneath a file does not change while rows keep what they stand on.
LEMMA BeneathKept ==
  ASSUME LoopInv, Last' \in Nat, Last' >= Last,
         \A n \in 1 .. Last : attempts'[n].under = attempts[n].under
  PROVE  /\ \A f \in Files : disk'[f] = disk[f] => Beneath(disk[f])' = Beneath(disk[f])
         /\ \A p \in Int : \A f : Backed(p, f) => (IF p > 0 THEN attempts'[p].under ELSE p) = Beneath(p)
<1>1. Last \in Nat /\ \A f \in Files : disk[f] \in Int /\ (disk[f] > 0 => disk[f] <= Last)
  BY Numbers DEF LoopInv, OrdinalsNamed
<1>2. \A f \in Files : disk'[f] = disk[f] => Beneath(disk[f])' = Beneath(disk[f])
  BY <1>1 DEF Beneath
<1>3. \A p \in Int : \A f : Backed(p, f) => (IF p > 0 THEN attempts'[p].under ELSE p) = Beneath(p)
  BY <1>1 DEF Beneath, Backed
<1> QED
  BY <1>2, <1>3

\* The open attempt: its preimage is backed by the ledger.
LEMMA OpenPreimage ==
  ASSUME LoopInv, IsOpen
  PROVE  /\ Last \in Nat /\ Last > 0 /\ attempts[Last].pre \in Int
         /\ Backed(attempts[Last].pre, attempts[Last].file)
<1>1. attempts \in Seq(Rows) /\ Last \in Nat /\ Last > 0
  BY DEF LoopInv, LedgerTypes, Last, IsOpen
<1>2. attempts[Last] \in Rows
  BY <1>1 DEF Last
<1> QED
  BY <1>1, <1>2, OwnedIsNat DEF Rows, LoopInv, PreimageIsBacked

\* Steps that write no file of the user's and open no window.
LEMMA UserKept ==
  ASSUME LoopInv, UserInv, Last' = Last, disk' = disk, theirs' = theirs, raced' = raced, IsOpen' => IsOpen,
         \A n \in 1 .. Last : attempts'[n].under = attempts[n].under /\ attempts'[n].pre = attempts[n].pre,
         pc' \notin {"write", "restore"}
  PROVE  UserInv'
<1>1. Last' \in Nat /\ Last' >= Last /\ Last \in Nat
  BY DEF LoopInv, LedgerTypes, Last
<1>2. UserContentIsRecoverable'
  BY <1>1, BeneathKept DEF UserInv, UserContentIsRecoverable
<1>3. ASSUME IsOpen'
      PROVE  attempts'[Last].under = Beneath(attempts[Last].pre)'
  <2>1. /\ Last > 0 /\ attempts[Last].pre \in Int /\ Backed(attempts[Last].pre, attempts[Last].file)
        /\ attempts[Last].under = Beneath(attempts[Last].pre)
    BY <1>3, OpenPreimage DEF UserInv
  <2>2. attempts'[Last].pre = attempts[Last].pre /\ attempts'[Last].under = attempts[Last].under
    BY <1>1, <2>1
  <2>3. (IF attempts[Last].pre > 0 THEN attempts'[attempts[Last].pre].under ELSE attempts[Last].pre)
          = Beneath(attempts[Last].pre)
    BY <1>1, <2>1, BeneathKept
  <2> QED
    BY <2>1, <2>2, <2>3 DEF Beneath
<1> QED
  BY <1>2, <1>3 DEF UserInv

\* What the user left stays recoverable.
LEMMA NextKeepsUser ==
  ASSUME LoopInv, starts \in Nat, UserInv, [Next]_vars
  PROVE  UserInv'
<1>0. Last \in Nat /\ \A f \in Files : disk[f] \in Int
  BY Numbers
<1>1. ASSUME attempts' = attempts, disk' = disk, theirs' = theirs, raced' = raced,
             pc' \notin {"write", "restore"}
      PROVE  UserInv'
  <2>1. Last' = Last /\ (IsOpen' => IsOpen)
    BY <1>1 DEF Last, IsOpen
  <2> QED
    BY <1>1, <2>1, UserKept
<1>2. ASSUME Quiet
      PROVE  UserInv'
  BY <1>1, <1>2 DEF Quiet
<1>3. ASSUME Run \/ Diagnose
      PROVE  UserInv'
  <2>1. /\ attempts' = Counted /\ Own /\ disk' = disk /\ theirs' = theirs /\ raced' = raced /\ pc' = "judge"
    BY <1>3 DEF Run, Diagnose, Goto, outside, fixed, user, LoopInv, OwnAttempt
  <2>2. /\ Last' = Last /\ IsOpen
        /\ \A n \in 1 .. Last : attempts'[n].under = attempts[n].under /\ attempts'[n].pre = attempts[n].pre
    BY <2>1, CountedRow
  <2> QED
    BY <2>1, <2>2, UserKept
<1>4. ASSUME Close
      PROVE  UserInv'
  <2>1. IsOpen
    BY <1>4 DEF Close, LoopInv, OwnAttempt, Own
  <2>2. theirs' = theirs /\ raced' = raced
    BY <1>4 DEF Close, fixed, user
  <2> QED
    BY <1>4, <2>1, <2>2, ClosedRow, UserKept
<1>5. ASSUME Claim
      PROVE  UserInv'
  <2>0. disk' = disk /\ theirs' = theirs /\ raced' = raced /\ pc' \notin {"write", "restore"} /\ pc = "claim"
    BY <1>5 DEF Claim, outside, fixed, user, Goto, StopFor
  <2>1. CASE attempts' = attempts
    BY <1>1, <2>0, <2>1
  <2>2. CASE attempts' # attempts
    <3>1. /\ Last' = Last + 1 /\ \A n \in 1 .. Last : attempts'[n] = attempts[n]
          /\ attempts'[Last + 1].pre = cur.pre /\ attempts'[Last + 1].under = Beneath(cur.pre)
      BY <1>5, <2>2, ClaimedRow
    <3>2. Backed(cur.pre, cur.file) /\ cur.pre \in Int
      BY <2>0, OwnedIsNat DEF LoopInv, PreimageIsBacked, SessionTypes, Candidates
    <3>3. /\ \A f \in Files : Beneath(disk[f])' = Beneath(disk[f])
          /\ (IF cur.pre > 0 THEN attempts'[cur.pre].under ELSE cur.pre) = Beneath(cur.pre)
      BY <1>0, <2>0, <3>1, <3>2, BeneathKept
    <3>4. UserContentIsRecoverable'
      BY <2>0, <3>3 DEF UserInv, UserContentIsRecoverable
    <3>5. (attempts[Last].under = Beneath(attempts[Last].pre))'
      BY <1>0, <3>1, <3>3 DEF Beneath
    <3> QED
      BY <2>0, <3>4, <3>5 DEF UserInv
  <2> QED
    BY <2>1, <2>2
<1>6. ASSUME Apply
      PROVE  UserInv'
  <2>1. /\ attempts' = attempts /\ disk' = disk /\ theirs' = theirs /\ raced' = raced /\ cur' = cur
        /\ pc' = "close" \/ (pc' = "write" /\ disk[cur.file] = cur.pre)
    BY <1>6 DEF Apply, ledger, outside, fixed, user, Goto, EndAttempt
  <2>2. CASE pc' = "close"
    BY <1>1, <2>1, <2>2
  <2>3. CASE pc' = "write" /\ disk[cur.file] = cur.pre
    BY <2>1, <2>3 DEF UserInv, UserContentIsRecoverable, Beneath, IsOpen, Last
  <2> QED
    BY <2>1, <2>2, <2>3
<1>7. ASSUME Write
      PROVE  UserInv'
  <2>1. /\ attempts' = attempts /\ theirs' = theirs /\ raced' = raced /\ pc = "write" /\ pc' = "run"
        /\ disk' = [disk EXCEPT ![cur.file] = Last] /\ Own /\ cur \in Candidates /\ cur.file \in Files
        /\ disk \in [Files -> Contents]
    BY <1>7 DEF Write, ledger, fixed, user, Goto, LoopInv, OwnAttempt, SessionTypes, Candidates, OutsideTypes
  <2>2. /\ Last > 0 /\ attempts[Last].pre = cur.pre /\ attempts[Last].under = Beneath(cur.pre) /\ IsOpen
    BY <2>1 DEF Own, IsOpen, UserInv
  <2>3. ASSUME NEW f \in Files \ raced
        PROVE  Beneath(disk[f])' = theirs[f]
    <3>1. CASE f # cur.file
      BY <2>1, <3>1 DEF UserInv, UserContentIsRecoverable, Beneath
    <3>2. CASE f = cur.file
      <4>1. Beneath(cur.pre) = theirs[f]
        BY <2>1, <2>3, <3>2 DEF UserInv, UserContentIsRecoverable
      <4>2. disk'[f] = Last
        BY <2>1, <3>2
      <4> QED
        BY <1>0, <2>1, <2>2, <4>1, <4>2 DEF Beneath
    <3> QED
      BY <3>1, <3>2
  <2> QED
    BY <2>1, <2>3 DEF UserInv, UserContentIsRecoverable, Beneath, IsOpen, Last
<1>8. ASSUME Revert
      PROVE  UserInv'
  <2>1. /\ attempts' = attempts /\ disk' = disk /\ theirs' = theirs /\ raced' = raced /\ cur' = cur
        /\ pc' = "close" \/ (pc' = "restore" /\ disk[cur.file] = Last)
    BY <1>8 DEF Revert, ledger, outside, private, fixed, user
  <2>2. CASE pc' = "close"
    BY <1>1, <2>1, <2>2
  <2>3. CASE pc' = "restore" /\ disk[cur.file] = Last
    BY <2>1, <2>3 DEF UserInv, UserContentIsRecoverable, Beneath, IsOpen, Last
  <2> QED
    BY <2>1, <2>2, <2>3
<1>9. ASSUME Restore
      PROVE  UserInv'
  <2>1. /\ attempts' = attempts /\ theirs' = theirs /\ raced' = raced /\ pc = "restore" /\ pc' = "close"
        /\ disk' = [disk EXCEPT ![cur.file] = cur.pre] /\ Own /\ disk \in [Files -> Contents]
        /\ cur.file \in Files
    BY <1>9 DEF Restore, ledger, fixed, user, LoopInv, OwnAttempt, SessionTypes, OutsideTypes, Attempted,
                Recovered, Candidates, Measured
  <2>2. /\ Last > 0 /\ attempts[Last].pre = cur.pre /\ attempts[Last].under = Beneath(cur.pre) /\ IsOpen
    BY <2>1 DEF Own, IsOpen, UserInv
  <2>3. ASSUME NEW f \in Files \ raced
        PROVE  Beneath(disk[f])' = theirs[f]
    <3>1. CASE f # cur.file
      BY <2>1, <3>1 DEF UserInv, UserContentIsRecoverable, Beneath
    <3>2. CASE f = cur.file
      <4>1. Beneath(Last) = theirs[f]
        BY <2>1, <2>3, <3>2 DEF UserInv, UserContentIsRecoverable
      <4>2. Beneath(Last) = Beneath(cur.pre)
        BY <1>0, <2>2 DEF Beneath
      <4>3. disk'[f] = cur.pre
        BY <2>1, <3>2
      <4> QED
        BY <2>1, <4>1, <4>2, <4>3 DEF Beneath
    <3> QED
      BY <3>1, <3>2
  <2> QED
    BY <2>1, <2>3 DEF UserInv, UserContentIsRecoverable, Beneath, IsOpen, Last
<1>10. ASSUME Edit
      PROVE  UserInv'
  <2>1. /\ attempts' = attempts /\ pc' = pc /\ cur' = cur /\ disk \in [Files -> Contents]
        /\ theirs \in [Files -> Contents] /\ edits \in 0 .. MaxEdits /\ edits < MaxEdits
    BY <1>10 DEF Edit, ledger, private, LoopInv, OutsideTypes, UserInv
  <2>2. CASE disk' = disk /\ theirs' = theirs /\ raced' = raced
    BY <2>1, <2>2 DEF UserInv, UserContentIsRecoverable, Beneath, IsOpen, Last
  <2>3. ASSUME NEW f \in Files, NEW c \in {-(edits + 2), Absent}, disk' = [disk EXCEPT ![f] = c],
               theirs' = [theirs EXCEPT ![f] = c], raced' = IF InWindow(f) THEN raced \cup {f} ELSE raced
        PROVE  UserInv'
    <3>1. c \in Contents /\ c \in Int /\ c <= 0
      BY <2>1, LoopAssumption DEF Contents, Absent
    <3>2. theirs' \in [Files -> Contents]
      BY <2>1, <2>3, <3>1
    <3>3. raced \subseteq raced' /\ (pc \in {"write", "restore"} /\ cur.file = f => f \in raced')
      BY <2>3 DEF InWindow
    <3>4. ASSUME NEW g \in Files \ raced'
          PROVE  Beneath(disk[g])' = theirs'[g]
      <4>1. CASE g = f
        <5>1. disk'[g] = c /\ theirs'[g] = c
          BY <2>1, <2>3, <4>1
        <5> QED
          BY <3>1, <5>1 DEF Beneath
      <4>2. CASE g # f
        <5>1. disk'[g] = disk[g] /\ theirs'[g] = theirs[g] /\ g \in Files \ raced
          BY <2>1, <2>3, <3>3, <4>2
        <5>2. Beneath(disk[g]) = theirs[g]
          BY <5>1 DEF UserInv, UserContentIsRecoverable
        <5> QED
          BY <2>1, <5>1, <5>2 DEF Beneath
      <4> QED
        BY <4>1, <4>2
    <3>5. (IsOpen => attempts[Last].under = Beneath(attempts[Last].pre))'
      BY <2>1 DEF UserInv, IsOpen, Last, Beneath
    <3>6. ASSUME pc \in {"write", "restore"}, cur.file \notin raced'
          PROVE  disk'[cur.file] = disk[cur.file] /\ cur.file \notin raced
      BY <2>1, <2>3, <3>3, <3>6
    <3>7. Last' = Last
      BY <2>1 DEF Last
    <3> QED
      BY <2>1, <3>2, <3>4, <3>5, <3>6, <3>7 DEF UserInv, UserContentIsRecoverable
  <2> QED
    BY <1>10, <2>2, <2>3 DEF Edit, user
<1>11. ASSUME LoseLease \/ (\E r \in {"paused", "cancelled"} : Control(r)) \/ UNCHANGED vars
      PROVE  UserInv'
  <2>1. attempts' = attempts /\ pc' = pc /\ cur' = cur /\ disk' = disk /\ theirs' = theirs /\ raced' = raced
    BY <1>11 DEF LoseLease, Control, vars, ledger, outside, private, user
  <2> QED
    BY <2>1 DEF UserInv, UserContentIsRecoverable, Beneath, IsOpen, Last
<1> QED
  BY <1>2, <1>3, <1>4, <1>5, <1>6, <1>7, <1>8, <1>9, <1>10, <1>11, QuietSteps DEF Next, SessionStep

-----------------------------------------------------------------------------
(* The theorems *)

\* The ledger, the loop's state, the test files and the sources have their types
\* in every reachable state, and every attempt but the last has its receipt.
THEOREM UnitTypeCorrect == Spec => []UnitTypeOK
<1>1. LoopInv => UnitTypeOK
  BY DEF LoopInv, LedgerTypes, LoopTypes, OutsideTypes, UnitTypeOK, Reasons, Rows
<1> QED
  BY <1>1, LoopConsistent, PTL

\* The ledger accounts for every attempt, whatever sessions die and resume
\* between its claim and its receipt: it is measured by the session that claimed
\* it, once and for at most flaky_repeats diagnoses, and content that it left on
\* disk is accepted or named as left.
THEOREM LedgerAccounts == Spec => []AttemptsAreAccounted
<1>1. Init => MeasureInv
  BY DEF Init, MeasureInv, MeasuredByItsSession, Last
<1>2. LoopInv /\ starts \in Nat /\ MeasureInv /\ [Next]_vars => MeasureInv'
  BY NextKeepsMeasures
<1>3. LoopInv /\ MeasureInv => AttemptsAreAccounted
  BY DEF LoopInv, MeasureInv, AttemptsAreAccounted
<1> QED
  BY <1>1, <1>2, <1>3, LoopConsistent, PTL DEF Spec

\* Whatever the loop writes over a test file, patches of the user's files included,
\* what the user last left there is on disk or beneath the attempts that stand
\* there, unless the user edited it between a check and the write behind it.
THEOREM UserContentSurvives == Spec => []UserContentIsRecoverable
<1>1. Init => UserInv
  <2> SUFFICES ASSUME Init PROVE UserInv
    OBVIOUS
  <2>1. Absent \in Contents /\ Given \in Contents /\ ~(Absent > 0) /\ ~(Given > 0)
    BY LoopAssumption DEF Contents, Absent, Given
  <2>2. \A f \in Files : disk[f] \in {Absent, Given} /\ theirs[f] = disk[f]
    BY DEF Init
  <2>3. UserContentIsRecoverable
    BY <2>1, <2>2 DEF UserContentIsRecoverable, Beneath
  <2> QED
    BY <2>1, <2>3 DEF Init, UserInv, IsOpen, Last
<1>2. LoopInv /\ starts \in Nat /\ UserInv /\ [Next]_vars => UserInv'
  BY NextKeepsUser
<1>3. UserInv => UserContentIsRecoverable
  BY DEF UserInv
<1> QED
  BY <1>1, <1>2, <1>3, LoopConsistent, PTL DEF Spec

\* A success that record_terminal writes rests on the last attempt, whose
\* measurement met the target on the baseline's sources and on the owned files.
THEOREM SuccessRestsOnMeasurement == Spec => SuccessIsMeasured
<1>1. LoopInv /\ starts \in Nat /\ [Next]_vars =>
        [terminal' = "success" /\ terminal # "success" =>
           /\ attempts[Last].state = "completed"
           /\ cur.rec.met /\ cur.rec.world = saved.base
           /\ \A f \in Files : saved.accepted[f] # Absent => cur.rec.tree[f] = saved.accepted[f]]_vars
  BY NextKeepsLoop DEF Proven
<1> QED
  BY <1>1, LoopConsistent, PTL DEF Spec, SuccessIsMeasured

=============================================================================
