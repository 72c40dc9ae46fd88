---------------------------- MODULE ClientSpool ----------------------------
(***************************************************************************)
(* ClientLifecycleSpool and replay_pending                                 *)
(* (application/client_lifecycle_spool.py): an outbox of small JSON files. *)
(* Hooks stage events, governed workers drain them into the canonical      *)
(* ledger; both may die between any two files.                             *)
(*                                                                         *)
(* A writer holds writer.lock, decides under it what to write and writes   *)
(* the files one by one (todo); its death releases the lock.  Readers of   *)
(* replay_pending and pending() do not take the lock.  An event is named   *)
(* by its delivery id, a digest of it by what it covers.  Sizes, symlinks, *)
(* fsync, the counters of the cursor chain and capture gaps are left out.  *)
(***************************************************************************)
EXTENDS Integers, Sequences, FiniteSets, FiniteSetsExt

CONSTANTS
  Deliveries,   \* delivery ids of observations
  Sessions, SessionOf,
  Drainers,     \* processes that run drain_to_postgres
  Failures,     \* outcome and failure category of a delivery that raised
  MaxFailures,  \* MAX_REPLAY_FAILURES
  BatchLimit,   \* limit of replay_pending
  PageLimit,    \* MAX_PENDING_BATCH
  Nil

VARIABLES
  disk,         \* contents of the spool's files, Nil for a file that is absent
  holder,       \* owner of writer.lock: a drainer, or the hook staging a delivery
  todo,         \* what the owner still has to write
  at,           \* where each drainer is
  batch,        \* queue positions of the entries it selected and has not handled
  outcome,      \* how the delivery of the first of them ended
  canonical,    \* external: events the governed ledger has committed
  staged        \* history: deliveries whose stage() returned

spoolVars == <<disk, holder, todo, at, batch, outcome, canonical, staged>>

Rejected == "rejected"
Keys == Failures \cup {"completed", "predecessor"}

ASSUME SpoolAssumption ==
  /\ SessionOf \in [Deliveries -> Sessions]
  /\ Rejected \in Failures /\ Failures \cap {"completed", "predecessor"} = {}
  /\ MaxFailures \in Nat \ {0} /\ PageLimit \in Nat /\ BatchLimit \in 1..PageLimit
  /\ IsFiniteSet(Deliveries)

\* Processes are no delivery ids.
ASSUME SpoolProcesses == Drainers \cap Deliveries = {} /\ Nil \notin Drainers \cup Deliveries

-----------------------------------------------------------------------------
(* The files *)

QueueState == <<"queue-state">>
SessionCheckpoint(s) == <<"session", s>>
Event(d) == <<"event", d>>
Delivery(d) == <<"delivery", d>>
QueueRef(n) == <<"queue", n>>
Attempt(d, k) == <<"attempt", d, k>>
AttemptState(d) == <<"attempt-state", d>>
AckFile(d) == <<"ack", d>>
CursorRecord(n) == <<"cursor-record", n>>
Cursor == <<"cursor">>

Positions == 1..Cardinality(Deliveries)
Immutable ==
  {Event(d) : d \in Deliveries} \cup {Delivery(d) : d \in Deliveries}
    \cup {QueueRef(n) : n \in Positions} \cup {CursorRecord(n) : n \in Positions}
    \cup {Attempt(d, k) : d \in Deliveries, k \in Keys} \cup {AckFile(d) : d \in Deliveries}
Derived ==
  {QueueState, Cursor} \cup {SessionCheckpoint(s) : s \in Sessions}
    \cup {AttemptState(d) : d \in Deliveries}

Dispositions == {"completed", "manual-review", "retryable"}
Bodies == [sequence : Nat, previous : Deliveries \cup {Nil}]
QueueStates == [tail : Positions, entry : Deliveries, before : Deliveries \cup {Nil}, body : Bodies,
                state : {"pending", "committed"}]
Checkpoints == [entry : Deliveries, state : {"pending", "committed"}]
QueueRefs == [entry : Deliveries, previous : Deliveries \cup {Nil}]
Attempts == [number : Nat, failures : Nat, disposition : Dispositions]
AttemptStates == [count : Nat, failures : Nat, latest : Keys, disposition : Dispositions]
CursorRecords == [entry : Deliveries, disposition : {"acknowledged", "manual-review"}]

\* An absent file differs from every content.
ASSUME SpoolSentinel ==
  /\ Nil \notin Nat /\ Nil # "completed"
  /\ Nil \notin Bodies /\ Nil \notin QueueStates /\ Nil \notin Checkpoints /\ Nil \notin QueueRefs
  /\ Nil \notin Attempts /\ Nil \notin AttemptStates /\ Nil \notin CursorRecords

Acked(d) == disk[AckFile(d)] # Nil
Disposition(d) == IF disk[AttemptState(d)] = Nil THEN Nil ELSE disk[AttemptState(d)].disposition
Terminal(d) == Disposition(d) \in {"completed", "manual-review"}
Resolved(d) == Acked(d) \/ Disposition(d) = "manual-review"

QueuePending == disk[QueueState] # Nil /\ disk[QueueState].state = "pending"
TailSequence == IF disk[QueueState] = Nil THEN 0 ELSE disk[QueueState].tail
CursorAt == IF disk[Cursor] = Nil THEN 0 ELSE disk[Cursor]
Predecessor(d) == disk[Event(d)].previous

-----------------------------------------------------------------------------
(* The lock, writes and deaths *)

\* The caller has the lock and decided on writes ws; without any it is done.
Hold(p, ws) ==
  /\ holder = Nil
  /\ holder' = IF ws = <<>> THEN Nil ELSE p
  /\ todo' = ws

Write ==
  /\ holder # Nil
  /\ disk' = [disk EXCEPT ![Head(todo)[1]] = Head(todo)[2]]
  /\ todo' = Tail(todo)
  /\ holder' = IF Len(todo) = 1 THEN Nil ELSE holder
  /\ staged' = IF Len(todo) = 1 /\ holder \in Deliveries THEN staged \cup {holder} ELSE staged
  /\ UNCHANGED <<at, batch, outcome, canonical>>

\* The call of drain ends, with its variables.
Return(p) ==
  /\ at' = [at EXCEPT ![p] = "idle"]
  /\ batch' = [batch EXCEPT ![p] = {}]
  /\ outcome' = [outcome EXCEPT ![p] = "completed"]

\* The owner of the lock dies, or one of its file operations raises.
Crash ==
  /\ holder # Nil
  /\ holder' = Nil
  /\ todo' = <<>>
  /\ IF holder \in Drainers THEN Return(holder) ELSE UNCHANGED <<at, batch, outcome>>
  /\ UNCHANGED <<disk, canonical, staged>>

-----------------------------------------------------------------------------
(* stage *)

\* Mutant: the queue is committed before the delivery is bound.
CommitEarly(d, n, before, body) ==
  << <<SessionCheckpoint(SessionOf[d]), [entry |-> d, state |-> "pending"]>>,
     <<Event(d), body>>,
     <<QueueRef(n), [entry |-> d, previous |-> before]>>,
     <<QueueState, [tail |-> n, entry |-> d, before |-> before, body |-> body, state |-> "committed"]>>,
     <<Delivery(d), n>>,
     <<SessionCheckpoint(SessionOf[d]), [entry |-> d, state |-> "committed"]>> >>

\* What follows the pending queue state, in stage and in its recovery: entry d
\* with its body at position n, behind the entry named before.
CommitWrites(d, n, before, body) ==
  << <<SessionCheckpoint(SessionOf[d]), [entry |-> d, state |-> "pending"]>>,
     <<Event(d), body>>,
     <<Delivery(d), n>>,
     <<QueueRef(n), [entry |-> d, previous |-> before]>>,
     <<SessionCheckpoint(SessionOf[d]), [entry |-> d, state |-> "committed"]>>,
     <<QueueState, [tail |-> n, entry |-> d, before |-> before, body |-> body, state |-> "committed"]>> >>

\* _load_queue_tail(recover=True): a pending queue state is completed first.
RecoveryWrites ==
  LET q == disk[QueueState] IN
  IF QueuePending THEN CommitWrites(q.entry, q.tail, q.before, q.body) ELSE <<>>

\* The session's last entry once the recovery is done.
SessionTail(s) ==
  IF QueuePending /\ SessionOf[disk[QueueState].entry] = s THEN disk[QueueState].entry
  ELSE IF disk[SessionCheckpoint(s)] = Nil THEN Nil ELSE disk[SessionCheckpoint(s)].entry

\* An identical delivery is an idempotent replay, also of the entry that the
\* recovery completes.
Known(d) == disk[Delivery(d)] # Nil \/ (QueuePending /\ disk[QueueState].entry = d)

\* The last entry of the queue, also one that is pending.
LastQueued == IF disk[QueueState] = Nil THEN Nil ELSE disk[QueueState].entry

\* The body of d behind the last entry of its session.
NextBody(d) ==
  LET q == disk[QueueState]
      last == SessionTail(SessionOf[d])
  IN [sequence |-> IF last = Nil THEN 1
                   ELSE (IF QueuePending /\ last = q.entry THEN q.body ELSE disk[Event(last)]).sequence + 1,
      previous |-> last]

AppendWrites(d, n, before, body) ==
  << <<QueueState, [tail |-> n, entry |-> d, before |-> before, body |-> body, state |-> "pending"]>> >>
    \o CommitWrites(d, n, before, body)

\* The writes of stage(), decided under the lock: the recovery's, then its own.
StageWrites(d) ==
  RecoveryWrites \o (IF Known(d) THEN <<>> ELSE AppendWrites(d, TailSequence + 1, LastQueued, NextBody(d)))

Stage(d) ==
  /\ Hold(d, StageWrites(d))
  /\ staged' = IF todo' = <<>> THEN staged \cup {d} ELSE staged
  /\ UNCHANGED <<disk, at, batch, outcome, canonical>>

-----------------------------------------------------------------------------
(* _advance_drain_cursor *)

\* The cursor advances by one page at most.
PageEnd == IF TailSequence < CursorAt + PageLimit THEN TailSequence ELSE CursorAt + PageLimit

\* Mutant: the cursor also passes entries that are still to be retried.
AttemptedPrefix(A) ==
  CHOOSE n \in CursorAt..PageEnd :
    /\ \A i \in (CursorAt + 1)..n : disk[AttemptState(disk[QueueRef(i)].entry)] # Nil
    /\ n = PageEnd \/ disk[AttemptState(disk[QueueRef(n + 1)].entry)] = Nil

\* The last position of the page up to which every entry is resolved, those in A
\* included.
ResolvedPrefix(A) ==
  LET Done(i) == disk[QueueRef(i)].entry \in A \/ Resolved(disk[QueueRef(i)].entry) IN
  CHOOSE n \in CursorAt..PageEnd :
    /\ \A i \in (CursorAt + 1)..n : Done(i)
    /\ n = PageEnd \/ ~Done(n + 1)

\* What the record of position i says, those in A acknowledged.
RecordOf(A, i) ==
  LET d == disk[QueueRef(i)].entry IN
  [entry |-> d, disposition |-> IF d \in A \/ Acked(d) THEN "acknowledged" ELSE "manual-review"]

\* A record for each resolved position, each followed by the cursor itself.
AdvanceWrite(A, i) ==
  LET n == CursorAt + (i + 1) \div 2 IN
  IF i % 2 = 1 THEN <<CursorRecord(n), RecordOf(A, n)>> ELSE <<Cursor, n>>

AdvanceWrites(A) == [i \in 1..(2 * (ResolvedPrefix(A) - CursorAt)) |-> AdvanceWrite(A, i)]

-----------------------------------------------------------------------------
(* replay_pending *)

\* pending(): the cursor is repaired under the lock.  It raises while the queue
\* waits for the recovery of a stage().
BeginDrain(p) ==
  /\ at[p] = "idle"
  /\ disk[QueueState] # Nil /\ ~QueuePending
  /\ Hold(p, AdvanceWrites({}))
  /\ at' = [at EXCEPT ![p] = "selecting"]
  /\ UNCHANGED <<disk, batch, outcome, canonical, staged>>

\* The rest of pending(), without the lock.
Select(p) ==
  LET upper == IF TailSequence < CursorAt + BatchLimit THEN TailSequence ELSE CursorAt + BatchLimit
      chosen == {n \in (CursorAt + 1)..upper : ~Resolved(disk[QueueRef(n)].entry)}
  IN
  /\ at[p] = "selecting" /\ holder # p
  /\ ~QueuePending
  /\ batch' = [batch EXCEPT ![p] = chosen]
  /\ at' = [at EXCEPT ![p] = IF chosen = {} THEN "idle" ELSE "entry"]
  /\ UNCHANGED <<disk, holder, todo, outcome, canonical, staged>>

\* The entry that the loop of replay_pending is at.
CurrentEntry(p) == disk[QueueRef(Min(batch[p]))].entry

\* The drain dies, or a read that is not under the lock raises.
Abort(p) ==
  /\ at[p] # "idle" /\ holder # p
  /\ Return(p)
  /\ UNCHANGED <<disk, holder, todo, canonical, staged>>

\* The drain's call of record_attempt or of the acknowledgement raises.
Raise(p) ==
  /\ Return(p)
  /\ UNCHANGED <<disk, holder, todo, canonical, staged>>

\* Mutant: an entry keeps waiting for a predecessor that a human has.
NeverBlocked(d) == FALSE

Blocked(d) ==
  /\ Predecessor(d) # Nil
  /\ ~Acked(Predecessor(d))
  /\ Disposition(Predecessor(d)) = "manual-review"

Waiting(d) == Predecessor(d) # Nil /\ ~Acked(Predecessor(d))

\* deliver: preflight, apply and lookup of the governed adapter, behind the
\* acknowledged predecessor.
DeliverEntry(p) ==
  LET d == CurrentEntry(p) IN
  /\ at[p] = "entry" /\ holder # p
  /\ ~Waiting(d)
  /\ canonical' = canonical \cup {d}
  /\ outcome' = [outcome EXCEPT ![p] = "completed"]
  /\ at' = [at EXCEPT ![p] = "record"]
  /\ UNCHANGED <<disk, holder, todo, batch, staged>>

\* deliver or capture raised; the ledger may have committed all the same.
DeliverRaises(p, f) ==
  LET d == CurrentEntry(p) IN
  /\ at[p] = "entry" /\ holder # p
  /\ ~Waiting(d)
  /\ canonical' \in {canonical, canonical \cup {d}}
  /\ outcome' = [outcome EXCEPT ![p] = f]
  /\ at' = [at EXCEPT ![p] = "record"]
  /\ UNCHANGED <<disk, holder, todo, batch, staged>>

\* previous_canonical_event_digest raises: the predecessor is not acknowledged.
Await(p) ==
  LET d == CurrentEntry(p) IN
  /\ at[p] = "entry" /\ holder # p
  /\ Waiting(d) /\ ~Blocked(d)
  /\ outcome' = [outcome EXCEPT ![p] = Rejected]
  /\ at' = [at EXCEPT ![p] = "record"]
  /\ UNCHANGED <<disk, holder, todo, batch, canonical, staged>>

\* The predecessor waits for a human: so will this entry.
Block(p) ==
  /\ at[p] = "entry" /\ holder # p
  /\ Blocked(CurrentEntry(p))
  /\ outcome' = [outcome EXCEPT ![p] = "predecessor"]
  /\ at' = [at EXCEPT ![p] = "record"]
  /\ UNCHANGED <<disk, holder, todo, batch, canonical, staged>>

Count(d) == IF disk[AttemptState(d)] = Nil THEN 0 ELSE disk[AttemptState(d)].count
FailureCount(d) == IF disk[AttemptState(d)] = Nil THEN 0 ELSE disk[AttemptState(d)].failures

\* The attempt document that outcome k of entry d gets now.
NewAttempt(d, k) ==
  LET failures == FailureCount(d) + (IF k = "completed" THEN 0 ELSE 1) IN
  [number |-> Count(d) + 1,
   failures |-> failures,
   disposition |-> IF k = "completed" THEN "completed"
                   ELSE IF k = "predecessor" \/ failures >= MaxFailures THEN "manual-review" ELSE "retryable"]

StateOf(k, a) ==
  [count |-> a.number, failures |-> a.failures, latest |-> k, disposition |-> a.disposition]

\* An attempt is named by entry, outcome and evidence, so the same failure again
\* is the same attempt.  One whose state was lost in a crash is adopted if it is
\* the next one, and otherwise returned as it is.
AttemptWrites(d, k) ==
  LET known == disk[Attempt(d, k)] IN
  IF disk[AttemptState(d)] # Nil /\ disk[AttemptState(d)].latest = k THEN <<>>
  ELSE CASE known = Nil ->
              << <<Attempt(d, k), NewAttempt(d, k)>>, <<AttemptState(d), StateOf(k, NewAttempt(d, k))>> >>
         [] known # Nil /\ known.number = Count(d) + 1 -> << <<AttemptState(d), StateOf(k, known)>> >>
         [] OTHER -> <<>>

\* record_attempt and record_predecessor_manual_review refuse a terminal entry
\* (its own last attempt excepted) and an attempt of the future.
AttemptAdmissible(d, k) ==
  \/ disk[AttemptState(d)] # Nil /\ disk[AttemptState(d)].latest = k
  \/ /\ ~Terminal(d)
     /\ disk[Attempt(d, k)] # Nil =>
          disk[Attempt(d, k)].number <= Count(d) + 1
     /\ k = "predecessor" =>
          /\ Blocked(d)
          /\ disk[Attempt(d, k)] # Nil => disk[Attempt(d, k)].number = Count(d) + 1

NextEntry(p) ==
  /\ batch' = [batch EXCEPT ![p] = @ \ {Min(@)}]
  /\ at' = [at EXCEPT ![p] = IF batch[p] = {Min(batch[p])} THEN "idle" ELSE "entry"]
  /\ outcome' = [outcome EXCEPT ![p] = "completed"]

Record(p) ==
  LET d == CurrentEntry(p) IN
  /\ at[p] = "record"
  /\ AttemptAdmissible(d, outcome[p])
  /\ Hold(p, AttemptWrites(d, outcome[p]))
  /\ IF outcome[p] = "completed"
       THEN at' = [at EXCEPT ![p] = "ack"] /\ UNCHANGED <<batch, outcome>>
       ELSE NextEntry(p)
  /\ UNCHANGED <<disk, canonical, staged>>

RecordRaises(p) ==
  /\ at[p] = "record" /\ holder = Nil
  /\ ~AttemptAdmissible(CurrentEntry(p), outcome[p])
  /\ Raise(p)

\* Mutant: an acknowledgement needs no completed attempt.
AckAdmissibleByReceipt(d) == ~Waiting(d)

AckAdmissible(d) == ~Waiting(d) /\ Disposition(d) = "completed"

\* _acknowledge_verified_receipt; a queue that waits for recovery makes the
\* advance of the cursor raise, behind the acknowledgement.
Acknowledge(p) ==
  LET d == CurrentEntry(p) IN
  /\ at[p] = "ack" /\ holder # p
  /\ AckAdmissible(d)
  /\ Hold(p, (IF Acked(d) THEN <<>> ELSE << <<AckFile(d), "completed">> >>)
               \o (IF QueuePending THEN <<>> ELSE AdvanceWrites({d})))
  /\ IF QueuePending THEN Return(p) ELSE NextEntry(p)
  /\ UNCHANGED <<disk, canonical, staged>>

AcknowledgeRaises(p) ==
  /\ at[p] = "ack" /\ holder = Nil
  /\ ~AckAdmissible(CurrentEntry(p))
  /\ Raise(p)

-----------------------------------------------------------------------------

SpoolInit ==
  /\ disk = [f \in Immutable \cup Derived |-> Nil]
  /\ holder = Nil
  /\ todo = <<>>
  /\ at = [p \in Drainers |-> "idle"]
  /\ batch = [p \in Drainers |-> {}]
  /\ outcome = [p \in Drainers |-> "completed"]
  /\ canonical = {}
  /\ staged = {}

DrainStep(p) ==
  \/ BeginDrain(p) \/ Select(p) \/ DeliverEntry(p) \/ Await(p) \/ Block(p) \/ Record(p) \/ RecordRaises(p)
  \/ Acknowledge(p) \/ AcknowledgeRaises(p)

SpoolNext ==
  \/ Write \/ Crash
  \/ \E d \in Deliveries : Stage(d)
  \/ \E p \in Drainers : DrainStep(p) \/ Abort(p) \/ \E f \in Failures : DeliverRaises(p, f)

SpoolSpec == SpoolInit /\ [][SpoolNext]_spoolVars

-----------------------------------------------------------------------------
(* Properties *)

\* Every file of the spool, when present, has the content its kind asks for.
FilesTyped ==
  /\ DOMAIN disk = Immutable \cup Derived
  /\ disk[QueueState] \in QueueStates \cup {Nil}
  /\ disk[Cursor] \in Positions \cup {Nil}
  /\ \A s \in Sessions : disk[SessionCheckpoint(s)] \in Checkpoints \cup {Nil}
  /\ \A d \in Deliveries :
       /\ disk[Event(d)] \in Bodies \cup {Nil}
       /\ disk[Delivery(d)] \in Positions \cup {Nil}
       /\ disk[AttemptState(d)] \in AttemptStates \cup {Nil}
       /\ disk[AckFile(d)] \in {"completed", Nil}
       /\ \A k \in Keys : disk[Attempt(d, k)] \in Attempts \cup {Nil}
  /\ \A n \in Positions :
       /\ disk[QueueRef(n)] \in QueueRefs \cup {Nil}
       /\ disk[CursorRecord(n)] \in CursorRecords \cup {Nil}

SpoolTypeOK ==
  /\ FilesTyped
  /\ holder \in Drainers \cup Deliveries \cup {Nil}
  /\ holder = Nil <=> todo = <<>>
  /\ at \in [Drainers -> {"idle", "selecting", "entry", "record", "ack"}]
  /\ batch \in [Drainers -> SUBSET Positions]
  /\ outcome \in [Drainers -> Keys]
  /\ canonical \subseteq Deliveries /\ staged \subseteq Deliveries

\* "Lifecycle immutable spool collision" is never raised: after any crash and
\* recovery, a file that is written once is written again only as it was.
NoCollision ==
  \A i \in DOMAIN todo :
    todo[i][1] \in Immutable => disk[todo[i][1]] \in {Nil, todo[i][2]}

Queued == {disk[QueueRef(n)].entry : n \in 1..TailSequence}

\* Whenever the queue state says "committed", also to a reader without the lock
\* and after any crash, all files agree: positions, deliveries, events, and one
\* unbroken chain per session that ends at its committed checkpoint.
CommittedIsReadable ==
  disk[QueueState] # Nil /\ ~QueuePending =>
    /\ \A n \in 1..TailSequence :
         LET r == disk[QueueRef(n)] IN
         /\ r # Nil
         /\ r.previous = IF n = 1 THEN Nil ELSE disk[QueueRef(n - 1)].entry
         /\ disk[Delivery(r.entry)] = n
         /\ disk[Event(r.entry)] # Nil
    /\ \A s \in Sessions :
         LET chain == {d \in Deliveries : disk[Event(d)] # Nil /\ SessionOf[d] = s}
             last == disk[SessionCheckpoint(s)]
         IN
         /\ chain \subseteq Queued
         /\ {disk[Event(d)].sequence : d \in chain} = 1..Cardinality(chain)
         /\ \A d \in chain : disk[Event(d)].sequence > 1 =>
              /\ Predecessor(d) \in chain
              /\ disk[Event(Predecessor(d))].sequence + 1 = disk[Event(d)].sequence
         /\ chain # {} =>
              last.state = "committed" /\ disk[Event(last.entry)].sequence = Cardinality(chain)

\* An event whose stage() returned is queued, or named by the queue state.
StagedIsKept ==
  \A d \in staged :
    disk[Delivery(d)] # Nil /\ disk[Event(d)] # Nil /\ disk[QueueRef(disk[Delivery(d)])].entry = d

\* The files survive any crash of a hook or a drainer and any reader without the
\* lock: no collision, a committed queue is whole, nothing staged is lost.
SpoolIsConsistent == NoCollision /\ CommittedIsReadable /\ StagedIsKept

\* An acknowledgement is proof: the ledger has the event, its attempt completed,
\* and every earlier event of the session is acknowledged as well, so none is
\* acknowledged behind one that waits for a human.
AckIsProof ==
  \A d \in Deliveries :
    Acked(d) =>
      /\ d \in canonical
      /\ Disposition(d) = "completed"
      /\ Predecessor(d) # Nil => Acked(Predecessor(d))

\* The drain cursor stands only behind resolved entries and its records tell how
\* each was resolved, however late an acknowledgement or a verdict came.
CursorIsResolved ==
  \A n \in 1..CursorAt :
    LET d == disk[QueueRef(n)].entry IN
    /\ Resolved(d)
    /\ disk[CursorRecord(n)] =
         [entry |-> d, disposition |-> IF Acked(d) THEN "acknowledged" ELSE "manual-review"]

\* An entry's terminal attempt state is final, and attempts are never forgotten
\* or renumbered: the state always refers to an attempt on file.
TerminalAttemptIsFinal ==
  [][\A d \in Deliveries :
       /\ Terminal(d) => disk'[AttemptState(d)] = disk[AttemptState(d)]
       /\ Count(d)' >= Count(d)
       /\ disk'[AttemptState(d)] # Nil =>
            LET s == disk'[AttemptState(d)]
                a == disk'[Attempt(d, s.latest)]
            IN a # Nil /\ s = StateOf(s.latest, a)]_spoolVars

-----------------------------------------------------------------------------
(* Liveness *)

\* The owner of the lock writes on, and workers drain again and again.
SpoolFairSpec == SpoolSpec /\ WF_spoolVars(Write) /\ \A p \in Drainers : WF_spoolVars(DrainStep(p))

SpoolFault ==
  \/ Crash
  \/ \E p \in Drainers :
       (Abort(p) /\ ~DrainStep(p)) \/ \E f \in Failures : DeliverRaises(p, f)

\* From some moment on nobody dies and every delivery is answered.
Calm == <>[][~SpoolFault]_spoolVars

\* A terminal attempt, completed or behind a blocked predecessor, that lost its
\* state in a crash and was overtaken by a failed one: record_attempt returns it
\* for ever, record_predecessor_manual_review refuses it, and the state stays
\* retryable.
Overtaken(d) ==
  /\ ~Terminal(d)
  /\ \E k \in {"completed", "predecessor"} :
       disk[Attempt(d, k)] # Nil /\ disk[Attempt(d, k)].number <= Count(d)

\* "A separate governed worker may later replay pending entries and add an
\* immutable acknowledgement": once the faults end, a staged event is
\* acknowledged or handed to a human, unless a hook died in stage() and none
\* followed it.
StagedIsResolved ==
  Calm => \A d \in Deliveries : d \in staged ~> Resolved(d) \/ QueuePending

\* The same, except behind an overtaken attempt.
StagedIsResolvedUnlessOvertaken ==
  Calm => \A d \in Deliveries :
    d \in staged ~> Resolved(d) \/ QueuePending \/ \E x \in Deliveries : Overtaken(x)
=============================================================================
