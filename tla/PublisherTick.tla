---------------------------- MODULE PublisherTick ---------------------------
(***************************************************************************)
(* LocalRuntimeService.publish_outbox_once                                 *)
(* (application/local_runtime_service.py) over the outbox of LocalRuntime: *)
(* publisher processes, each with a lease-keeper thread that renews the    *)
(* claim and then stores the renewed handle in claim_box, beside           *)
(* startup_outbox of other processes and a human who resolves cases.       *)
(***************************************************************************)
EXTENDS LocalRuntime

VARIABLES
  at,       \* where each publisher's tick stands
  held,     \* the event it claimed
  box,      \* claim_box: the expiry of the handle the main thread would use
  renewed,  \* a renewal the keeper committed but did not yet put in claim_box
  keeping,  \* its _LeaseKeeper thread: off, on, or lost (a renewal raised)
  verdict,  \* the LocalDeliveryResult it will report
  sent,     \* history: how often the publisher was called for an event
  acked     \* history: events whose publisher call returned "delivered"

tickVars == <<at, held, box, renewed, keeping, verdict, sent, acked>>
publisherVars == <<vars, tickVars>>

Places == {"idle", "claimed", "sending", "returned", "judged"}
Verdicts == {"delivered", "failed", "unknown"}

\* The publisher's own state has its types.
PublisherTypeOK ==
  /\ at \in [Publishers -> Places]
  /\ held \in [Publishers -> Event \cup {None}]
  /\ box \in [Publishers -> Nat]
  /\ renewed \in [Publishers -> Nat \cup {None}]
  /\ keeping \in [Publishers -> {"off", "on", "lost"}]
  /\ verdict \in [Publishers -> Verdicts \cup {"none"}]
  /\ sent \in [DOMAIN sent -> Nat]
  /\ acked \subseteq DOMAIN sent

At(p, place) == p \in alive /\ at[p] = place
Goto(p, place) == at' = [at EXCEPT ![p] = place]

Take(p, e, m) ==
  /\ At(p, "idle")
  /\ ClaimOutbox(p, e, m)
  /\ Goto(p, "claimed")
  /\ held' = [held EXCEPT ![p] = e]
  /\ box' = [box EXCEPT ![p] = m + LeaseSeconds]
  /\ renewed' = [renewed EXCEPT ![p] = None]
  /\ keeping' = [keeping EXCEPT ![p] = "off"]
  /\ UNCHANGED <<storeVars, verdict, sent, acked>>

\* claim_outbox finds no event of the publisher's kinds; its recovery stands.
TakeNothing(p, m) ==
  /\ At(p, "idle")
  /\ RecoverOutbox(m, {})
  /\ UNCHANGED <<storeVars, tickVars>>

\* The keeper thread starts, then the publisher is called.
Send(p) ==
  LET e == held[p] IN
  /\ At(p, "claimed")
  /\ Goto(p, "sending")
  /\ keeping' = [keeping EXCEPT ![p] = "on"]
  /\ sent' = [d \in (DOMAIN sent) \cup {e} |->
                (IF d \in DOMAIN sent THEN sent[d] ELSE 0) + (IF d = e THEN 1 ELSE 0)]
  /\ UNCHANGED <<vars, held, box, renewed, verdict, acked>>

\* Mutant: an exception counts as delivered.
ReturnSwallowed(p, s) ==
  /\ At(p, "sending")
  /\ Goto(p, "returned")
  /\ verdict' = [verdict EXCEPT ![p] = IF s = "unknown" THEN "delivered" ELSE s]
  /\ acked' = IF s = "delivered" THEN acked \cup {held[p]} ELSE acked
  /\ UNCHANGED <<vars, held, box, renewed, keeping, sent>>

\* The call returns a verdict; an exception becomes "unknown".
Return(p, s) ==
  /\ At(p, "sending")
  /\ Goto(p, "returned")
  /\ verdict' = [verdict EXCEPT ![p] = s]
  /\ acked' = IF s = "delivered" THEN acked \cup {held[p]} ELSE acked
  /\ UNCHANGED <<vars, held, box, renewed, keeping, sent>>

\* The keeper's renewal commits under the handle in claim_box, one perhaps after
\* stop_and_join has given up waiting for the thread ...
KeeperRenews(p, m) ==
  /\ keeping[p] = "on"
  /\ renewed[p] = None
  /\ at[p] \in {"sending", "returned", "judged", "idle"}
  /\ HeartbeatOutbox(p, held[p], box[p], m)
  /\ renewed' = [renewed EXCEPT ![p] = m + LeaseSeconds]
  /\ UNCHANGED <<storeVars, at, held, box, keeping, verdict, sent, acked>>

\* ... and on_renew then stores the renewed handle there.
KeeperStores(p) ==
  /\ p \in alive
  /\ renewed[p] # None
  /\ box' = [box EXCEPT ![p] = renewed[p]]
  /\ renewed' = [renewed EXCEPT ![p] = None]
  /\ keeping' = [keeping EXCEPT ![p] = IF at[p] = "sending" THEN @ ELSE "off"]
  /\ UNCHANGED <<vars, at, held, verdict, sent, acked>>

KeeperFails(p) ==
  /\ At(p, "sending")
  /\ keeping[p] = "on" /\ renewed[p] = None
  /\ keeping' = [keeping EXCEPT ![p] = "lost"]
  /\ UNCHANGED <<vars, at, held, box, renewed, verdict, sent, acked>>

\* The keeper stopped healthy and the final renewal succeeds.
Confirm(p, m) ==
  /\ At(p, "returned")
  /\ keeping[p] # "lost" /\ renewed[p] = None
  /\ HeartbeatOutbox(p, held[p], box[p], m)
  /\ Goto(p, "judged")
  /\ box' = [box EXCEPT ![p] = m + LeaseSeconds]
  /\ keeping' = [keeping EXCEPT ![p] = "off"]
  /\ UNCHANGED <<storeVars, held, renewed, verdict, sent, acked>>

\* Lost keeper, a thread that did not stop in time, or a refused final renewal.
LoseClaim(p) ==
  /\ At(p, "returned")
  /\ Goto(p, "judged")
  /\ verdict' = [verdict EXCEPT ![p] = "unknown"]
  /\ UNCHANGED <<vars, held, box, renewed, keeping, sent, acked>>

Receipt(p, m) ==
  /\ At(p, "judged")
  /\ RecordOutboxReceipt(p, held[p], box[p], verdict[p], m)
  /\ Goto(p, "idle")
  /\ UNCHANGED <<storeVars, held, box, renewed, keeping, verdict, sent, acked>>

\* record_outbox_receipt raised (stale handle, ended claim, busy database).
Raise(p) ==
  /\ At(p, "judged")
  /\ Goto(p, "idle")
  /\ UNCHANGED <<vars, held, box, renewed, keeping, verdict, sent, acked>>

\* startup_outbox of any process.
StartupOutbox ==
  /\ RecoverOutbox(now, Unrecognised)
  /\ UNCHANGED <<storeVars, tickVars>>

Client ==
  /\ \/ \E j \in Jobs, q \in Requests : Enqueue(j, q)
     \/ \E m \in Moments : RecoverExpired(m)
  /\ UNCHANGED tickVars

Human ==
  /\ \E e \in DOMAIN delivery, o \in {"delivered", "failed"} : ResolveDelivery(e, o)
  /\ UNCHANGED <<storeVars, tickVars>>

Environment ==
  /\ Tick \/ \E p \in Publishers : Die(p)
  /\ UNCHANGED <<storeVars, tickVars>>

PublisherInit ==
  /\ Init
  /\ at = [p \in Publishers |-> "idle"]
  /\ held = [p \in Publishers |-> None]
  /\ box = [p \in Publishers |-> 0]
  /\ renewed = [p \in Publishers |-> None]
  /\ keeping = [p \in Publishers |-> "off"]
  /\ verdict = [p \in Publishers |-> "none"]
  /\ sent = [e \in {} |-> 0]
  /\ acked = {}

PublisherStep(p) ==
  \/ \E e \in DOMAIN delivery, m \in Moments : Take(p, e, m)
  \/ \E m \in Moments : TakeNothing(p, m) \/ KeeperRenews(p, m) \/ Confirm(p, m) \/ Receipt(p, m)
  \/ \E s \in Verdicts : Return(p, s)
  \/ Send(p) \/ KeeperStores(p) \/ KeeperFails(p) \/ LoseClaim(p) \/ Raise(p)

PublisherNext ==
  \/ \E p \in Publishers : PublisherStep(p)
  \/ StartupOutbox \/ Client \/ Human \/ Environment

PublisherSpec == PublisherInit /\ [][PublisherNext]_publisherVars

(***************************************************************************)
(* Every process start recovers the outbox first, so an abandoned claim    *)
(* that stays recoverable is recovered.  Nothing is assumed of publishers  *)
(* or of the human.                                                        *)
(***************************************************************************)
FairSpec == PublisherSpec /\ WF_publisherVars(StartupOutbox)

-----------------------------------------------------------------------------
(* Properties *)

\* The publisher is called at most once per event: a death, an expired claim or
\* a human resolution never leads to a second delivery.
SentAtMostOnce == \A e \in DOMAIN sent : sent[e] <= 1

\* "delivered" is the publisher's own word or a human's: neither a lost claim
\* nor recovery invents one.
NoInventedDelivery ==
  \A e \in DOMAIN delivery :
    delivery[e].state = "delivered" => e \in acked \/ delivery[e].outcome = "delivered"

\* An expired claim is always taken away from its publisher, also when the
\* outbox is full ("so a full outbox can always be drained").
ExpiredClaimSettles ==
  \A j \in Jobs, t \in {"enqueued", "ready-timeout"} :
    LET stuck == \E e \in DOMAIN delivery :
                   /\ e.job = j /\ e.tag = t
                   /\ delivery[e].state = "claimed" /\ delivery[e].expires <= now
    IN stuck ~> ~stuck
=============================================================================
