------------------------------ MODULE Firehose ------------------------------
(***************************************************************************)
(* The firehose client: one goroutine per relay that keeps a subscription  *)
(* open, resumes it from its own high-water mark, drops what the shared    *)
(* seen-cache knows, and blocks on the bounded channel to the pipeline.    *)
(*                                                                         *)
(* Relays are external.  A relay publishes an event some time around its   *)
(* created_at, and sends what a subscription asks for in any order: most   *)
(* of them replay what they have stored newest first.  0 is Go's zero time. *)
(***************************************************************************)
EXTENDS Integers, Sequences, FiniteSets

CONSTANTS
    FirehoseRelays,
    Events,
    CreatedAt,   \* CreatedAt[e]: the author's timestamp of event e
    Carries,     \* Carries[r]: the events that reach relay r at all
    Window,      \* NAGG_SINCE
    Overlap,     \* how far before the high-water mark a reconnect resumes
    FutureSlack, \* how far ahead of the clock a timestamp may move the mark
    Late, Ahead, \* an event is published from created_at - Ahead to created_at + Late
    CacheSize,   \* SeenCacheSize
    QueueSize,   \* capacity of the channel
    StartNow, MaxNow,  \* bounds of the clock
    MaxDrops,    \* bound on disconnects
    MaxCrashes,  \* bound on process restarts
    None         \* no event

ASSUME WindowAssumption ==
    /\ Window \in Nat /\ Overlap \in Nat /\ FutureSlack \in Nat
    /\ Late \in Nat /\ Ahead \in Nat
    /\ StartNow \in Nat /\ StartNow > Window /\ MaxNow \in Nat /\ StartNow <= MaxNow
    /\ CacheSize \in Nat \ {0} /\ QueueSize \in Nat \ {0}
    /\ MaxDrops \in Nat /\ MaxCrashes \in Nat
    /\ CreatedAt \in [Events -> Nat \ {0}] /\ Carries \in [FirehoseRelays -> SUBSET Events] /\ None \notin Events \union Int

VARIABLES
    now,        \* wall clock
    published,  \* published[r]: events relay r has
    since,      \* since[r]: the `since` of the open subscription; None when down
    pending,    \* pending[r]: events the relay still has to send on it
    highWater,  \* highWater[r]
    holding,    \* holding[r]: the event the goroutine is sending to the channel
    seen,       \* the LRU cache of ids, most recent last
    queue,      \* events in the channel
    consumed,   \* events the pipeline has taken
    sent,       \* history: what each relay has sent since the process started
    drops, crashes

client == <<since, pending, highWater, holding, seen>>
bounds == <<drops, crashes>>
firehoseVars == <<now, published, client, queue, consumed, sent, bounds>>

InitFirehose ==
    /\ now = StartNow
    /\ published \in [FirehoseRelays -> SUBSET {e \in Events : CreatedAt[e] < StartNow}]
    /\ \A r \in FirehoseRelays : published[r] \subseteq Carries[r]
    /\ since = [r \in FirehoseRelays |-> None] /\ pending = [r \in FirehoseRelays |-> {}]
    /\ highWater = [r \in FirehoseRelays |-> 0] /\ holding = [r \in FirehoseRelays |-> None]
    /\ seen = <<>> /\ queue = {} /\ consumed = {} /\ sent = [r \in FirehoseRelays |-> {}]
    /\ drops = 0 /\ crashes = 0

Up(r) == since[r] # None

\* Mutant of Resume: no overlap.
ResumeExact(r) == highWater[r]

Resume(r) == highWater[r] - Overlap

\* filter: the later of the window's start and the resume point.
FilterSince(r) ==
    IF highWater[r] # 0 /\ Resume(r) > now - Window THEN Resume(r) ELSE now - Window

\* Dial and REQ: the relay starts sending what it has from `since` on.
Connect(r) ==
    /\ ~Up(r)
    /\ since' = [since EXCEPT ![r] = FilterSince(r)]
    /\ pending' = [pending EXCEPT ![r] = {e \in published[r] : CreatedAt[e] >= FilterSince(r)}]
    /\ UNCHANGED <<now, published, highWater, holding, seen, queue, consumed, sent, bounds>>

\* The connection ends.  A goroutine that is blocked on the channel finds out later.
Disconnect(r) ==
    /\ Up(r) /\ holding[r] = None /\ drops < MaxDrops
    /\ since' = [since EXCEPT ![r] = None] /\ pending' = [pending EXCEPT ![r] = {}]
    /\ drops' = drops + 1
    /\ UNCHANGED <<now, published, highWater, holding, seen, queue, consumed, sent, crashes>>

MarkOf(r, e) ==
    IF CreatedAt[e] > highWater[r] /\ CreatedAt[e] <= now + FutureSlack
    THEN CreatedAt[e] ELSE highWater[r]

Cached(e) == \E i \in DOMAIN seen : seen[i] = e

\* seen.Add: the oldest entry is evicted from a full cache.
Added(e) == IF Len(seen) < CacheSize THEN Append(seen, e) ELSE Append(Tail(seen), e)

\* ReadMessage up to the send on the channel.  Which event comes next is up to the relay.
Receive(r) == \E e \in pending[r] :
    /\ Up(r) /\ holding[r] = None
    /\ sent' = [sent EXCEPT ![r] = @ \union {e}]
    /\ pending' = [pending EXCEPT ![r] = @ \ {e}]
    /\ highWater' = [highWater EXCEPT ![r] = MarkOf(r, e)]
    /\ IF Cached(e) THEN UNCHANGED <<seen, holding>>
       ELSE seen' = Added(e) /\ holding' = [holding EXCEPT ![r] = e]
    /\ UNCHANGED <<now, published, since, queue, consumed, bounds>>

\* Mutant of Offer: a full channel drops the event instead of blocking.
OfferOrDrop(r) ==
    /\ queue' = IF Cardinality(queue) < QueueSize THEN queue \union {holding[r]} ELSE queue

\* The send blocks while the channel is full.
Offer(r) ==
    /\ Cardinality(queue) < QueueSize
    /\ queue' = queue \union {holding[r]}

Deliver(r) ==
    /\ holding[r] # None
    /\ Offer(r)
    /\ holding' = [holding EXCEPT ![r] = None]
    /\ UNCHANGED <<now, published, since, pending, highWater, seen, consumed, sent, bounds>>

\* The pipeline takes an event from the channel.
Take == \E e \in queue :
    /\ queue' = queue \ {e} /\ consumed' = consumed \union {e}
    /\ UNCHANGED <<now, published, client, sent, bounds>>

\* The process dies and is restarted: everything in memory is lost, and of what
\* the pipeline had taken only what it had inserted remains.
Crash ==
    /\ crashes < MaxCrashes /\ crashes' = crashes + 1
    /\ since' = [r \in FirehoseRelays |-> None] /\ pending' = [r \in FirehoseRelays |-> {}]
    /\ highWater' = [r \in FirehoseRelays |-> 0] /\ holding' = [r \in FirehoseRelays |-> None]
    /\ seen' = <<>> /\ queue' = {} /\ consumed' \in SUBSET consumed
    /\ sent' = [r \in FirehoseRelays |-> {}]
    /\ UNCHANGED <<now, published, drops>>

\* External: an event reaches a relay, which sends it to a matching subscription.
Publish(r) == \E e \in Carries[r] \ published[r] :
    /\ CreatedAt[e] - Ahead <= now /\ now <= CreatedAt[e] + Late
    /\ published' = [published EXCEPT ![r] = @ \union {e}]
    /\ pending' = IF Up(r) /\ CreatedAt[e] >= since[r]
                  THEN [pending EXCEPT ![r] = @ \union {e}] ELSE pending
    /\ UNCHANGED <<now, since, highWater, holding, seen, queue, consumed, sent, bounds>>

Tick ==
    /\ now < MaxNow /\ now' = now + 1
    /\ UNCHANGED <<published, client, queue, consumed, sent, bounds>>

FirehoseNext ==
    \/ \E r \in FirehoseRelays :
          Connect(r) \/ Disconnect(r) \/ Receive(r) \/ Deliver(r) \/ Publish(r)
    \/ Take \/ Crash \/ Tick

FirehoseSpec == InitFirehose /\ [][FirehoseNext]_firehoseVars

\* The loops run, the relays can be reached, and the pipeline keeps consuming.
FairFirehose == FirehoseSpec /\ WF_firehoseVars(Take)
    /\ \A r \in FirehoseRelays :
          WF_firehoseVars(Connect(r)) /\ WF_firehoseVars(Receive(r)) /\ SF_firehoseVars(Deliver(r))

-----------------------------------------------------------------------------
(* Properties *)

FirehoseTypeOK ==
    /\ now \in StartNow..MaxNow
    /\ published \in [FirehoseRelays -> SUBSET Events] /\ pending \in [FirehoseRelays -> SUBSET Events]
    /\ since \in [FirehoseRelays -> {None} \union Nat]
    /\ \A r \in FirehoseRelays : pending[r] \subseteq published[r] /\ (~Up(r) => pending[r] = {})
    /\ highWater \in [FirehoseRelays -> Nat]
    /\ holding \in [FirehoseRelays -> Events \union {None}]
    /\ \A r \in FirehoseRelays : holding[r] # None => Up(r) /\ holding[r] \in published[r]
    /\ seen \in Seq(Events) /\ Len(seen) <= CacheSize
    /\ queue \subseteq Events /\ consumed \subseteq Events /\ sent \in [FirehoseRelays -> SUBSET Events]
    /\ drops \in 0..MaxDrops /\ crashes \in 0..MaxCrashes

InWindow(e) == CreatedAt[e] >= now - Window

\* Events that are on their way to the pipeline, or there, through any relay.
Got == queue \union consumed \union {holding[r] : r \in FirehoseRelays}

\* The relay has sent an event that is newer by more than a reconnect goes back, and not
\* so far in the future that it does not count (firehose.go:146).
Overtaken(r, e) == \E f \in sent[r] :
    CreatedAt[e] + Overlap < CreatedAt[f] /\ CreatedAt[f] <= now + FutureSlack

\* An event of the window that a relay has and that has not been received is
\* either still to come on the open subscription, or will be asked for by the
\* next one, unless this relay has sent events first that are newer by more than the
\* overlap: no disconnect, whatever other relays have sent and the shared cache knows or
\* has evicted, no time stamp in the far future, and no restart makes a reconnect skip
\* another one (firehose.go:65, firehose.go:146, firehose.go:171).
ReconnectSkipsNothing == \A r \in FirehoseRelays : \A e \in published[r] \ Got :
    InWindow(e) /\ ~Overtaken(r, e) =>
        IF Up(r) THEN e \in pending[r] ELSE CreatedAt[e] >= FilterSince(r)

\* An event that a relay has is consumed, or leaves the window first, or is skipped for
\* having been overtaken, which takes that the connection is lost before the relay comes to it:
\* nothing is dropped between an open subscription and the pipeline, however long the
\* channel stays full and however often the connections are lost (firehose.go:156).
PublishedIsConsumed == \A r \in FirehoseRelays, e \in Events :
    e \in published[r] ~> \/ e \in consumed
                          \/ ~InWindow(e)
                          \/ /\ Overtaken(r, e)
                             /\ e \notin pending[r] \union Got
=============================================================================
