----------------------------- MODULE RelayProofs -----------------------------
(***************************************************************************)
(* Proofs about the two components that read from relays, the firehose     *)
(* client and on-demand hydration, for any relays, events, keys, windows   *)
(* and bounds.                                                             *)
(*                                                                         *)
(* ReconnectSkipsNothing speaks of the subscription that is open or of the *)
(* one that would be opened now.  Inductive is that the mark is the time   *)
(* of an event that this relay has sent, and that an open subscription     *)
(* still has to bring all that was not overtaken.  That takes that the     *)
(* seen-cache only knows events that are on their way.  Nothing is assumed *)
(* of relays, of the times of events, or of how slack and overlap compare. *)
(*                                                                         *)
(* That hydration fetches nothing by two jobs at once needs more than the  *)
(* markers, which expire: each of them is in the hands of one job as long  *)
(* as that job runs.  That a complete hydration leaves nothing behind      *)
(* holds while nothing fails, and needs what a marker stands for: whoever  *)
(* is refused by it may rely on the job that set it.                       *)
(***************************************************************************)
EXTENDS Firehose, Hydration, TLAPS

-----------------------------------------------------------------------------
(* The firehose client *)

\* The mark is the time of an event that this relay has sent, and that was not too far ahead.
MarkInv == \A r \in FirehoseRelays : highWater[r] # 0 =>
    /\ highWater[r] <= now + FutureSlack
    /\ \E f \in sent[r] : CreatedAt[f] = highWater[r]

\* An open subscription was opened with a filter no later than today's.
SinceInv == \A r \in FirehoseRelays : Up(r) =>
    since[r] + Window <= now \/ since[r] + Overlap <= highWater[r]

\* A cached event is on its way to the pipeline.
SeenInv == \A i \in DOMAIN seen : seen[i] \in Got

\* An event that was not overtaken and is still to be received is pending.
BehindInv == \A r \in FirehoseRelays : \A e \in published[r] \ Got :
    InWindow(e) /\ ~Overtaken(r, e) /\ Up(r) => e \in pending[r]

FirehoseInv == FirehoseTypeOK /\ MarkInv /\ SinceInv /\ SeenInv /\ BehindInv

\* The mark is not further ahead of an event that was not overtaken than a reconnect goes back.
LEMMA NotBehind ==
    ASSUME FirehoseTypeOK, MarkInv, NEW r \in FirehoseRelays, NEW e \in Events, ~Overtaken(r, e)
    PROVE  highWater[r] <= CreatedAt[e] + Overlap
<1>1. highWater[r] \in Nat /\ CreatedAt[e] \in Nat /\ Overlap \in Nat
  BY WindowAssumption DEF FirehoseTypeOK
<1>2. CASE highWater[r] = 0
  BY <1>1, <1>2
<1>3. CASE highWater[r] # 0
  BY <1>1, <1>3 DEF MarkInv, Overtaken
<1> QED
  BY <1>2, <1>3

LEMMA FirehoseInvSkips == FirehoseInv => ReconnectSkipsNothing
<1> SUFFICES ASSUME FirehoseInv, NEW r \in FirehoseRelays, NEW e \in published[r] \ Got,
                    InWindow(e), ~Overtaken(r, e)
             PROVE  IF Up(r) THEN e \in pending[r] ELSE CreatedAt[e] >= FilterSince(r)
  BY DEF ReconnectSkipsNothing
<1>1. e \in Events /\ CreatedAt[e] \in Nat /\ highWater[r] \in Nat /\ now \in Nat
  BY WindowAssumption DEF FirehoseInv, FirehoseTypeOK
<1>2. highWater[r] <= CreatedAt[e] + Overlap
  BY <1>1, NotBehind DEF FirehoseInv
<1>3. CreatedAt[e] >= FilterSince(r)
  BY <1>1, <1>2, WindowAssumption DEF FilterSince, Resume, InWindow
<1> QED
  BY <1>3 DEF FirehoseInv, BehindInv

LEMMA InitFirehoseInv == InitFirehose => FirehoseInv
<1> SUFFICES ASSUME InitFirehose PROVE FirehoseInv
  OBVIOUS
<1>1. FirehoseTypeOK
  BY WindowAssumption DEF InitFirehose, FirehoseTypeOK, Up
<1>2. MarkInv /\ SinceInv /\ SeenInv
  BY WindowAssumption DEF InitFirehose, MarkInv, SinceInv, SeenInv, Up
<1>3. BehindInv
  BY WindowAssumption DEF InitFirehose, BehindInv, InWindow, Up
<1> QED
  BY <1>1, <1>2, <1>3 DEF FirehoseInv

-----------------------------------------------------------------------------
(* One lemma for each action that keeps the invariant with work. *)

LEMMA NextConnect ==
    ASSUME FirehoseInv, NEW r \in FirehoseRelays, Connect(r)
    PROVE  FirehoseInv'
<1> USE DEF FirehoseInv
<1>1. FilterSince(r) \in Nat /\ None # FilterSince(r)
  BY WindowAssumption DEF FirehoseTypeOK, FilterSince, Resume
<1>2. FirehoseTypeOK'
  BY <1>1 DEF Connect, FirehoseTypeOK, Up, bounds
<1>3. MarkInv' /\ SeenInv'
  BY DEF Connect, MarkInv, SeenInv, Got
<1>4. SinceInv'
  BY <1>1, WindowAssumption DEF Connect, SinceInv, Up, FilterSince, Resume, FirehoseTypeOK
<1>5. \A q \in FirehoseRelays : q # r => Up(q)' = Up(q) /\ pending'[q] = pending[q]
  BY DEF Connect, Up, FirehoseTypeOK
<1>6. pending'[r] = {e \in published[r] : CreatedAt[e] >= FilterSince(r)}
  BY DEF Connect, FirehoseTypeOK
<1>7. BehindInv'
  <2> SUFFICES ASSUME NEW q \in FirehoseRelays, NEW e \in published[q] \ Got, InWindow(e), ~Overtaken(q, e), Up(q)'
               PROVE  e \in pending'[q]
    BY DEF Connect, BehindInv, Got, InWindow, Overtaken
  <2>1. CASE q # r
    BY <2>1, <1>5 DEF BehindInv
  <2>2. CASE q = r
    <3>1. e \in Events /\ CreatedAt[e] \in Nat /\ highWater[q] \in Nat /\ now \in Nat
      BY WindowAssumption DEF FirehoseTypeOK
    <3>2. highWater[q] <= CreatedAt[e] + Overlap
      BY <3>1, NotBehind
    <3>3. CreatedAt[e] >= FilterSince(r)
      BY <2>2, <3>1, <3>2, WindowAssumption DEF FilterSince, Resume, InWindow
    <3> QED
      BY <2>2, <3>3, <1>6
  <2> QED
    BY <2>1, <2>2
<1> QED
  BY <1>2, <1>3, <1>4, <1>7

LEMMA NextDisconnect ==
    ASSUME FirehoseInv, NEW r \in FirehoseRelays, Disconnect(r)
    PROVE  FirehoseInv'
<1> USE DEF FirehoseInv
<1>1. FirehoseTypeOK'
  BY WindowAssumption DEF Disconnect, FirehoseTypeOK, Up
<1>2. MarkInv' /\ SeenInv'
  BY DEF Disconnect, MarkInv, SeenInv, Got
<1>3. /\ since'[r] = None
      /\ \A q \in FirehoseRelays : q # r => since'[q] = since[q] /\ pending'[q] = pending[q]
      /\ UNCHANGED <<now, published, highWater, queue, consumed, holding, sent>>
  BY DEF Disconnect, FirehoseTypeOK
<1>4. SinceInv'
  BY <1>3 DEF SinceInv, Up
<1>5. BehindInv'
  BY <1>3 DEF BehindInv, Got, InWindow, Overtaken, Up
<1> QED
  BY <1>1, <1>2, <1>4, <1>5
-----------------------------------------------------------------------------
(* What is received is sent, and may move the mark. *)

LEMMA AddedSeen ==
    ASSUME FirehoseTypeOK, NEW e \in Events
    PROVE  /\ Added(e) \in Seq(Events) /\ Len(Added(e)) <= CacheSize
           /\ \A i \in DOMAIN Added(e) :
                 Added(e)[i] = e \/ \E j \in DOMAIN seen : Added(e)[i] = seen[j]
<1>1. CASE Len(seen) < CacheSize
  BY <1>1, WindowAssumption DEF FirehoseTypeOK, Added
<1>2. CASE ~(Len(seen) < CacheSize)
  <2>1. Len(seen) = CacheSize /\ seen # <<>>
    BY <1>2, WindowAssumption DEF FirehoseTypeOK
  <2>2. Tail(seen) \in Seq(Events) /\ Len(Tail(seen)) + 1 = CacheSize
    BY <2>1, WindowAssumption DEF FirehoseTypeOK
  <2>3. \A j \in DOMAIN Tail(seen) : j + 1 \in DOMAIN seen /\ Tail(seen)[j] = seen[j + 1]
    BY <2>1 DEF FirehoseTypeOK
  <2> QED
    BY <1>2, <2>1, <2>2, <2>3, WindowAssumption DEF Added
<1> QED
  BY <1>1, <1>2

LEMMA NextReceive ==
    ASSUME FirehoseInv, NEW r \in FirehoseRelays, Receive(r)
    PROVE  FirehoseInv'
<1> USE DEF FirehoseInv
<1>1. PICK e \in pending[r] :
        /\ Up(r) /\ holding[r] = None
        /\ sent' = [sent EXCEPT ![r] = @ \union {e}]
        /\ pending' = [pending EXCEPT ![r] = @ \ {e}]
        /\ highWater' = [highWater EXCEPT ![r] = MarkOf(r, e)]
        /\ IF Cached(e) THEN UNCHANGED <<seen, holding>>
           ELSE seen' = Added(e) /\ holding' = [holding EXCEPT ![r] = e]
        /\ UNCHANGED <<now, published, since, queue, consumed, bounds>>
  BY DEF Receive
<1>2. e \in Events /\ e \in published[r] /\ CreatedAt[e] \in Nat /\ None \notin Events
  BY WindowAssumption DEF FirehoseTypeOK
<1>3. MarkOf(r, e) \in Nat /\ highWater[r] <= MarkOf(r, e)
      /\ (MarkOf(r, e) = highWater[r] \/ (MarkOf(r, e) = CreatedAt[e] /\ MarkOf(r, e) <= now + FutureSlack))
  BY <1>2, WindowAssumption DEF FirehoseTypeOK, MarkOf
<1>s. sent' \in [FirehoseRelays -> SUBSET Events] /\ sent'[r] = sent[r] \union {e}
      /\ \A q \in FirehoseRelays : sent[q] \subseteq sent'[q]
  BY <1>1, <1>2 DEF FirehoseTypeOK
<1>4. highWater' \in [FirehoseRelays -> Nat] /\ highWater'[r] = MarkOf(r, e)
      /\ \A q \in FirehoseRelays : q # r => highWater'[q] = highWater[q]
  BY <1>1, <1>3 DEF FirehoseTypeOK
<1>5. pending' \in [FirehoseRelays -> SUBSET Events] /\ pending'[r] = pending[r] \ {e}
      /\ \A q \in FirehoseRelays : q # r => pending'[q] = pending[q]
  BY <1>1 DEF FirehoseTypeOK
<1>6. seen' \in Seq(Events) /\ Len(seen') <= CacheSize
  BY <1>1, <1>2, AddedSeen DEF FirehoseTypeOK
<1>7. holding' \in [FirehoseRelays -> Events \union {None}]
      /\ \A q \in FirehoseRelays : q # r => holding'[q] = holding[q]
      /\ (holding'[r] = None \/ holding'[r] = e)
  <2>1. holding \in [FirehoseRelays -> Events \union {None}]
    BY DEF FirehoseTypeOK
  <2>2. CASE holding' = holding
    BY <1>1, <2>1, <2>2
  <2>3. CASE holding' = [holding EXCEPT ![r] = e]
    BY <1>2, <2>1, <2>3
  <2> QED
    BY <1>1, <2>2, <2>3
<1>8. (\A f \in Events : f \in Got => f \in Got') /\ e \in Got'
  <2>1. CASE Cached(e)
    BY <1>1, <2>1 DEF Got, Cached, SeenInv
  <2>2. CASE ~Cached(e)
    <3>1. holding'[r] = e
      BY <1>1, <2>2 DEF FirehoseTypeOK
    <3>2. \A q \in FirehoseRelays : holding[q] # None => holding'[q] = holding[q]
      BY <1>1, <1>7
    <3>3. ASSUME NEW f \in Events, f \in Got
          PROVE  f \in Got'
      BY <1>1, <1>2, <3>2, <3>3 DEF Got
    <3> QED
      BY <3>1, <3>3 DEF Got
  <2> QED
    BY <2>1, <2>2
<1>9. FirehoseTypeOK'
  <2>1. \A q \in FirehoseRelays : holding'[q] # None => Up(q)' /\ holding'[q] \in published'[q]
    BY <1>1, <1>2, <1>7 DEF FirehoseTypeOK, Up
  <2>2. \A q \in FirehoseRelays : pending'[q] \subseteq published'[q] /\ (~Up(q)' => pending'[q] = {})
    BY <1>1, <1>5 DEF FirehoseTypeOK, Up
  <2> QED
    BY <1>1, <1>4, <1>5, <1>6, <1>7, <1>s, <2>1, <2>2 DEF FirehoseTypeOK, bounds
<1>10. MarkInv'
  <2> SUFFICES ASSUME NEW q \in FirehoseRelays, highWater'[q] # 0
               PROVE  highWater'[q] <= now + FutureSlack /\ \E f \in sent'[q] : CreatedAt[f] = highWater'[q]
    BY <1>1 DEF MarkInv
  <2>1. CASE highWater'[q] = highWater[q]
    BY <2>1, <1>s DEF MarkInv
  <2>2. CASE highWater'[q] # highWater[q]
    <3>1. q = r /\ highWater'[q] = CreatedAt[e] /\ CreatedAt[e] <= now + FutureSlack
      BY <2>2, <1>3, <1>4
    <3> QED
      BY <3>1, <1>s
  <2> QED
    BY <2>1, <2>2
<1>11. SinceInv'
  BY <1>1, <1>3, <1>4, WindowAssumption DEF SinceInv, FirehoseTypeOK, Up
<1>12. SeenInv'
  <2> SUFFICES ASSUME NEW i \in DOMAIN seen' PROVE seen'[i] \in Got'
    BY DEF SeenInv
  <2>1. CASE Cached(e)
    BY <1>1, <1>8, <2>1 DEF SeenInv, FirehoseTypeOK
  <2>2. CASE ~Cached(e)
    <3>1. seen' = Added(e)
      BY <1>1, <2>2
    <3>2. seen'[i] = e \/ \E j \in DOMAIN seen : seen'[i] = seen[j]
      BY <3>1, <1>2, AddedSeen
    <3>3. \A j \in DOMAIN seen : seen[j] \in Events /\ seen[j] \in Got
      BY DEF SeenInv, FirehoseTypeOK
    <3> QED
      BY <3>2, <3>3, <1>8
  <2> QED
    BY <2>1, <2>2
<1>13. BehindInv'
  <2> SUFFICES ASSUME NEW q \in FirehoseRelays, NEW f \in published'[q] \ Got', InWindow(f)',
                      ~Overtaken(q, f)', Up(q)'
               PROVE  f \in pending'[q]
    BY DEF BehindInv
  <2>1. f \in published[q] \ Got /\ InWindow(f) /\ f # e /\ Up(q)
    BY <1>1, <1>8 DEF InWindow, FirehoseTypeOK, Up
  <2>2. ~Overtaken(q, f)
    BY <1>1, <1>s DEF Overtaken
  <2>3. f \in pending[q]
    BY <2>1, <2>2 DEF BehindInv
  <2> QED
    BY <2>1, <2>3, <1>5
<1> QED
  BY <1>9, <1>10, <1>11, <1>12, <1>13

LEMMA NextDeliver ==
    ASSUME FirehoseInv, NEW r \in FirehoseRelays, Deliver(r)
    PROVE  FirehoseInv'
<1> USE DEF FirehoseInv
<1>1. holding' = [holding EXCEPT ![r] = None] /\ queue' = queue \union {holding[r]}
      /\ holding[r] \in Events /\ UNCHANGED <<now, published, since, pending, highWater, seen, consumed, sent, bounds>>
  BY DEF Deliver, Offer, FirehoseTypeOK
<1>2. \A q \in FirehoseRelays : holding'[q] = IF q = r THEN None ELSE holding[q]
  BY <1>1 DEF FirehoseTypeOK
<1>3. \A f \in Events : f \in Got => f \in Got'
  BY <1>1, <1>2 DEF Got
<1>4. FirehoseTypeOK'
  BY <1>1, <1>2 DEF FirehoseTypeOK, Up, bounds
<1>5. MarkInv' /\ SinceInv'
  BY <1>1 DEF MarkInv, SinceInv, Up
<1>6. SeenInv'
  BY <1>1, <1>3 DEF SeenInv, FirehoseTypeOK
<1>7. BehindInv'
  BY <1>1, <1>3 DEF BehindInv, FirehoseTypeOK, Up, InWindow, Overtaken
<1> QED
  BY <1>4, <1>5, <1>6, <1>7

LEMMA NextTake ==
    ASSUME FirehoseInv, Take
    PROVE  FirehoseInv'
<1> USE DEF FirehoseInv
<1>1. Got' = Got /\ UNCHANGED <<now, published, client, sent, bounds>>
  BY DEF Take, Got, client
<1>2. FirehoseTypeOK'
  BY <1>1 DEF Take, FirehoseTypeOK, Up, client, bounds
<1>3. MarkInv' /\ SinceInv' /\ SeenInv' /\ BehindInv'
  BY <1>1 DEF MarkInv, SinceInv, SeenInv, BehindInv, Overtaken, Up, InWindow, client
<1> QED
  BY <1>2, <1>3

LEMMA NextCrash ==
    ASSUME FirehoseInv, Crash
    PROVE  FirehoseInv'
<1> USE DEF FirehoseInv
<1>1. crashes' \in 0..MaxCrashes
  BY WindowAssumption DEF Crash, FirehoseTypeOK
<1>2. FirehoseTypeOK'
  BY <1>1, WindowAssumption DEF Crash, FirehoseTypeOK, Up
<1>3. MarkInv'
  BY WindowAssumption DEF Crash, MarkInv, FirehoseTypeOK
<1>4. SinceInv' /\ SeenInv'
  BY DEF Crash, SinceInv, SeenInv, Up
<1>5. BehindInv'
  BY DEF Crash, BehindInv, Up
<1> QED
  BY <1>2, <1>3, <1>4, <1>5

LEMMA NextPublish ==
    ASSUME FirehoseInv, NEW r \in FirehoseRelays, Publish(r)
    PROVE  FirehoseInv'
<1> USE DEF FirehoseInv
<1>1. PICK e \in Carries[r] \ published[r] :
        /\ CreatedAt[e] - Ahead <= now /\ now <= CreatedAt[e] + Late
        /\ published' = [published EXCEPT ![r] = @ \union {e}]
        /\ pending' = IF Up(r) /\ CreatedAt[e] >= since[r]
                      THEN [pending EXCEPT ![r] = @ \union {e}] ELSE pending
        /\ UNCHANGED <<now, since, highWater, holding, seen, queue, consumed, sent, bounds>>
  BY DEF Publish
<1>2. e \in Events /\ CreatedAt[e] \in Nat /\ now \in Nat
  BY WindowAssumption DEF FirehoseTypeOK
<1>3. published' \in [FirehoseRelays -> SUBSET Events] /\ published'[r] = published[r] \union {e}
      /\ \A q \in FirehoseRelays : q # r => published'[q] = published[q]
  BY <1>1, <1>2 DEF FirehoseTypeOK
<1>4. pending' \in [FirehoseRelays -> SUBSET Events] /\ pending[r] \subseteq pending'[r]
      /\ pending'[r] \subseteq pending[r] \union {e}
      /\ \A q \in FirehoseRelays : q # r => pending'[q] = pending[q]
  BY <1>1, <1>2 DEF FirehoseTypeOK
<1>5. Up(r) /\ CreatedAt[e] >= since[r] => e \in pending'[r]
  BY <1>1 DEF FirehoseTypeOK
<1>6. ~Up(r) => pending'[r] = pending[r]
  BY <1>1
<1>7. Got' = Got
  BY <1>1 DEF Got
<1>8. FirehoseTypeOK'
  <2>1. \A q \in FirehoseRelays : pending'[q] \subseteq published'[q] /\ (~Up(q)' => pending'[q] = {})
    BY <1>1, <1>3, <1>4, <1>6 DEF FirehoseTypeOK, Up
  <2>2. \A q \in FirehoseRelays : holding'[q] # None => Up(q)' /\ holding'[q] \in published'[q]
    BY <1>1, <1>3 DEF FirehoseTypeOK, Up
  <2> QED
    BY <1>1, <1>3, <1>4, <2>1, <2>2 DEF FirehoseTypeOK, bounds
<1>9. MarkInv'
  BY <1>1 DEF MarkInv
<1>10. SinceInv' /\ SeenInv'
  BY <1>1, <1>7 DEF SinceInv, SeenInv, Up
<1>11. InWindow(e) /\ ~Overtaken(r, e) /\ Up(r) => CreatedAt[e] >= since[r]
  <2> SUFFICES ASSUME InWindow(e), ~Overtaken(r, e), Up(r) PROVE CreatedAt[e] >= since[r]
    OBVIOUS
  <2>1. since[r] \in Nat /\ highWater[r] \in Nat
    BY DEF Up, FirehoseTypeOK
  <2>2. since[r] + Window <= now \/ since[r] + Overlap <= highWater[r]
    BY DEF SinceInv
  <2>3. highWater[r] <= CreatedAt[e] + Overlap
    BY <1>2, NotBehind
  <2> QED
    BY <2>1, <2>2, <2>3, <1>2, WindowAssumption DEF InWindow
<1>12. BehindInv'
  <2> SUFFICES ASSUME NEW q \in FirehoseRelays, NEW f \in published'[q] \ Got', InWindow(f)',
                      ~Overtaken(q, f)', Up(q)'
               PROVE  f \in pending'[q]
    BY DEF BehindInv
  <2>1. InWindow(f) /\ ~Overtaken(q, f) /\ Up(q)
    BY <1>1 DEF InWindow, Overtaken, Up
  <2>2. CASE f \in published[q]
    BY <2>1, <2>2, <1>4, <1>7 DEF BehindInv
  <2>3. CASE f \notin published[q]
    <3>1. q = r /\ f = e
      BY <2>3, <1>3
    <3> QED
      BY <3>1, <2>1, <1>5, <1>11
  <2> QED
    BY <2>2, <2>3
<1> QED
  BY <1>8, <1>9, <1>10, <1>12

LEMMA NextTick ==
    ASSUME FirehoseInv, Tick
    PROVE  FirehoseInv'
<1> USE DEF FirehoseInv
<1>1. now' = now + 1 /\ now' \in StartNow..MaxNow /\ now \in Nat
      /\ UNCHANGED <<published, client, queue, consumed, sent, bounds>> /\ Got' = Got
  <2>1. now \in StartNow..MaxNow /\ StartNow \in Nat /\ MaxNow \in Nat
    BY WindowAssumption DEF FirehoseTypeOK
  <2>2. now < MaxNow /\ now' = now + 1 /\ UNCHANGED <<published, client, queue, consumed, sent, bounds>>
    BY DEF Tick
  <2>3. Got' = Got
    BY <2>2 DEF Got, client
  <2> QED
    BY <2>1, <2>2, <2>3
<1>2. FirehoseTypeOK'
  BY <1>1 DEF FirehoseTypeOK, Up, client, bounds
<1>3. MarkInv'
  BY <1>1, WindowAssumption DEF MarkInv, FirehoseTypeOK, client
<1>4. SinceInv' /\ SeenInv'
  BY <1>1, WindowAssumption DEF SinceInv, SeenInv, FirehoseTypeOK, Up, client
<1>5. BehindInv'
  <2> SUFFICES ASSUME NEW q \in FirehoseRelays, NEW f \in published[q] \ Got, InWindow(f)', ~Overtaken(q, f)', Up(q)
               PROVE  f \in pending[q]
    BY <1>1 DEF BehindInv, client, Up
  <2>1. InWindow(f)
    BY <1>1, WindowAssumption DEF InWindow, FirehoseTypeOK
  <2>2. ~Overtaken(q, f)
    BY <1>1, WindowAssumption DEF Overtaken, FirehoseTypeOK
  <2> QED
    BY <2>1, <2>2 DEF BehindInv
<1> QED
  BY <1>2, <1>3, <1>4, <1>5

LEMMA NextFirehoseInv == ASSUME FirehoseInv, [FirehoseNext]_firehoseVars PROVE FirehoseInv'
<1>1. CASE UNCHANGED firehoseVars
  BY <1>1 DEF firehoseVars, client, bounds, FirehoseInv, FirehoseTypeOK, MarkInv, SinceInv, SeenInv, BehindInv,
     Overtaken, Up, InWindow, Got
<1>2. CASE FirehoseNext
  BY <1>2, NextConnect, NextDisconnect, NextReceive, NextDeliver, NextPublish, NextTake,
     NextCrash, NextTick DEF FirehoseNext
<1> QED
  BY <1>1, <1>2

-----------------------------------------------------------------------------
\* No disconnect in the middle of a replay, no eviction from the shared cache, no time stamp in the
\* far future and no restart makes a reconnect skip an event of the window, unless its relay has
\* sent a newer one before it by more than the overlap (firehose.go, consumeRelay and filter).  For any
\* relays, any order in which they send, and any times, windows, slack and overlap.
THEOREM FirehoseSkipsNothing == FirehoseSpec => []ReconnectSkipsNothing
<1>1. InitFirehose => FirehoseInv
  BY InitFirehoseInv
<1>2. FirehoseInv /\ [FirehoseNext]_firehoseVars => FirehoseInv'
  BY NextFirehoseInv
<1>3. FirehoseInv => ReconnectSkipsNothing
  BY FirehoseInvSkips
<1> QED
  BY <1>1, <1>2, <1>3, PTL DEF FirehoseSpec

\* The client's state stays what runRelay and consumeRelay keep: pending events
\* are the relay's, a down relay has none, the cache is bounded.
THEOREM FirehoseTypes == FirehoseSpec => []FirehoseTypeOK
<1>1. FirehoseInv => FirehoseTypeOK
  BY DEF FirehoseInv
<1> QED
  BY <1>1, InitFirehoseInv, NextFirehoseInv, PTL DEF FirehoseSpec

-----------------------------------------------------------------------------
(* Hydration *)

\* A value is in the store, or a job is about to fetch or to insert it.
Coming(v) == v \in stored \/ \E l \in Keys : v \in left[l] \union has[l]

KeptFor(k) == \A v \in Promised(k) : Coming(v)

JobsInOrder ==
    \A k \in Keys :
        /\ phase[k] \in {"gate", "first"} => k \in Own /\ has[k] = {} /\ left[k] = {}
        /\ phase[k] = "claim" => left[k] = {}
        /\ has[k] \subseteq Held /\ out[k] \subseteq Held
        /\ left[k] \subseteq fresh[k]

\* A marker is in the hands of the job that set it, and of no other.
MarkersAreOwned == \A k, l \in Keys : k # l => fresh[k] \intersect fresh[l] = {}

\* While nothing fails, every relay answers every query with all it has of it.
RelaysAnswer == faults = 0 =>
    /\ backoff = {} /\ \A r \in Relays : mode[r] = "up"
    /\ \A k \in Keys : /\ ~deadline[k] /\ ~errs[k]
                       /\ phase[k] = "first" /\ Running(k) => wants[k] = First[k]
                       /\ \A r \in Relays :
                            /\ got[k][r] # "dead"
                            /\ wants[k] \intersect Has[r] \subseteq out[k] \/ got[k][r] = "asking"

\* While nothing fails, a value with a marker is coming, and what the records of a job are
\* asked for is kept from when the job has claimed it, as long as a marker may refuse another.
JobsKeep == faults = 0 =>
    /\ \A v \in marks \intersect Held : Coming(v)
    /\ \A k \in Keys :
        /\ phase[k] \in {"fetch", "closed"} => KeptFor(k)
        /\ k \in Own \intersect marks /\ phase[k] \notin {"first", "claim"} => KeptFor(k)
        /\ k \in Own /\ phase[k] = "claim" => First[k] \intersect Held \subseteq has[k]
    /\ \A r \in active : \A k \in KeysOf[r] \ waiting[r] : KeptFor(k)

OrderInv == TypeOK /\ JobsInOrder /\ MarkersAreOwned

HydrationInv == OrderInv /\ RelaysAnswer /\ JobsKeep

-----------------------------------------------------------------------------
(* Types and order *)

\* What a job leaves behind when it closes (user_feed_backfill.go:720-745).
LEMMA CloseOrder ==
    ASSUME OrderInv, NEW k \in Keys, NEW bad \in BOOLEAN, Close(k, bad), QueryTypeOK',
           wants'[k] = {}, \A l \in Keys \ {k} : wants'[l] = wants[l],
           \A l \in Keys : out'[l] \subseteq out[l],
           marks' = marks, stored' \subseteq Held
    PROVE  OrderInv'
<1> USE DEF Keys
<1>1. /\ phase' = [phase EXCEPT ![k] = IF bad THEN "broken" ELSE "closed"]
      /\ deadline' = [deadline EXCEPT ![k] = FALSE] /\ fresh' = [fresh EXCEPT ![k] = {}]
      /\ left' = [left EXCEPT ![k] = {}] /\ has' = [has EXCEPT ![k] = {}]
  BY DEF Close, Goto
<1>2. /\ phase'[k] \in {"broken", "closed"} /\ fresh'[k] = {} /\ left'[k] = {} /\ has'[k] = {}
      /\ ~deadline'[k] /\ ~Running(k)' /\ ~AtWork(k)'
  BY <1>1 DEF OrderInv, TypeOK, QueryTypeOK, Running, AtWork
<1>3. ASSUME NEW l \in Keys, l # k
      PROVE  /\ phase'[l] = phase[l] /\ fresh'[l] = fresh[l] /\ left'[l] = left[l]
             /\ has'[l] = has[l] /\ deadline'[l] = deadline[l] /\ wants'[l] = wants[l]
             /\ Running(l)' = Running(l) /\ AtWork(l)' = AtWork(l)
  BY <1>1, <1>3 DEF OrderInv, TypeOK, QueryTypeOK, Running, AtWork
<1>4. /\ phase' \in [Keys -> {"none", "gate", "first", "claim", "fetch", "closed", "broken"}]
      /\ fresh' \in [Keys -> SUBSET Markers] /\ left' \in [Keys -> SUBSET Values]
      /\ has' \in [Keys -> SUBSET Values]
  BY <1>1 DEF OrderInv, TypeOK
<1>5. /\ active' \subseteq Requests /\ waiting' \in [Requests -> SUBSET Keys]
      /\ \A r \in Requests : waiting'[r] # {} => r \in active'
  BY DEF Close, OrderInv, TypeOK
<1>6. Held' = Held
  BY DEF Held
<1>7. \A l \in Keys :
         /\ ~AtWork(l)' => left'[l] = {} /\ has'[l] = {} /\ fresh'[l] = {} /\ ~deadline'[l]
         /\ Running(l)' => phase'[l] \in {"first", "fetch"}
         /\ Running(l)' /\ phase'[l] = "fetch" => wants'[l] = left'[l]
         /\ fresh'[l] \subseteq marks'
  BY <1>2, <1>3 DEF OrderInv, TypeOK
<1>8. TypeOK'
  BY <1>4, <1>5, <1>6, <1>7 DEF OrderInv, TypeOK
<1>9. JobsInOrder'
  BY <1>2, <1>3, <1>6 DEF OrderInv, JobsInOrder
<1>10. MarkersAreOwned'
  BY <1>2, <1>3 DEF OrderInv, MarkersAreOwned
<1> QED
  BY <1>8, <1>9, <1>10 DEF OrderInv

LEMMA OrderInit == Init => OrderInv
  BY HydrationAssumption, RelayAssumption
  DEF Init, InitQuery, InitJobs, OrderInv, TypeOK, QueryTypeOK, JobsInOrder, MarkersAreOwned,
      AtWork, Running, NoneAsked, GotStates, Keys, Markers

\* Only the queries and their relays take part in it (relayquery.go).
LEMMA OrderRelays == OrderInv /\ RelayStep /\ UNCHANGED <<job, marks, stored, requests>> => OrderInv'
<1> SUFFICES ASSUME OrderInv, RelayStep, UNCHANGED <<job, marks, stored, requests>> PROVE OrderInv'
  OBVIOUS
<1> USE HydrationAssumption, RelayAssumption DEF Keys, OrderInv, TypeOK, QueryTypeOK
<1>1. /\ phase' = phase /\ fresh' = fresh /\ left' = left /\ has' = has
      /\ marks' = marks /\ stored' = stored /\ active' = active /\ waiting' = waiting
  BY DEF job, requests
<1> DEFINE onlyAnswers ==
        /\ QueryTypeOK' /\ wants' = wants
        /\ \A q \in Keys : /\ deadline'[q] = deadline[q] \/ Running(q)
                           /\ out'[q] \subseteq out[q] \union Held
<1>2. onlyAnswers
  <2>1. ASSUME NEW q \in Callers, NEW r \in Relays, NEW S \in SUBSET Held, Running(q), Collect(q, r, S),
               faults' \in 0..MaxFaults
        PROVE  onlyAnswers
    <3>1. S \subseteq Values
      BY DEF Held
    <3>2. /\ out' = [out EXCEPT ![q] = @ \union S] /\ got' = [got EXCEPT ![q] = [@ EXCEPT ![r] = "none"]]
          /\ wants' = wants /\ deadline' = deadline /\ mode' = mode /\ errs' = errs
          /\ backoff' \subseteq Relays
      BY <2>1 DEF Collect, RecordSuccess
    <3>3. out' \in [Callers -> SUBSET Values] /\ got' \in [Callers -> [Relays -> GotStates]]
      BY <3>1, <3>2 DEF GotStates
    <3>4. \A l \in Callers \ {q} : out'[l] = out[l] /\ got'[l] = got[l]
      BY <3>2
    <3>5. QueryTypeOK'
      BY <2>1, <3>2, <3>3, <3>4 DEF Running
    <3> QED
      BY <2>1, <3>2, <3>5
  <2>2. ASSUME NEW q \in Callers, NEW r \in Relays, Running(q), CollectError(q, r), UNCHANGED faults
        PROVE  onlyAnswers
    BY <2>2 DEF CollectError, RecordFailure, GotStates, Running
  <2>3. ASSUME NEW q \in Callers, NEW r \in Relays, got[q][r] = "asking" PROVE Running(q)
    BY <2>3 DEF NoneAsked
  <2>4. ASSUME NEW q \in Callers, NEW r \in Relays,
               Reply(q, r) \/ GoesQuiet(q, r) \/ DialTimesOut(q, r)
        PROVE  onlyAnswers
    <3>1. Running(q)
      BY <2>3, <2>4 DEF Reply, GoesQuiet, DialTimesOut
    <3>2. wants[q] \intersect Has[r] \in SUBSET Held /\ {} \in SUBSET Held
      BY DEF Held
    <3> QED
      BY <2>1, <2>2, <2>4, <3>1, <3>2 DEF Reply, GoesQuiet, DialTimesOut
  <2>5. ASSUME NEW q \in Callers, NEW r \in Relays, GoroutinePanics(q, r) PROVE onlyAnswers
    BY <2>3, <2>5 DEF GoroutinePanics, GotStates, Running
  <2>6. ASSUME NEW q \in Callers, Expire(q) PROVE onlyAnswers
    <3>1. /\ deadline' = [deadline EXCEPT ![q] = TRUE] /\ Running(q)
          /\ mode' = mode /\ backoff' = backoff /\ wants' = wants /\ got' = got /\ out' = out
          /\ errs' = errs /\ faults' \in 0..MaxFaults
      BY <2>6 DEF Expire, queries
    <3>2. deadline' \in [Callers -> BOOLEAN] /\ \A l \in Callers \ {q} : deadline'[l] = deadline[l]
      BY <3>1
    <3>3. QueryTypeOK'
      BY <3>1, <3>2 DEF Running
    <3>4. \A l \in Keys : deadline'[l] = deadline[l] \/ Running(l)
      BY <3>1, <3>2
    <3>5. \A l \in Keys : out'[l] \subseteq out[l] \union Held
      BY <3>1
    <3> QED
      BY <3>1, <3>3, <3>4, <3>5
  <2>7. ASSUME NEW r \in Relays, Break(r) \/ Recover(r) \/ BackoffEnds(r) PROVE onlyAnswers
    <3>1. /\ mode' \in [Relays -> {"up", "refuse", "silent"}] /\ backoff' \subseteq Relays
          /\ faults' \in 0..MaxFaults
      <4>1. CASE Break(r)
        BY <4>1 DEF Break
      <4>2. CASE Recover(r)
        BY <4>2 DEF Recover
      <4>3. CASE BackoffEnds(r)
        BY <4>3 DEF BackoffEnds
      <4> QED
        BY <2>7, <4>1, <4>2, <4>3
    <3>2. UNCHANGED queries /\ UNCHANGED deadline
      BY <2>7 DEF Break, Recover, BackoffEnds
    <3>3. wants' = wants /\ got' = got /\ out' = out /\ errs' = errs /\ deadline' = deadline
      BY <3>2 DEF queries
    <3> QED
      BY <3>1, <3>3 DEF Running
  <2> QED
    BY <2>4, <2>5, <2>6, <2>7 DEF RelayStep
<1>3. Held' = Held /\ \A k \in Keys : AtWork(k)' = AtWork(k) /\ Running(k)' = Running(k)
  BY <1>1, <1>2 DEF Held, AtWork, Running
<1>4. TypeOK'
  BY <1>1, <1>2, <1>3 DEF AtWork
<1>5. JobsInOrder' /\ MarkersAreOwned'
  BY <1>1, <1>2, <1>3 DEF JobsInOrder, MarkersAreOwned
<1> QED
  BY <1>4, <1>5

LEMMA OrderRequests ==
    OrderInv /\ (\E r \in Requests : Hydrate(r) \/ Complete(r) \/ GiveUp(r)) => OrderInv'
<1> USE HydrationAssumption DEF Keys
<1>0. UNCHANGED <<queryVars, fresh, left, has, marks, stored>> => 
         /\ QueryTypeOK' = QueryTypeOK /\ Held' = Held /\ \A k \in Keys : Running(k)' = Running(k)
         /\ wants' = wants /\ out' = out /\ deadline' = deadline
  BY DEF queryVars, queries, QueryTypeOK, Running, Held
<1>1. ASSUME OrderInv, NEW r \in Requests, Hydrate(r) PROVE OrderInv'
  <2>1. \A k \in Keys : \/ phase'[k] = phase[k]
                        \/ phase[k] = "none" /\ phase'[k] = "gate" /\ k \in Own
                        \/ phase[k] = "none" /\ phase'[k] = "claim"
    BY <1>1 DEF Hydrate, OrderInv, TypeOK
  <2>2. phase' \in [Keys -> {"none", "gate", "first", "claim", "fetch", "closed", "broken"}]
    BY <1>1 DEF Hydrate, OrderInv, TypeOK
  <2>3. /\ active' \subseteq Requests /\ waiting' \in [Requests -> SUBSET Keys]
        /\ \A q \in Requests : waiting'[q] # {} => q \in active'
    BY <1>1 DEF Hydrate, OrderInv, TypeOK
  <2>4. fresh' = fresh /\ left' = left /\ has' = has /\ marks' = marks /\ stored' = stored
    BY <1>1 DEF Hydrate
  <2> QED
    BY <1>0, <1>1, <2>1, <2>2, <2>3, <2>4
    DEF Hydrate, OrderInv, TypeOK, JobsInOrder, MarkersAreOwned, AtWork
<1>2. ASSUME OrderInv, NEW r \in Requests, Complete(r) \/ GiveUp(r) PROVE OrderInv'
  <2>1. UNCHANGED <<queryVars, job, marks, stored>>
    BY <1>2 DEF Complete, GiveUp
  <2>2. /\ active' \subseteq Requests /\ waiting' \in [Requests -> SUBSET Keys]
        /\ \A q \in Requests : waiting'[q] # {} => q \in active'
    BY <1>2 DEF Complete, GiveUp, OrderInv, TypeOK
  <2> QED
    BY <1>0, <1>2, <2>1, <2>2 DEF OrderInv, TypeOK, JobsInOrder, MarkersAreOwned, AtWork, job
<1> QED
  BY <1>1, <1>2

\* A query begins, and ends: only that of its caller changes.
LEMMA AskTypes ==
    ASSUME QueryTypeOK, NEW k \in Callers, NEW W \in SUBSET Values, W # {}, Ask(k, W),
           UNCHANGED <<mode, backoff, deadline, faults>>
    PROVE  /\ QueryTypeOK' /\ wants'[k] = W /\ out'[k] = {} /\ ~errs'[k]
           /\ got'[k] = [r \in Relays |-> IF r \in Healthy THEN "asking" ELSE "none"]
           /\ \A l \in Callers \ {k} : /\ wants'[l] = wants[l] /\ out'[l] = out[l]
                                       /\ got'[l] = got[l] /\ errs'[l] = errs[l]
<1>1. [r \in Relays |-> IF r \in Healthy THEN "asking" ELSE "none"] \in [Relays -> GotStates]
  BY DEF GotStates
<1> QED
  BY <1>1 DEF Ask, QueryTypeOK, Running

LEMMA ReturnTypes ==
    ASSUME QueryTypeOK, NEW k \in Callers, Return(k), UNCHANGED <<mode, backoff, faults>>,
           deadline' \in [Callers -> BOOLEAN]
    PROVE  /\ QueryTypeOK' /\ wants'[k] = {} /\ out'[k] = {} /\ ~errs'[k] /\ got'[k] = NoneAsked
           /\ \A l \in Callers \ {k} : /\ wants'[l] = wants[l] /\ out'[l] = out[l]
                                       /\ got'[l] = got[l] /\ errs'[l] = errs[l]
<1>1. NoneAsked \in [Relays -> GotStates]
  BY DEF NoneAsked, GotStates
<1> QED
  BY <1>1 DEF Return, QueryTypeOK, Running

LEMMA OrderJobs ==
    ASSUME OrderInv, NEW k \in Keys, JobStep(k) \/ InsertFails(k) \/ JobPanics(k)
    PROVE  OrderInv'
<1> USE HydrationAssumption, RelayAssumption DEF Keys
<1>0. /\ OrderInv /\ TypeOK /\ QueryTypeOK /\ Held' = Held
      /\ deadline \in [Keys -> BOOLEAN] /\ [deadline EXCEPT ![k] = FALSE] \in [Keys -> BOOLEAN]
  BY DEF OrderInv, TypeOK, QueryTypeOK, Held
<1>1. CASE GateRefused(k)
  <2>1. phase[k] = "gate" /\ ~Running(k)
    BY <1>0, <1>1 DEF GateRefused, TypeOK
  <2>2. /\ QueryTypeOK' /\ wants' = wants /\ out' = out /\ marks' = marks /\ stored' = stored
    BY <1>0, <1>1 DEF GateRefused, Close, queries, QueryTypeOK, Running
  <2> QED
    BY <1>0, <1>1, <2>1, <2>2, CloseOrder DEF GateRefused, Running, TypeOK
<1>2. CASE GateOpen(k)
  <2>1. phase[k] = "gate" /\ ~Running(k) /\ k \in Own /\ has[k] = {} /\ left[k] = {}
    BY <1>0, <1>2 DEF GateOpen, OrderInv, TypeOK, JobsInOrder
  <2>2. /\ First[k] \in SUBSET Values /\ First[k] # {}
    BY <2>1
  <2>3. /\ QueryTypeOK' /\ wants'[k] = First[k] /\ out'[k] = {}
        /\ \A l \in Callers \ {k} : wants'[l] = wants[l] /\ out'[l] = out[l]
    BY <1>0, <1>2, <2>2, AskTypes DEF GateOpen
  <2>4. /\ deadline' = deadline /\ left' = left /\ has' = has /\ stored' = stored
        /\ UNCHANGED requests /\ marks' = marks \union {k}
        /\ phase' = [phase EXCEPT ![k] = "first"] /\ fresh' = [fresh EXCEPT ![k] = {k}]
        /\ k \notin marks /\ k \in Markers
    BY <1>2, <2>1 DEF GateOpen, Goto, Cool, Markers
  <2>5. \A l \in Keys : k \notin fresh[l]
    BY <1>0, <2>4 DEF TypeOK
  <2>6. TypeOK'
    BY <1>0, <2>1, <2>3, <2>4 DEF TypeOK, requests, AtWork, Running, Markers
  <2>7. JobsInOrder'
    BY <1>0, <2>1, <2>3, <2>4 DEF OrderInv, TypeOK, JobsInOrder
  <2>8. MarkersAreOwned'
    BY <1>0, <2>4, <2>5 DEF OrderInv, TypeOK, MarkersAreOwned
  <2> QED
    BY <2>6, <2>7, <2>8 DEF OrderInv
<1>3. CASE FirstReturns(k)
  <2>1. phase[k] = "first" /\ Running(k) /\ k \in Own /\ has[k] = {} /\ left[k] = {} /\ out[k] \subseteq Held
    BY <1>0, <1>3 DEF FirstReturns, OrderInv, JobsInOrder, Return, CanReturn
  <2>2. deadline' \in [Keys -> BOOLEAN]
    BY <1>0, <1>3 DEF FirstReturns, Close
  <2>3. /\ QueryTypeOK' /\ wants'[k] = {} /\ out'[k] = {}
        /\ \A l \in Callers \ {k} : wants'[l] = wants[l] /\ out'[l] = out[l]
    BY <1>0, <1>3, <2>2, ReturnTypes DEF FirstReturns
  <2>4. marks' = marks /\ stored' = stored
    BY <1>3 DEF FirstReturns
  <2>5. CASE Failed(k) /\ k \in Strict
    BY <1>0, <1>3, <2>3, <2>4, <2>5, CloseOrder DEF FirstReturns, TypeOK
  <2>6. CASE ~(Failed(k) /\ k \in Strict)
    <3>1. /\ has' = [has EXCEPT ![k] = out[k]] /\ phase' = [phase EXCEPT ![k] = "claim"]
          /\ UNCHANGED <<deadline, fresh, left, requests>>
      BY <1>3, <2>6 DEF FirstReturns, Goto
    <3>2. out[k] \subseteq Values
      BY <1>0 DEF QueryTypeOK
    <3>3. TypeOK'
      BY <1>0, <2>1, <2>3, <2>4, <3>1, <3>2 DEF TypeOK, requests, AtWork, Running
    <3>4. JobsInOrder' /\ MarkersAreOwned'
      BY <1>0, <2>1, <2>3, <2>4, <3>1 DEF OrderInv, TypeOK, JobsInOrder, MarkersAreOwned
    <3> QED
      BY <3>3, <3>4 DEF OrderInv
  <2> QED
    BY <2>5, <2>6
<1>4. CASE Claim(k)
  <2> DEFINE open == {v \in Claimable(k) : Cool(v)}
  <2>1. /\ phase[k] = "claim" /\ phase' = [phase EXCEPT ![k] = "fetch"]
        /\ left' = [left EXCEPT ![k] = open] /\ marks' = marks \union open
        /\ fresh' = [fresh EXCEPT ![k] = @ \union open]
        /\ UNCHANGED <<queryVars, has, stored, requests>>
    BY <1>4 DEF Claim, Goto
  <2>2. /\ open \subseteq Values /\ open \subseteq Markers /\ open \intersect marks = {}
    BY DEF Claimable, Cool, Markers
  <2>3. \A l \in Keys : fresh[l] \intersect open = {}
    BY <1>0, <2>2 DEF TypeOK
  <2>4. ~Running(k)
    BY <1>0, <2>1 DEF TypeOK
  <2>5. QueryTypeOK' /\ wants' = wants /\ out' = out /\ deadline' = deadline
    BY <1>0, <2>1 DEF queryVars, queries, QueryTypeOK, Running
  <2> HIDE DEF open
  <2>6. TypeOK'
    BY <1>0, <2>1, <2>2, <2>4, <2>5 DEF TypeOK, requests, AtWork, Running
  <2>7. JobsInOrder'
    BY <1>0, <2>1, <2>5 DEF OrderInv, TypeOK, JobsInOrder
  <2>8. MarkersAreOwned'
    BY <1>0, <2>1, <2>3 DEF OrderInv, TypeOK, MarkersAreOwned
  <2> QED
    BY <2>6, <2>7, <2>8 DEF OrderInv
<1>5. CASE AskIds(k)
  <2>1. /\ phase[k] = "fetch" /\ left[k] \in SUBSET Values /\ left[k] # {} /\ ~Running(k)
        /\ UNCHANGED <<deadline, job, marks, stored, requests>>
    BY <1>0, <1>5 DEF AskIds, TypeOK
  <2>2. /\ QueryTypeOK' /\ wants'[k] = left[k] /\ out'[k] = {}
        /\ \A l \in Callers \ {k} : wants'[l] = wants[l] /\ out'[l] = out[l]
    BY <1>0, <1>5, <2>1, AskTypes DEF AskIds
  <2>3. TypeOK'
    BY <1>0, <2>1, <2>2 DEF TypeOK, requests, job, AtWork, Running
  <2>4. JobsInOrder' /\ MarkersAreOwned'
    BY <1>0, <2>1, <2>2 DEF OrderInv, JobsInOrder, MarkersAreOwned, job
  <2> QED
    BY <2>3, <2>4 DEF OrderInv
<1>6. CASE IdsReturn(k)
  <2>1. /\ phase[k] = "fetch" /\ UNCHANGED <<deadline, phase, fresh, marks, stored, requests>>
        /\ has' = [has EXCEPT ![k] = @ \union out[k]] /\ left' = [left EXCEPT ![k] = {}]
    BY <1>6 DEF IdsReturn
  <2>2. /\ QueryTypeOK' /\ wants'[k] = {} /\ out'[k] = {}
        /\ \A l \in Callers \ {k} : wants'[l] = wants[l] /\ out'[l] = out[l]
    BY <1>0, <1>6, <2>1, ReturnTypes DEF IdsReturn
  <2>3. out[k] \subseteq Values
    BY <1>0 DEF QueryTypeOK
  <2>4. TypeOK'
    BY <1>0, <2>1, <2>2, <2>3 DEF TypeOK, requests, AtWork, Running
  <2>5. JobsInOrder' /\ MarkersAreOwned'
    BY <1>0, <2>1, <2>2 DEF OrderInv, TypeOK, JobsInOrder, MarkersAreOwned
  <2> QED
    BY <2>4, <2>5 DEF OrderInv
<1>7. CASE Insert(k) \/ InsertFails(k) \/ JobPanics(k)
  <2>1. /\ wants' = wants /\ out' = out /\ got' = got /\ errs' = errs /\ mode' = mode
        /\ backoff' = backoff /\ marks' = marks /\ faults' \in 0..MaxFaults
    <3>1. UNCHANGED <<mode, backoff, queries, marks>>
      BY <1>7 DEF Insert, InsertFails, JobPanics
    <3>2. faults \in 0..MaxFaults /\ (faults' = faults \/ (faults < MaxFaults /\ faults' = faults + 1))
      BY <1>0, <1>7 DEF Insert, InsertFails, JobPanics, QueryTypeOK
    <3> QED
      BY <3>1, <3>2 DEF queries
  <2>2. ~Running(k) /\ \E bad \in BOOLEAN : Close(k, bad)
    BY <1>7 DEF Insert, InsertFails, JobPanics, Fetched
  <2>3. stored' \subseteq Held
    <3>1. stored \subseteq Held /\ has[k] \subseteq Held
      BY DEF OrderInv, TypeOK, JobsInOrder
    <3> QED
      BY <1>7, <3>1 DEF Insert, InsertFails, JobPanics
  <2>4. QueryTypeOK'
    <3>1. deadline' \in [Callers -> BOOLEAN]
      BY <1>0, <2>2 DEF Close
    <3> QED
      BY <1>0, <2>1, <3>1 DEF QueryTypeOK, Running
  <2> QED
    BY <2>1, <2>2, <2>3, <2>4, CloseOrder DEF Running
<1>8. CASE Leave(k)
  <2>1. /\ phase[k] \in {"closed", "broken"} /\ phase' = [phase EXCEPT ![k] = "none"]
        /\ UNCHANGED <<queryVars, fresh, left, has, marks, stored, requests>>
    BY <1>8 DEF Leave, Goto
  <2>2. QueryTypeOK' /\ wants' = wants /\ out' = out /\ deadline' = deadline
    BY <1>0, <2>1 DEF queryVars, queries, QueryTypeOK, Running
  <2>3. TypeOK'
    BY <1>0, <2>1, <2>2 DEF TypeOK, requests, AtWork, Running
  <2>4. JobsInOrder' /\ MarkersAreOwned'
    BY <1>0, <2>1, <2>2 DEF OrderInv, TypeOK, JobsInOrder, MarkersAreOwned
  <2> QED
    BY <2>3, <2>4 DEF OrderInv
<1> QED
  BY <1>1, <1>2, <1>3, <1>4, <1>5, <1>6, <1>7, <1>8 DEF JobStep

LEMMA OrderNext == OrderInv /\ [Next]_vars => OrderInv'
<1> SUFFICES ASSUME OrderInv, [Next]_vars PROVE OrderInv'
  OBVIOUS
<1>1. ASSUME NEW m \in Markers, MarkExpires(m) PROVE OrderInv'
  BY <1>1 DEF MarkExpires, OrderInv, TypeOK, QueryTypeOK, JobsInOrder, MarkersAreOwned, queryVars,
      queries, job, requests, AtWork, Running, Held
<1>2. ASSUME UNCHANGED vars PROVE OrderInv'
  BY <1>2 DEF vars, OrderInv, TypeOK, QueryTypeOK, JobsInOrder, MarkersAreOwned, queryVars,
      queries, job, requests, AtWork, Running, Held
<1> QED
  BY <1>1, <1>2, OrderRelays, OrderRequests, OrderJobs DEF Next

\* No two jobs hold a marker, and so no two ask for one value (README.md:152).
LEMMA OrderImpliesOneFetch == OrderInv => OneFetchPerValue
  BY DEF OrderInv, JobsInOrder, MarkersAreOwned, OneFetchPerValue

\* At any time the jobs, the markers, the queries and the requests are in order: a job
\* that is not at work holds nothing, and what the store has came from a relay.
THEOREM HydrationTypes == Spec => []TypeOK
<1>1. OrderInv => TypeOK
  BY DEF OrderInv
<1> QED
  BY <1>1, OrderInit, OrderNext, PTL DEF Spec

\* Repeated requests for the same data do not fan out to the relays every time, whatever
\* fails, times out or panics (README.md:152).
THEOREM HydrationFetchesOnce == Spec => []OneFetchPerValue
  BY OrderInit, OrderNext, OrderImpliesOneFetch, PTL DEF Spec

-----------------------------------------------------------------------------
(* While nothing fails *)

LEMMA FaultsStay == OrderInv /\ [Next]_vars /\ faults' = 0 => faults = 0
<1> SUFFICES ASSUME OrderInv, [Next]_vars PROVE faults' = faults \/ faults' = faults + 1
  BY DEF OrderInv, TypeOK, QueryTypeOK
<1>1. CASE RelayStep
  BY <1>1 DEF RelayStep, Reply, GoesQuiet, DialTimesOut, GoroutinePanics, Expire, Break, Recover,
      BackoffEnds
<1>2. ASSUME NEW k \in Keys, JobStep(k) \/ InsertFails(k) \/ JobPanics(k)
      PROVE  faults' = faults \/ faults' = faults + 1
  BY <1>2 DEF JobStep, GateRefused, GateOpen, FirstReturns, Claim, AskIds, IdsReturn, Insert, Leave,
      InsertFails, JobPanics, queryVars
<1>3. ASSUME NEW r \in Requests, Hydrate(r) \/ Complete(r) \/ GiveUp(r) PROVE faults' = faults
  BY <1>3 DEF Hydrate, Complete, GiveUp, queryVars
<1> QED
  BY <1>1, <1>2, <1>3 DEF Next, MarkExpires, vars, queryVars

\* A query that returns in time has all that any relay has of what it wanted
\* (relayquery.go:60-110).
LEMMA AnswersAreWhole ==
    ASSUME RelaysAnswer, faults = 0, NEW k \in Keys, Return(k)
    PROVE  wants[k] \intersect Held \subseteq out[k] /\ ~Failed(k)
<1>1. got[k] = NoneAsked /\ ~errs[k]
  BY DEF RelaysAnswer, Return, CanReturn
<1>2. \A r \in Relays : wants[k] \intersect Has[r] \subseteq out[k]
  BY <1>1 DEF RelaysAnswer, NoneAsked
<1> QED
  BY <1>1, <1>2 DEF Held, Failed

LEMMA AnswerInit == Init => RelaysAnswer
  BY HydrationAssumption, RelayAssumption
  DEF Init, InitQuery, InitJobs, RelaysAnswer, Running, NoneAsked, Keys

LEMMA AnswerRelays ==
    ASSUME OrderInv, RelaysAnswer, faults = 0, faults' = 0, RelayStep,
           UNCHANGED <<job, marks, stored, requests>>
    PROVE  RelaysAnswer'
<1> USE HydrationAssumption, RelayAssumption DEF Keys, OrderInv, TypeOK, QueryTypeOK
<1>1. /\ backoff = {} /\ \A r \in Relays : mode[r] = "up"
      /\ \A k \in Keys : ~deadline[k] /\ \A r \in Relays : got[k][r] # "dead"
  BY DEF RelaysAnswer
<1>2. PICK q \in Callers, r \in Relays : Reply(q, r)
  <2>1. ~\E q \in Callers, r \in Relays : GoesQuiet(q, r) \/ DialTimesOut(q, r) \/ GoroutinePanics(q, r)
    BY <1>1 DEF GoesQuiet, DialTimesOut, GoroutinePanics
  <2>2. ~\E q \in Callers : Expire(q)
    BY <1>1 DEF Expire
  <2>3. ~\E r \in Relays : Break(r) \/ Recover(r) \/ BackoffEnds(r)
    BY <1>1 DEF Break, Recover, BackoffEnds
  <2> QED
    BY <2>1, <2>2, <2>3 DEF RelayStep
<1>3. /\ out' = [out EXCEPT ![q] = @ \union (wants[q] \intersect Has[r])]
      /\ got' = [got EXCEPT ![q] = [@ EXCEPT ![r] = "none"]]
      /\ UNCHANGED <<mode, wants, errs, deadline>> /\ backoff' = {}
  BY <1>1, <1>2 DEF Reply, Collect, RecordSuccess
<1>4. \A k \in Callers \ {q} : out'[k] = out[k] /\ got'[k] = got[k]
  BY <1>3
<1>5. /\ out'[q] = out[q] \union (wants[q] \intersect Has[r])
      /\ got'[q] = [got[q] EXCEPT ![r] = "none"]
  BY <1>3
<1>6. phase' = phase
  BY DEF job
<1> QED
  BY <1>3, <1>4, <1>5, <1>6 DEF RelaysAnswer, Running

LEMMA AnswerJobs ==
    ASSUME OrderInv, RelaysAnswer, faults = 0, faults' = 0, NEW k \in Keys, JobStep(k)
    PROVE  RelaysAnswer'
<1> USE HydrationAssumption, RelayAssumption DEF Keys
<1>0. /\ TypeOK /\ QueryTypeOK /\ deadline \in [Keys -> BOOLEAN]
      /\ phase \in [Keys -> {"none", "gate", "first", "claim", "fetch", "closed", "broken"}]
      /\ (phase[k] = "gate" => k \in Own)
  BY DEF OrderInv, TypeOK, QueryTypeOK, JobsInOrder
<1>1. Healthy = Relays
  BY DEF RelaysAnswer, Healthy, Available
<1>2. ASSUME NEW W \in SUBSET Values, W # {}, Ask(k, W), UNCHANGED <<mode, backoff, deadline, faults>>,
             phase'[k] = "first" => W = First[k], \A l \in Keys \ {k} : phase'[l] = phase[l]
      PROVE  RelaysAnswer'
  <2>1. /\ wants'[k] = W /\ ~errs'[k]
        /\ got'[k] = [r \in Relays |-> IF r \in Healthy THEN "asking" ELSE "none"]
        /\ \A l \in Keys \ {k} : /\ wants'[l] = wants[l] /\ out'[l] = out[l]
                                 /\ got'[l] = got[l] /\ errs'[l] = errs[l]
    BY <1>0, <1>2, AskTypes
  <2>2. \A r \in Relays : got'[k][r] = "asking"
    BY <1>1, <2>1
  <2> QED
    BY <1>2, <2>1, <2>2 DEF RelaysAnswer, Running
<1>3. ASSUME Return(k), UNCHANGED <<mode, backoff, faults>>, deadline' \in [Keys -> BOOLEAN],
             \A l \in Keys \ {k} : phase'[l] = phase[l] /\ deadline'[l] = deadline[l], ~deadline'[k]
      PROVE  RelaysAnswer'
  <2>1. /\ wants'[k] = {} /\ ~errs'[k] /\ got'[k] = NoneAsked
        /\ \A l \in Keys \ {k} : /\ wants'[l] = wants[l] /\ out'[l] = out[l]
                                 /\ got'[l] = got[l] /\ errs'[l] = errs[l]
    BY <1>0, <1>3, ReturnTypes
  <2> QED
    BY <1>3, <2>1 DEF RelaysAnswer, Running, NoneAsked
<1>4. ASSUME UNCHANGED <<mode, backoff, queries, faults>>, phase'[k] # "first",
             \A l \in Keys \ {k} : phase'[l] = phase[l] /\ deadline'[l] = deadline[l],
             ~deadline'[k]
      PROVE  RelaysAnswer'
  BY <1>4 DEF RelaysAnswer, Running, queries
<1>5. ASSUME NEW bad \in BOOLEAN, Close(k, bad)
      PROVE  /\ deadline' \in [Keys -> BOOLEAN] /\ ~deadline'[k]
             /\ \A l \in Keys \ {k} : phase'[l] = phase[l] /\ deadline'[l] = deadline[l]
             /\ phase'[k] # "first"
  BY <1>0, <1>5 DEF Close, Goto
<1>6. ~deadline[k]
  BY DEF RelaysAnswer
<1>7. CASE GateRefused(k) \/ Insert(k)
  BY <1>4, <1>5, <1>7 DEF GateRefused, Insert
<1>8. CASE GateOpen(k)
  <2>1. First[k] \in SUBSET Values /\ First[k] # {}
    BY <1>0, <1>8 DEF GateOpen
  <2> QED
    BY <1>0, <1>2, <1>8, <2>1 DEF GateOpen, Goto
<1>9. CASE FirstReturns(k)
  BY <1>0, <1>3, <1>5, <1>6, <1>9 DEF FirstReturns, Goto
<1>10. CASE IdsReturn(k)
  BY <1>0, <1>3, <1>6, <1>10 DEF IdsReturn
<1>11. CASE AskIds(k)
  <2>1. left[k] \in SUBSET Values /\ left[k] # {} /\ phase'[k] = "fetch" /\ phase' = phase
    BY <1>0, <1>11 DEF AskIds, TypeOK, job
  <2>2. Ask(k, left[k]) /\ UNCHANGED <<mode, backoff, deadline, faults>>
    BY <1>11 DEF AskIds
  <2> QED
    BY <1>2, <2>1, <2>2
<1>12. CASE Claim(k) \/ Leave(k)
  BY <1>0, <1>4, <1>6, <1>12 DEF Claim, Leave, Goto, queryVars
<1> QED
  BY <1>7, <1>8, <1>9, <1>10, <1>11, <1>12 DEF JobStep

\* Requests, deadlines of markers and clean steps leave the queries alone.
LEMMA AnswerOthers ==
    ASSUME OrderInv, RelaysAnswer, UNCHANGED queryVars,
           \A k \in Keys : phase'[k] = "first" => phase[k] = "first"
    PROVE  RelaysAnswer'
  BY DEF RelaysAnswer, Running, queryVars, queries

LEMMA AnswerNext == OrderInv /\ RelaysAnswer /\ [Next]_vars => RelaysAnswer'
<1> SUFFICES ASSUME OrderInv, RelaysAnswer, [Next]_vars, faults' = 0 PROVE RelaysAnswer'
  BY DEF RelaysAnswer
<1>1. faults = 0
  BY FaultsStay
<1>2. ASSUME NEW k \in Keys, InsertFails(k) \/ JobPanics(k) PROVE FALSE
  BY <1>1, <1>2 DEF InsertFails, JobPanics
<1>3. ASSUME NEW r \in Requests, Hydrate(r) \/ Complete(r) \/ GiveUp(r) PROVE RelaysAnswer'
  <2>1. UNCHANGED queryVars /\ \A k \in Keys : phase'[k] = "first" => phase[k] = "first"
    BY <1>3 DEF Hydrate, Complete, GiveUp, job
  <2> QED
    BY <2>1, AnswerOthers
<1>4. ASSUME (\E m \in Markers : MarkExpires(m)) \/ UNCHANGED vars PROVE RelaysAnswer'
  BY <1>4, AnswerOthers DEF MarkExpires, vars, job
<1> QED
  BY <1>1, <1>2, <1>3, <1>4, AnswerRelays, AnswerJobs DEF Next

-----------------------------------------------------------------------------
(* What is promised is kept *)

LEMMA PromisedIsHeld == \A k \in Keys : Promised(k) \subseteq Held /\ Promised(k)' = Promised(k)
  BY DEF Promised, Held

LEMMA KeepInit == Init => JobsKeep
  BY DEF Init, InitQuery, InitJobs, JobsKeep

\* Of what a job wants or has, nothing is lost while nothing fails: what the answer to
\* its query has is kept, and it closes only after it has inserted (user_feed_backfill.go:600-720).
LEMMA ComingStays ==
    ASSUME OrderInv, RelaysAnswer, faults = 0, faults' = 0, NEW k \in Keys, JobStep(k)
    PROVE  /\ \A v \in Held : Coming(v) => Coming(v)'
           /\ \A l \in Keys : KeptFor(l) => KeptFor(l)'
<1> USE DEF Keys
<1>0. /\ left \in [Keys -> SUBSET Values] /\ has \in [Keys -> SUBSET Values]
      /\ (phase[k] \in {"gate", "first"} => has[k] = {} /\ left[k] = {})
      /\ (phase[k] = "claim" => left[k] = {})
      /\ ~deadline[k] /\ (Running(k) /\ phase[k] = "fetch" => wants[k] = left[k])
  BY DEF OrderInv, TypeOK, JobsInOrder, RelaysAnswer
<1>1. stored \subseteq stored'
  BY DEF JobStep, GateRefused, GateOpen, FirstReturns, Claim, AskIds, IdsReturn, Insert, Leave
<1>2. \A l \in Keys \ {k} : left'[l] = left[l] /\ has'[l] = has[l]
  BY <1>0 DEF JobStep, GateRefused, GateOpen, FirstReturns, Claim, AskIds, IdsReturn, Insert, Leave,
      Close, job
<1>3. \A v \in Held : v \in left[k] \union has[k] => v \in left'[k] \union has'[k] \union stored'
  <2>1. CASE GateRefused(k) \/ GateOpen(k) \/ FirstReturns(k)
    BY <1>0, <2>1 DEF GateRefused, GateOpen, FirstReturns
  <2>2. CASE Claim(k)
    BY <1>0, <2>2 DEF Claim
  <2>3. CASE AskIds(k) \/ Leave(k)
    BY <2>3 DEF AskIds, Leave, job
  <2>4. CASE IdsReturn(k)
    <3>1. left[k] \intersect Held \subseteq out[k]
      BY <1>0, <2>4, AnswersAreWhole DEF IdsReturn, Return, CanReturn
    <3>2. has'[k] = has[k] \union out[k]
      BY <1>0, <2>4 DEF IdsReturn
    <3> QED
      BY <3>1, <3>2
  <2>5. CASE Insert(k)
    BY <1>0, <2>5 DEF Insert, Fetched
  <2> QED
    BY <2>1, <2>2, <2>3, <2>4, <2>5 DEF JobStep
<1>4. \A v \in Held : Coming(v) => Coming(v)'
  <2> SUFFICES ASSUME NEW v \in Held, Coming(v) PROVE Coming(v)'
    OBVIOUS
  <2>1. CASE v \in stored
    BY <1>1, <2>1 DEF Coming
  <2>2. ASSUME NEW l \in Keys \ {k}, v \in left[l] \union has[l] PROVE Coming(v)'
    BY <1>2, <2>2 DEF Coming
  <2>3. CASE v \in left[k] \union has[k]
    BY <1>3, <2>3 DEF Coming
  <2> QED
    BY <2>1, <2>2, <2>3 DEF Coming
<1> QED
  BY <1>4, PromisedIsHeld DEF KeptFor

LEMMA KeepJobs ==
    ASSUME OrderInv, RelaysAnswer, JobsKeep, faults = 0, faults' = 0, NEW k \in Keys, JobStep(k)
    PROVE  JobsKeep'
<1> USE DEF Keys
<1>0. /\ phase \in [Keys -> {"none", "gate", "first", "claim", "fetch", "closed", "broken"}]
      /\ waiting \in [Requests -> SUBSET Keys] /\ active \subseteq Requests
      /\ has \in [Keys -> SUBSET Values] /\ left \in [Keys -> SUBSET Values]
      /\ (phase[k] \in {"gate", "first"} => k \in Own) /\ Held' = Held /\ Held \subseteq Values
      /\ (\A l \in Own : l \notin Held /\ l \notin Values) /\ \A r \in active : KeysOf[r] \subseteq Keys
  BY HydrationAssumption, RelayAssumption DEF OrderInv, TypeOK, JobsInOrder, Held
<1>1. /\ \A v \in Held : Coming(v) => Coming(v)'
      /\ \A l \in Keys : KeptFor(l) => KeptFor(l)'
  BY ComingStays
<1>f. FirstReturns(k) => phase'[k] = "claim"
  BY <1>0, AnswersAreWhole DEF FirstReturns, Goto
<1>2. \A v \in marks' \intersect Held : Coming(v)'
  <2>1. CASE GateOpen(k)
    <3>1. marks' = marks \union {k} /\ k \in Own
      BY <1>0, <2>1 DEF GateOpen
    <3>2. k \notin Held
      BY <1>0, <3>1
    <3> QED
      BY <1>0, <1>1, <3>1, <3>2 DEF JobsKeep
  <2>2. CASE Claim(k)
    BY <1>0, <1>1, <2>2 DEF Claim, JobsKeep, Coming
  <2>3. CASE ~GateOpen(k) /\ ~Claim(k)
    <3>1. marks' = marks
      BY <2>3 DEF JobStep, GateRefused, FirstReturns, AskIds, IdsReturn, Insert, Leave
    <3> QED
      BY <1>0, <1>1, <3>1 DEF JobsKeep
  <2> QED
    BY <2>1, <2>2, <2>3
<1>3. \A l \in Keys \ {k} : /\ phase'[l] = phase[l] /\ has'[l] = has[l]
                            /\ l \in marks' /\ l \in Own => l \in marks
  <2>1. \A l \in Keys \ {k} : phase'[l] = phase[l] /\ has'[l] = has[l]
    BY <1>0 DEF JobStep, GateRefused, GateOpen, FirstReturns, Claim, AskIds, IdsReturn, Insert, Leave,
        Close, job, Goto
  <2>2. \A l \in Own : l \in marks' => l \in marks \/ l = k
    <3>1. CASE Claim(k)
      <4>1. Claimable(k) \subseteq Values
        BY HydrationAssumption DEF Claimable
      <4>2. marks' \subseteq marks \union Values
        BY <3>1, <4>1 DEF Claim
      <4> QED
        BY <1>0, <4>2
    <3>2. CASE GateOpen(k)
      BY <3>2 DEF GateOpen
    <3>3. CASE ~Claim(k) /\ ~GateOpen(k)
      BY <3>3 DEF JobStep, GateRefused, FirstReturns, AskIds, IdsReturn, Insert, Leave
    <3> QED
      BY <3>1, <3>2, <3>3
  <2> QED
    BY <2>1, <2>2
<1>4. Claim(k) => KeptFor(k)'
  <2> SUFFICES ASSUME Claim(k), NEW v \in Promised(k) PROVE Coming(v)'
    BY PromisedIsHeld DEF KeptFor
  <2>1. /\ left'[k] = {u \in Claimable(k) : Cool(u)} /\ has' = has /\ phase[k] = "claim"
    BY <1>0 DEF Claim
  <2>2. v \in Held
    BY PromisedIsHeld
  <2>3. CASE v \in Claimable(k)
    BY <1>1, <2>1, <2>2, <2>3 DEF Cool, Coming, JobsKeep
  <2>4. CASE v \notin Claimable(k)
    <3>1. k \in Own => First[k] \intersect Held \subseteq has[k]
      BY <2>1 DEF JobsKeep
    <3>2. k \notin Own => First[k] = {}
      BY HydrationAssumption
    <3>3. v \in has[k]
      BY <2>4, <3>1, <3>2 DEF Promised, Claimable
    <3> QED
      BY <2>1, <3>3 DEF Coming
  <2> QED
    BY <2>3, <2>4
<1>5. phase'[k] \in {"fetch", "closed"} => KeptFor(k)'
  <2>1. CASE GateRefused(k)
    <3>1. phase[k] = "gate" /\ k \in marks /\ k \in Own
      BY <1>0, <2>1 DEF GateRefused, Cool
    <3> QED
      BY <1>1, <3>1 DEF JobsKeep
  <2>2. CASE GateOpen(k) \/ FirstReturns(k)
    BY <1>0, <1>f, <2>2 DEF GateOpen, Goto
  <2>3. CASE AskIds(k) \/ IdsReturn(k) \/ Insert(k)
    <3>1. phase[k] = "fetch"
      BY <2>3 DEF AskIds, IdsReturn, Insert, Fetched
    <3> QED
      BY <1>1, <3>1 DEF JobsKeep
  <2>4. CASE Leave(k)
    BY <1>0, <2>4 DEF Leave, Goto
  <2> QED
    BY <1>4, <2>1, <2>2, <2>3, <2>4 DEF JobStep
<1>6. k \in Own \intersect marks' /\ phase'[k] \notin {"first", "claim"} => KeptFor(k)'
  <2>1. CASE Leave(k)
    BY <1>0, <1>1, <2>1 DEF Leave, JobsKeep
  <2>2. CASE ~Leave(k)
    <3>1. phase'[k] \in {"first", "claim", "fetch", "closed"}
      <4>1. CASE GateRefused(k) \/ Insert(k)
        BY <1>0, <4>1 DEF GateRefused, Insert, Close, Goto
      <4>2. CASE GateOpen(k) \/ Claim(k)
        BY <1>0, <4>2 DEF GateOpen, Claim, Goto
      <4>3. CASE AskIds(k) \/ IdsReturn(k)
        BY <1>0, <4>3 DEF AskIds, IdsReturn, job
      <4> QED
        BY <1>f, <2>2, <4>1, <4>2, <4>3 DEF JobStep
    <3> QED
      BY <1>5, <3>1
  <2> QED
    BY <2>1, <2>2
<1>7. k \in Own /\ phase'[k] = "claim" => First[k] \intersect Held \subseteq has'[k]
  <2>1. CASE FirstReturns(k)
    <3>1. Return(k) /\ Running(k) /\ phase[k] = "first" /\ ~Failed(k)
      BY <2>1, AnswersAreWhole DEF FirstReturns, Return, CanReturn
    <3>2. has'[k] = out[k] /\ wants[k] = First[k]
      BY <1>0, <2>1, <3>1 DEF FirstReturns, RelaysAnswer
    <3> QED
      BY <3>1, <3>2, AnswersAreWhole
  <2>2. CASE ~FirstReturns(k)
    <3>1. phase'[k] # "claim"
      BY <1>0, <2>2 DEF JobStep, GateRefused, GateOpen, Claim, AskIds, IdsReturn, Insert, Leave,
          Close, Goto, job, Fetched
    <3> QED
      BY <3>1
  <2> QED
    BY <2>1, <2>2
<1>8. \A r \in active' : \A l \in KeysOf[r] \ waiting'[r] : KeptFor(l)'
  <2> SUFFICES ASSUME NEW r \in active', NEW l \in KeysOf[r] \ waiting'[r] PROVE KeptFor(l)'
    OBVIOUS
  <2>1. CASE GateRefused(k) \/ Insert(k)
    <3>1. Close(k, FALSE)
      BY <2>1 DEF GateRefused, Insert
    <3>2. active' \subseteq active /\ phase'[k] = "closed"
      BY <1>0, <3>1 DEF Close, Goto
    <3>3. r \in active /\ r \in Requests /\ waiting'[r] = waiting[r] \ {k}
      BY <1>0, <3>1, <3>2 DEF Close
    <3> QED
      BY <1>0, <1>1, <1>5, <3>2, <3>3 DEF JobsKeep
  <2>2. CASE ~GateRefused(k) /\ ~Insert(k)
    <3>1. active' = active /\ waiting' = waiting
      <4>1. FirstReturns(k) => UNCHANGED requests
        BY AnswersAreWhole DEF FirstReturns, requests
      <4> QED
        BY <2>2, <4>1 DEF JobStep, GateOpen, Claim, AskIds, IdsReturn, Leave, requests
    <3> QED
      BY <1>0, <1>1, <3>1 DEF JobsKeep
  <2> QED
    BY <2>1, <2>2
<1> QED
  BY <1>0, <1>1, <1>2, <1>3, <1>5, <1>6, <1>7, <1>8 DEF JobsKeep

LEMMA KeepNext == HydrationInv /\ [Next]_vars => JobsKeep'
<1> SUFFICES ASSUME HydrationInv, [Next]_vars, faults' = 0 PROVE JobsKeep'
  BY DEF JobsKeep
<1> USE DEF Keys
<1>1. OrderInv /\ RelaysAnswer /\ JobsKeep /\ faults = 0
  BY FaultsStay DEF HydrationInv
<1>k. \A r \in Requests : KeysOf[r] \subseteq Keys
  BY HydrationAssumption
<1>r. active \subseteq Requests
  BY <1>1 DEF OrderInv, TypeOK
<1>2. UNCHANGED <<left, has, stored>> =>
         /\ \A v \in Held : Coming(v) => Coming(v)'
         /\ \A l \in Keys : KeptFor(l) => KeptFor(l)'
  BY PromisedIsHeld DEF Coming, KeptFor
<1>3. ASSUME NEW k \in Keys, InsertFails(k) \/ JobPanics(k) PROVE FALSE
  BY <1>1, <1>3 DEF InsertFails, JobPanics
<1>4. ASSUME UNCHANGED <<left, has, marks, stored, phase, active, waiting>> PROVE JobsKeep'
  BY <1>k, <1>r, <1>1, <1>2, <1>4 DEF JobsKeep, Held
<1>5. ASSUME NEW r \in Requests, Hydrate(r) PROVE JobsKeep'
  <2>1. UNCHANGED <<left, has, marks, stored>>
    BY <1>5 DEF Hydrate
  <2>2. /\ phase \in [Keys -> {"none", "gate", "first", "claim", "fetch", "closed", "broken"}]
        /\ waiting \in [Requests -> SUBSET Keys] /\ active \subseteq Requests
        /\ KeysOf[r] \subseteq Keys
    BY <1>1, HydrationAssumption DEF OrderInv, TypeOK
  <2>3. \A k \in Keys : \/ phase'[k] = phase[k]
                        \/ phase[k] = "none" /\ phase'[k] = "gate"
                        \/ phase[k] = "none" /\ phase'[k] = "claim" /\ k \notin Own
    BY <1>5, <2>2 DEF Hydrate
  <2>4. \A q \in active' : \A k \in KeysOf[q] \ waiting'[q] : KeptFor(k)
    <3>1. ASSUME NEW k \in KeysOf[r] \ waiting'[r], r \in active' PROVE KeptFor(k)
      <4>1. phase[k] = "closed"
        BY <1>5, <2>2, <3>1 DEF Hydrate
      <4> QED
        BY <1>1, <2>2, <4>1 DEF JobsKeep
    <3>2. \A q \in active' \ {r} : q \in active /\ waiting'[q] = waiting[q]
      BY <1>5, <2>2 DEF Hydrate
    <3> QED
      BY <1>1, <3>1, <3>2 DEF JobsKeep
  <2>5. \A q \in active' : \A k \in KeysOf[q] : k \in Keys
    BY <1>5, <2>2, HydrationAssumption DEF Hydrate
  <2> QED
    BY <1>1, <1>2, <2>1, <2>3, <2>4, <2>5 DEF JobsKeep, Held
<1>6. ASSUME NEW r \in Requests, Complete(r) \/ GiveUp(r) PROVE JobsKeep'
  <2>1. UNCHANGED <<left, has, marks, stored, phase>>
    BY <1>6 DEF Complete, GiveUp, job
  <2>2. waiting \in [Requests -> SUBSET Keys] /\ active \subseteq Requests
    BY <1>1 DEF OrderInv, TypeOK
  <2>3. \A q \in active' : q \in active /\ waiting'[q] = waiting[q]
    BY <1>6, <2>2 DEF Complete, GiveUp
  <2>4. \A q \in active' : \A k \in KeysOf[q] : k \in Keys
    BY <2>2, <2>3, HydrationAssumption
  <2> QED
    BY <1>1, <1>2, <2>1, <2>3, <2>4 DEF JobsKeep, Held
<1>7. ASSUME NEW m \in Markers, MarkExpires(m) PROVE JobsKeep'
  <2>1. UNCHANGED <<left, has, stored, phase, active, waiting>> /\ marks' \subseteq marks
    BY <1>7 DEF MarkExpires, job, requests
  <2>2. \A q \in active : \A k \in KeysOf[q] : k \in Keys
    BY <1>1, HydrationAssumption DEF OrderInv, TypeOK
  <2> QED
    BY <1>1, <1>2, <2>1, <2>2 DEF JobsKeep, Held
<1> QED
  BY <1>1, <1>3, <1>4, <1>5, <1>6, <1>7, KeepJobs DEF Next, vars, job, requests

\* A request that is told its hydration is complete finds what the relays have for it, or
\* another job is about to insert it, as long as nothing fails: being refused by a marker,
\* joining a job at its end, or a marker that expires between two jobs, loses nothing
\* (user_feed_backfill.go:560-760).
THEOREM HydrationCompleteMeansStored == Spec => []CompleteMeansStored
<1>1. HydrationInv => CompleteMeansStored
  <2> SUFFICES ASSUME HydrationInv, NEW r \in Requests, r \in active, waiting[r] = {}, faults = 0,
                      NEW k \in KeysOf[r]
               PROVE  KeptFor(k)
    BY DEF CompleteMeansStored, KeptFor, Coming
  <2> QED
    BY DEF HydrationInv, JobsKeep
<1>2. HydrationInv /\ [Next]_vars => HydrationInv'
  BY OrderNext, AnswerNext, KeepNext DEF HydrationInv
<1>3. Init => HydrationInv
  BY OrderInit, AnswerInit, KeepInit DEF HydrationInv
<1> QED
  BY <1>1, <1>2, <1>3, PTL DEF Spec
=============================================================================
