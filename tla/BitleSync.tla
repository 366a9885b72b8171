----------------------------- MODULE BitleSync ------------------------------
(***************************************************************************)
(* The gossip sync (src/main/bitle_sync.c).  Every Bitle keeps recent      *)
(* public packets (SyncStore), asks each neighbour once a minute for what  *)
(* it lacks with a Golomb-coded filter of what it has (GcsFilter), and     *)
(* answers such requests.  The host task stores arriving packets while the *)
(* worker task is in the middle of an answer: the slots are selected under *)
(* the lock and read again, one by one, after it was released.             *)
(*                                                                         *)
(* A link is a pair of nodes.  Ages count steps of half a minute, and time *)
(* passes only when no exchange is under way.  Phones ask when they like.  *)
(* The rate limit reads the wall clock, which may step either way while    *)
(* time passes; the request interval reads the uptime.                     *)
(***************************************************************************)
EXTENDS SyncStore, GcsFilter

CONSTANTS TableSize,     \* entries of s_peers
          RateMax,       \* RATE_MAX_RESPONSES
          RateWindow,    \* RATE_WINDOW_MS, in steps
          Interval,      \* REQUEST_INTERVAL_MS, in steps
          MaxReplay,     \* MAX_REPLAY_PER_REQ
          MaxStep,       \* bound: how far the wall clock steps at once
          Scenes         \* the configurations to start from

\* A scene: bitles, handle (of each link at its first node), publish (the
\* pairs of a node and a packet that may be flooded to it), expire (the
\* identifiers that may expire), faults, steps (of a wall clock).
VARIABLES store,     \* of each Bitle
          peers,     \* of each Bitle, its table s_peers
          job,       \* of each Bitle, the answer its worker is giving
          net,       \* of each link, what is on its way
          gap,       \* of each link, the age of the last request sent on it
          answers,   \* of each link, the ages of the requests on it that were let through
          expired,   \* identifiers of packets out of their window
          left,      \* publications still to come
          steps,     \* of each Bitle, the ages of the recent steps of its clock
          stepsLeft, faults, scene

clock == <<steps, stepsLeft>>
vars == <<store, peers, job, net, gap, answers, expired, left, clock, faults, scene>>

Bitles == scene.bitles
Links == DOMAIN scene.handle
AllTypes == {"announce", "message", "prekey"}   \* the type flags of a request

\* An age that no step of the clock brings back into the window.
LongAgo == RateWindow + 1 + scene.steps * MaxStep
\* window is the wall clock's distance from window_start_ms.
NoPeer == [handle |-> 0, count |-> 0, window |-> LongAgo, request |-> Interval + 1]
NoJob == [to |-> Free, slots |-> <<>>]

Init ==
  /\ scene \in Scenes
  /\ store = [n \in Bitles |-> EmptyStore]
  /\ peers = [n \in Bitles |-> [i \in 1..TableSize |-> NoPeer]]
  /\ job = [n \in Bitles |-> NoJob]
  /\ net = [l \in Links |-> <<>>]
  /\ gap = [l \in Links |-> Interval]
  /\ answers = [l \in Links |-> <<>>]
  /\ expired = {}
  /\ left = scene.publish
  /\ steps = [n \in Bitles |-> <<>>] /\ stepsLeft = scene.steps
  /\ faults = scene.faults

---------------------------------------------------------------------------
(* The table of peers.  An entry is free when its handle is 0, so that the *)
(* connection with handle 0 finds any free entry to be its own.            *)

peer_state(table, h) ==
  LET mine == {i \in 1..TableSize : table[i].handle = h}
      idle == {i \in 1..TableSize : table[i].handle = 0}
      oldest == {i \in 1..TableSize :
                   \A j \in 1..TableSize : table[j].request <= table[i].request}
      i == FirstOf(IF mine # {} THEN mine ELSE IF idle # {} THEN idle ELSE oldest)
  IN  [i |-> i,
       table |-> IF mine # {} THEN table
                 ELSE [table EXCEPT ![i] = [NoPeer EXCEPT !.handle = h]]]

---------------------------------------------------------------------------
type_requested(type, flags) == Class(type) \in flags

FreshIds(n, flags) ==
  {p.id : p \in {q \in Stored(store[n]) :
                   type_requested(q.type, flags) /\ slot_fresh(q, expired)}}

\* The request a Bitle sends; known is what its filter stands for.
Request(n) ==
  LET ids == FreshIds(n, AllTypes)
      b == collect_buckets(ids)
  IN  [kind |-> "request", p |-> GcsP, m |-> b.m, filter |-> gcs_encode(b.sorted, GcsP),
       flags |-> AllTypes, since |-> 0, known |-> b.sorted, valid |-> TRUE]

\* The mutated form ignores the filter.
SelectedMutant(n, req) ==
  LET all == SelectSeq([i \in Slots |-> i], LAMBDA i : store[n].slots[i] # Free)
  IN  SubSeq(all, 1, IF Len(all) < MaxReplay THEN Len(all) ELSE MaxReplay)

\* The slots that answer a request, in the order of the table.
Selected(n, req) ==
  LET buckets == gcs_decode(req.filter, req.p, req.m)
      lacks(p) == ~(req.m > 1 /\ buckets # <<>>
                    /\ sorted_contains(buckets, gcs_bucket(p.id, req.m)))
      wanted(i) ==
        LET p == store[n].slots[i]
        IN  /\ p # Free
            /\ type_requested(p.type, req.flags) /\ slot_fresh(p, expired)
            /\ p.type \in {"announce", "prekey"} \/ p.ts >= req.since
            /\ lacks(p)
      all == SelectSeq([i \in Slots |-> i], wanted)
  IN  SubSeq(all, 1, IF Len(all) < MaxReplay THEN Len(all) ELSE MaxReplay)

Arrive(l, m) == net' = [net EXCEPT ![l] = Append(@, m)]

\* A new packet reaches a Bitle by the ordinary flood.
Publish(n, p) ==
  /\ <<n, p>> \in left
  /\ left' = left \ {<<n, p>>}
  /\ store' = [store EXCEPT ![n] = bitle_sync_ingest(@, p, expired)]
  /\ UNCHANGED <<peers, job, net, gap, answers, expired, clock, faults, scene>>

\* The periodic request: due an interval after the last one.
bitle_sync_tick(l) ==
  LET n == l[1]
      s == peer_state(peers[n], scene.handle[l])
  IN  /\ n \in Bitles /\ job[n] = NoJob
      /\ s.table[s.i].request >= Interval
      /\ peers' = [peers EXCEPT ![n] = [s.table EXCEPT ![s.i].request = 0]]
      /\ Arrive(l, Request(n))
      /\ gap' = [gap EXCEPT ![l] = 0]
      /\ UNCHANGED <<store, job, answers, expired, left, clock, faults, scene>>

\* A phone asks for some types, since some time, with an empty filter, or its
\* request does not verify or does not parse.
PhoneAsks(l) ==
  /\ l[1] \notin Bitles /\ net[l] = <<>>
  /\ job[l[2]] = NoJob
  /\ \E ask \in {[flags |-> {"message"}, since |-> 0, valid |-> TRUE],
                 [flags |-> AllTypes, since |-> 2, valid |-> TRUE],
                 [flags |-> {}, since |-> 0, valid |-> FALSE]} :
       Arrive(l, [kind |-> "request", p |-> GcsP, m |-> 1, filter |-> <<>>,
                  flags |-> ask.flags, since |-> ask.since, known |-> <<>>, valid |-> ask.valid])
  /\ UNCHANGED <<store, peers, job, gap, answers, expired, left, clock, faults, scene>>

\* The window is over, or the clock was set back past its start, and the
\* unsigned difference wraps.
WindowOver(e) == e.window > RateWindow \/ e.window < 0

\* The worker takes a request of a verified peer: a limited number in a window,
\* the ones that do not verify or parse included, and then the slots are
\* selected.
bitle_sync_handle_request(l) ==
  LET n == l[2]
      back == <<n, l[1]>>
      s == peer_state(peers[n], scene.handle[back])
      e == s.table[s.i]
      w == IF WindowOver(e) THEN [e EXCEPT !.window = 0, !.count = 0] ELSE e
      ok == w.count < RateMax
      answered == ok /\ Head(net[l]).valid
      picks == Selected(n, Head(net[l]))
  IN  /\ n \in Bitles /\ job[n] = NoJob
      /\ net[l] # <<>> /\ Head(net[l]).kind = "request"
      /\ net' = [net EXCEPT ![l] = Tail(@)]
      /\ peers' = [peers EXCEPT ![n] =
                     [s.table EXCEPT ![s.i] = IF ok THEN [w EXCEPT !.count = @ + 1] ELSE w]]
      /\ job' = [job EXCEPT ![n] = IF answered /\ picks # <<>> THEN [to |-> l[1], slots |-> picks] ELSE @]
      /\ answers' = [answers EXCEPT ![l] = IF ok THEN Append(@, 0) ELSE @]
      /\ UNCHANGED <<store, gap, expired, left, clock, faults, scene>>

\* One slot is read again and sent, or the send fails.
ReplayOne(n) ==
  LET l == <<n, job[n].to>>
      p == store[n].slots[Head(job[n].slots)]
  IN  /\ job[n] # NoJob
      /\ \/ Arrive(l, [kind |-> "packet", packet |-> p]) /\ UNCHANGED faults
         \/ faults > 0 /\ faults' = faults - 1 /\ UNCHANGED net
      /\ job' = [job EXCEPT ![n] = IF Len(@.slots) = 1 THEN NoJob
                                   ELSE [@ EXCEPT !.slots = Tail(@)]]
      /\ UNCHANGED <<store, peers, gap, answers, expired, left, clock, scene>>

\* A replayed packet arrives; a phone's traffic is its own affair.
Receive(l) ==
  LET n == l[2] IN
  /\ net[l] # <<>>
  /\ n \notin Bitles \/ Head(net[l]).kind = "packet"
  /\ store' = IF n \in Bitles
                THEN [store EXCEPT ![n] = bitle_sync_ingest(@, Head(net[l]).packet, expired)]
                ELSE store
  /\ net' = [net EXCEPT ![l] = Tail(@)]
  /\ UNCHANGED <<peers, job, gap, answers, expired, left, clock, faults, scene>>

Quiet == (\A l \in Links : net[l] = <<>>) /\ (\A n \in Bitles : job[n] = NoJob)

Older(age, cap) == IF age < cap THEN age + 1 ELSE cap

\* A periodic request is due.
TickDue(l) ==
  /\ l \in Links /\ l[1] \in Bitles /\ job[l[1]] = NoJob
  /\ LET s == peer_state(peers[l[1]], scene.handle[l])
     IN  s.table[s.i].request >= Interval

Resting == Quiet /\ \A l \in Links : ~TickDue(l)

\* What the last RateWindow holds of a sequence of ages, a step later.
Aged(ages) == SelectSeq([i \in 1..Len(ages) |-> ages[i] + 1], LAMBDA age : age <= RateWindow)

\* Half a minute passes; the worker looks for due requests every second.
Pass ==
  /\ Resting
  /\ peers' = [n \in Bitles |-> [i \in 1..TableSize |->
                 [peers[n][i] EXCEPT !.window = Older(@, LongAgo),
                                     !.request = IF @ > Interval THEN @ ELSE Older(@, Interval)]]]
  /\ gap' = [l \in Links |-> Older(gap[l], Interval)]
  /\ answers' = [l \in Links |-> Aged(answers[l])]
  /\ steps' = [n \in Bitles |-> Aged(steps[n])]
  /\ UNCHANGED <<store, job, net, expired, left, stepsLeft, faults, scene>>

\* Gossip or a trace sets the wall clock, forward or back.
ClockStep(n, d) ==
  /\ stepsLeft > 0 /\ stepsLeft' = stepsLeft - 1
  /\ peers' = [peers EXCEPT ![n] = [i \in 1..TableSize |->
                 [peers[n][i] EXCEPT !.window = IF @ + d < LongAgo THEN @ + d ELSE LongAgo]]]
  /\ steps' = [steps EXCEPT ![n] = Append(@, 0)]
  /\ UNCHANGED <<store, job, net, gap, answers, expired, left, faults, scene>>

\* A packet leaves its window.
Expire(id) ==
  /\ id \in scene.expire \ expired
  /\ expired' = expired \cup {id}
  /\ UNCHANGED <<store, peers, job, net, gap, answers, left, clock, faults, scene>>

\* bitle_sync_init after a restart, which also ends the connections.
Reboot(n) ==
  /\ faults > 0 /\ faults' = faults - 1
  /\ store' = [store EXCEPT ![n] = EmptyStore]
  /\ peers' = [peers EXCEPT ![n] = [i \in 1..TableSize |-> NoPeer]]
  /\ job' = [b \in Bitles |-> IF b = n \/ job[b].to = n THEN NoJob ELSE job[b]]
  /\ net' = [l \in Links |-> IF n \in {l[1], l[2]} THEN <<>> ELSE net[l]]
  /\ gap' = [l \in Links |-> IF l[1] = n THEN Interval ELSE gap[l]]
  /\ answers' = [l \in Links |-> IF l[2] = n THEN <<>> ELSE answers[l]]
  /\ UNCHANGED <<expired, left, clock, scene>>

Next ==
  \/ \E n \in Bitles : (\E p \in Packets : Publish(n, p)) \/ ReplayOne(n) \/ Reboot(n)
                      \/ \E d \in -MaxStep..MaxStep \ {0} : ClockStep(n, d)
  \/ \E l \in Links : \/ bitle_sync_tick(l) \/ PhoneAsks(l)
                      \/ bitle_sync_handle_request(l) \/ Receive(l)
  \/ Pass
  \/ \E p \in Packets : Expire(p.id)

Spec == Init /\ [][Next]_vars

---------------------------------------------------------------------------
(* The worker's loop, the host task and time go on. *)
AllLinks == UNION {DOMAIN s.handle : s \in Scenes}
AllBitles == UNION {s.bitles : s \in Scenes}

Asked(l) ==
  /\ l \in Links /\ l[2] \in Bitles /\ job[l[2]] = NoJob
  /\ net[l] # <<>> /\ Head(net[l]).kind = "request"
Comes(l) ==
  l \in Links /\ net[l] # <<>> /\ (l[2] \notin Bitles \/ Head(net[l]).kind = "packet")
Replaying(n) == n \in Bitles /\ job[n] # NoJob

FairSpec ==
  /\ Spec
  /\ \A l \in AllLinks :
       /\ []<>~TickDue(l) \/ []<><<bitle_sync_tick(l)>>_vars
       /\ []<>~Asked(l) \/ []<><<bitle_sync_handle_request(l)>>_vars
       /\ []<>~Comes(l) \/ []<><<Receive(l)>>_vars
  /\ \A n \in AllBitles : []<>~Replaying(n) \/ []<><<ReplayOne(n)>>_vars
  /\ []<>~Resting \/ []<><<Pass>>_vars

---------------------------------------------------------------------------
TypeOK ==
  /\ \A n \in Bitles :
       /\ store[n].slots \in [Slots -> Packets \cup {Free}]
       /\ ToSet(store[n].order) = {i \in Slots : store[n].slots[i] # Free}
       /\ IsInjective(store[n].order)
       /\ \A i \in 1..TableSize : peers[n][i].count \in 0..RateMax
       /\ ToSet(job[n].slots) \subseteq Slots /\ Len(job[n].slots) <= MaxReplay
  /\ expired \subseteq {p.id : p \in Packets} /\ left \subseteq scene.publish
  /\ faults \in 0..scene.faults

\* No packet is stored twice, and of an owner's announces, capabilities and
\* prekey bundles one of each is kept, whatever came in whatever order: the
\* search of the whole table before a slot is taken (bitle_sync.c:390-409).
OnePerOwner ==
  \A n \in Bitles : \A i, j \in DOMAIN store[n].slots :
    LET p == store[n].slots[i]
        q == store[n].slots[j]
    IN  i # j /\ p # Free /\ q # Free =>
          /\ p.id # q.id
          /\ Owned(p.type) /\ p.type = q.type => p.owner # q.owner

\* What a filter stands for is what the other end decodes: no bucket is lost
\* and the padding of the last byte adds none (bitle_sync.c:167-230).
FilterExact ==
  \A l \in Links : \A i \in 1..Len(net[l]) :
    net[l][i].kind = "request" =>
      gcs_decode(net[l][i].filter, net[l][i].p, net[l][i].m) = net[l][i].known

\* Without a connection of handle 0 and with no more neighbours than entries.
KeepsCount(n) ==
  LET mine == {l \in Links : l[1] = n}
  IN  Cardinality(mine) <= TableSize /\ \A l \in mine : scene.handle[l] # 0

\* "at most once per minute" (bitle_sync.h:45): a request goes out on a
\* connection only an interval after the last one, as long as the table has
\* room for every connection and none has the handle 0 that marks a free
\* entry (bitle_sync.c:58-79, 730-738).
AskedOncePerMinute ==
  \A l \in Links : bitle_sync_tick(l) /\ KeepsCount(l[1]) => gap[l] >= Interval

\* "cannot force an unbounded verify-per-frame CPU load" (bitle_sync.c:559-571):
\* in any window, at most twice RATE_MAX_RESPONSES requests of a connection are
\* let through to the signature check, the windows being aligned to its first
\* request, and as many again for each step of the wall clock meanwhile: the
\* window's start is compared with that clock, unsigned, so that a step either
\* way may begin a new window.
AnswersBounded ==
  \A l \in Links : l[2] \in Bitles /\ KeepsCount(l[2]) =>
    Len(answers[l]) <= (2 + Len(steps[l[2]])) * RateMax

\* A packet in its window gives way only to a newer one of its owner or, when
\* no slot is free or expired, to one of its class, and then it is the oldest
\* received of that class (bitle_sync.c:290-322): a flood of one kind cannot
\* wash out another kind.
DisplacedByOwnClass ==
  \A n \in Bitles : \A i \in Slots :
    LET p == store[n].slots[i]
        q == store'[n].slots[i]
    IN  p # q /\ p # Free /\ q # Free /\ slot_fresh(p, expired) =>
          \/ Owned(p.type) /\ q.type = p.type /\ q.owner = p.owner /\ q.ts > p.ts
          \/ /\ SameClass(p.type, q.type)
             /\ \A j \in Slots : /\ store[n].slots[j] # Free
                                 /\ slot_fresh(store[n].slots[j], expired)
                                 /\ SameClass(store[n].slots[j].type, q.type)
                                      => Rank(store[n], i) <= Rank(store[n], j)

\* A packet b lacks although a has it, and that b's filter does not hide.
Missing(a, b, p) ==
  LET ids == FreshIds(b, AllTypes)
      c == collect_buckets(ids)
  IN  /\ p \in Stored(store[a]) /\ slot_fresh(p, expired)
      /\ p \notin Stored(store[b])
      /\ ~\E q \in Stored(store[b]) : Owned(p.type) /\ q.type = p.type
                                      /\ q.owner = p.owner /\ q.ts >= p.ts
      /\ ~(c.m > 1 /\ gcs_bucket(p.id, c.m) \in ToSet(c.sorted))

\* Two Bitles that keep meeting come to hold the same packets, but for one
\* whose bucket collides in the other's filter: lost replays, a limited
\* number of packets per answer and restarts only delay it
\* (bitle_sync.c:549-738).
Converges ==
  <>[](\A l \in Links : l[1] \in Bitles /\ l[2] \in Bitles =>
         ~\E p \in Packets : Missing(l[1], l[2], p))

\* "hard per-type quotas" (bitle_sync.h:21-22): a class never holds more slots
\* than its quota.
QuotasHold ==
  \A n \in Bitles : \A c \in DOMAIN Quota : type_count(store[n], c) <= Quota[c]

\* The same as AskedOncePerMinute of every connection.
AskedOncePerMinuteAlways ==
  [][\A l \in Links : bitle_sync_tick(l) => gap[l] >= Interval]_vars

\* One packet per owner, filters that hide what they were built from, and
\* answers within their limit.
SyncSound == TypeOK /\ OnePerOwner /\ FilterExact /\ AnswersBounded

\* What a step may never do: ask again within the minute, or push a packet out
\* for one of another class.
SyncSteps == [][AskedOncePerMinute /\ DisplacedByOwnClass]_vars
=============================================================================
