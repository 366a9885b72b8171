---------------------------- MODULE BitleSessions ----------------------------
(***************************************************************************)
(* The Noise sessions of noise_handshake.c over the links of BitchatBle.   *)
(*                                                                         *)
(* Every Bitle has one worker task that owns a table of sessions, one per  *)
(* connection handle.  It takes events from its queue, one handler each,   *)
(* and between them runs the periodic maintenance.  A handler is an        *)
(* operator on a record w: the worker's table, all queues, its clock, and  *)
(* the packets the transport will still accept.                            *)
(*                                                                         *)
(* A packet sent on a usable link is in the receiver's queue at once; the  *)
(* time it spends there stands for its time in the air as well.  A Noise   *)
(* message is its length and the ephemeral keys in it: 32 bytes carry the  *)
(* initiator's key k, 96 answer k with the responder's r, 64 complete      *)
(* <<k, r>>.  Keys are small numbers, reused once nothing holds them, and  *)
(* 0 is a value that nobody holds the private half of.                     *)
(***************************************************************************)
EXTENDS BitchatBle

CONSTANTS MaxSessions, \* NOISE_MAX_SESSIONS
          MaxKeys      \* ephemeral keys alive at once

VARIABLES
  sess,   \* sess[n]: n's s_sessions with s_identities and s_identity_pending
  gen,    \* gen[n]: n's clock generation, 0 while the clock is not set
  stamp,  \* stamp[n][c]: generation of n's last announce on c
  phone,  \* phone[p]: the phone's own handshake and session on its link
  calls,  \* handshakes and messages the phones' users started
  leaked  \* Bitles that dropped a transport cipher without freeing it

vars == <<air, conn, scan, links, deny, queue, faults, lost, scene,
          sess, gen, stamp, phone, calls, leaked>>
sessVars == <<sess, gen, stamp, phone, calls, leaked>>

NoConn == "none"
NoPeer == 0
NoKeys == <<0, 0>>
Slots == 1..MaxSessions
NoHandshake == [on |-> FALSE, k |-> 0, r |-> 0]
Fresh(c) ==
  [h |-> c, peer |-> NoPeer, init |-> FALSE, est |-> FALSE, hs |-> NoHandshake,
   keys |-> NoKeys, pending |-> FALSE, sent |-> FALSE, sgen |-> 0, voiced |-> FALSE,
   direct |-> FALSE, tries |-> 0, ident |-> "none", replied |-> FALSE]
FreeSlot == Fresh(NoConn)

Announce(c, n, sig) == [t |-> "announce", h |-> c, from |-> n, sig |-> sig]
Identity(c, n) == [t |-> "identity", h |-> c, from |-> n]
Noise(c, n, len, k, r) == [t |-> "noise", h |-> c, from |-> n, len |-> len, k |-> k, r |-> r]
Sealed(c, n, what, keys) == [t |-> "sealed", h |-> c, from |-> n, what |-> what, keys |-> keys]

-----------------------------------------------------------------------------
\* The table.

find_session(s, c) == {i \in Slots : s[i].h = c}

\* w.i is the session a handler works on, 0 when there is none.
Find(w, c) ==
  [w EXCEPT !.i = IF find_session(w.s, c) = {} THEN 0 ELSE CHOOSE i \in find_session(w.s, c) : TRUE]

alloc_session(w, c) ==
  LET free == find_session(w.s, NoConn)
      i == Min(free) IN
  IF find_session(w.s, c) # {} THEN Find(w, c)
  ELSE IF free = {} THEN [w EXCEPT !.i = 0]
  ELSE [w EXCEPT !.i = i, !.s[i] = Fresh(c)]

\* The mutant of free_session: the slot is left marked as in use.
free_sessionMutant(w) == [w EXCEPT !.s[w.i] = Fresh(w.s[w.i].h)]

\* free_session keeps some fields of a free slot; alloc_session clears them.
free_session(w) == [w EXCEPT !.s[w.i] = FreeSlot]

clear_crypto(x) == [x EXCEPT !.hs = NoHandshake, !.keys = NoKeys]
NotOk(w) == [w EXCEPT !.ok = FALSE]
IsOk(w) == [w EXCEPT !.ok = TRUE]

-----------------------------------------------------------------------------
\* Sending.  w.credit is how many packets the transport still takes.

Deliver(q, n, c, e) ==
  IF air[c] = "up" /\ conn[Other(n, c)][c] # "none"
  THEN queue_event(q, Other(n, c), e)
  ELSE q

bitle_link_send(w, e) ==
  IF e.h \in links[w.n] /\ w.credit > 0
  THEN [w EXCEPT !.ok = TRUE, !.credit = @ - 1,
                 !.q = IF e.t = "capability" THEN @ ELSE Deliver(@, w.n, e.h, e)]
  ELSE [w EXCEPT !.ok = FALSE, !.credit = 0]

encode_and_send(w, e) == IF w.gen = 0 THEN NotOk(w) ELSE bitle_link_send(w, e)

noise_send_encrypted(w, what) ==
  LET x == w.s[w.i] IN
  IF x.est THEN encode_and_send(w, Sealed(x.h, w.n, what, x.keys)) ELSE NotOk(w)

\* Each step of a handler that sends more than once takes the world the send
\* before it left.
Voiced(w) == IF w.ok THEN [w EXCEPT !.s[w.i].voiced = TRUE] ELSE w

send_node_capability(w) ==
  LET c == w.s[w.i].h IN
  IF w.ok THEN encode_and_send([w EXCEPT !.stamp[c] = w.gen], [t |-> "capability", h |-> c]) ELSE w

\* The announce, then the node capability; both must be taken.
send_announce(w) ==
  Voiced(send_node_capability(encode_and_send(w, Announce(w.s[w.i].h, w.n, TRUE))))

send_identity_announce(w) == encode_and_send(w, Identity(w.s[w.i].h, w.n))

\* The generation is read after the packets went out: w.late corrects the
\* clock in between, from the task that feeds bitle_mesh.c.
MarkSent(w, g) ==
  [w EXCEPT !.ok = TRUE, !.gen = g, !.late = FALSE,
            !.s[w.i].pending = FALSE, !.s[w.i].sent = TRUE, !.s[w.i].sgen = g]

IdentityAfter(w) ==
  IF w.ok
  THEN MarkSent(send_identity_announce(w), IF w.late THEN w.gen + 1 ELSE w.gen)
  ELSE w

try_send_identity(w) ==
  LET x == w.s[w.i] IN
  IF ~ x.pending THEN NotOk(w)
  ELSE IF x.sent THEN IsOk(w)
  ELSE IF x.h \notin links[w.n] \/ w.gen = 0 THEN NotOk(w)
  ELSE IdentityAfter(send_announce(w))

-----------------------------------------------------------------------------
\* The handshake.

\* Keys in use: in messages, in the tables, in the phones.
KeysIn(q, s) ==
  UNION {{e.k, e.r} : e \in {e \in UNION {Range(q[n]) : n \in Nodes} : e.t = "noise"}}
  \cup UNION {{e.keys[1], e.keys[2]} : e \in {e \in UNION {Range(q[n]) : n \in Nodes} : e.t = "sealed"}}
  \cup UNION {UNION {{x.hs.k, x.hs.r, x.keys[1], x.keys[2]} : x \in Range(s[n])} : n \in Bitles}
  \cup UNION {{phone[p].k, phone[p].r, phone[p].keys[1], phone[p].keys[2]} : p \in Phones}
FreshKey(q, s) == Min((1..MaxKeys) \ KeysIn(q, s))
\* The event a handler reads is still in `queue`.
NewKey(w) == Min((1..MaxKeys) \ (KeysIn(w.q, [sess EXCEPT ![w.n] = w.s]) \cup KeysIn(queue, sess)))

noise_begin_handshake(w, c, peer) ==
  IF \E i \in find_session(w.s, c) : w.s[i].hs.on THEN w
  ELSE [w EXCEPT !.q = queue_event(@, w.n, [t |-> "start", h |-> c, peer |-> peer])]

BeginHandshake(w, init, peer, k) ==
  [w EXCEPT !.s[w.i] = [@ EXCEPT !.init = init, !.peer = peer, !.sent = FALSE, !.est = FALSE,
                                 !.hs = [on |-> TRUE, k |-> k, r |-> 0]]]

SendFirst(w) == encode_and_send(w, Noise(w.s[w.i].h, w.n, 32, w.s[w.i].hs.k, 0))

start_handshake(w, init, peer) ==
  IF w.s[w.i].hs.on THEN IsOk(w)
  ELSE IF init THEN SendFirst(BeginHandshake(w, init, peer, NewKey(w)))
  ELSE IsOk(BeginHandshake(w, init, peer, 0))

mark_established(w, keys) ==
  LET held == w.s[w.i].keys # NoKeys IN
  IsOk(try_send_identity([w EXCEPT
    !.leaked = @ \/ held,
    !.s[w.i] = [@ EXCEPT !.hs = NoHandshake, !.keys = keys, !.est = TRUE,
                         !.sent = FALSE, !.pending = TRUE]]))

\* An initiator takes only the answer to its own key.  A responder without a
\* first message takes any message for one: 32 bytes of key and a payload,
\* which it sends back; later it takes only the third message it waits for.
EstablishIfSent(w, keys) == IF w.ok THEN mark_established(w, keys) ELSE w

Echo(w, e) ==
  IF e.len = 32 THEN IsOk(w) ELSE encode_and_send(w, Noise(w.s[w.i].h, w.n, e.len - 32, 0, 0))

AnswerFirst(w, k, r) ==
  IF w.ok
  THEN encode_and_send([w EXCEPT !.s[w.i].hs = [on |-> TRUE, k |-> k, r |-> r]],
                       Noise(w.s[w.i].h, w.n, 96, k, r))
  ELSE w

ReadMessage(w, e) ==
  LET x == w.s[w.i] IN
  IF x.init
  THEN IF e.len = 96 /\ e.k = x.hs.k
       THEN EstablishIfSent(encode_and_send(w, Noise(x.h, w.n, 64, e.k, e.r)), <<e.k, e.r>>)
       ELSE NotOk(w)
  ELSE IF x.hs.r = 0
  THEN AnswerFirst(Echo(w, e), CASE e.len = 32 -> e.k [] e.len = 96 -> e.r [] OTHER -> 0, NewKey(w))
  ELSE IF e.len = 64 /\ <<e.k, e.r>> = <<x.hs.k, x.hs.r>>
  THEN mark_established(w, <<e.k, e.r>>)
  ELSE NotOk(w)

\* A peer's first message ends our own attempt on the link.
Yield(w, e) ==
  LET x == w.s[w.i] IN
  IF x.hs.on /\ x.init /\ e.len = 32
  THEN [w EXCEPT !.s[w.i] = [clear_crypto(x) EXCEPT !.est = FALSE]]
  ELSE w

process_handshake(w, e) == ReadMessage(start_handshake(Yield(w, e), FALSE, e.from), e)

-----------------------------------------------------------------------------
\* The handlers of handshake_task.

OrFree(w) == IF w.ok THEN w ELSE free_session(w)

\* Each handler below allocates or finds the session first; On... is the rest.
OnStart(w, e) ==
  IF w.i = 0 \/ w.s[w.i].hs.on THEN w ELSE OrFree(start_handshake(w, TRUE, e.peer))
NOISE_EVT_START(w, e) == OnStart(alloc_session(w, e.h), e)

OnProcess(w, e) ==
  IF w.i = 0 THEN w ELSE OrFree(process_handshake([w EXCEPT !.s[w.i].peer = e.from], e))
NOISE_EVT_PROCESS(w, e) == OnProcess(alloc_session(w, e.h), e)

\* The first other session with this peer is a duplicate link: the higher
\* peer ID hangs up its own outbound leg, this one before the other.
Duplicate(w, e) ==
  LET twins == {i \in Slots \ {w.i} : w.s[i].h # NoConn /\ w.s[i].peer = e.from}
      legs == <<w.s[w.i].h, w.s[Min(twins)].h>>
      own == SelectSeq(legs, LAMBDA c : Central[c] = w.n /\ conn[w.n][c] # "none") IN
  IF twins = {} \/ w.n <= e.from \/ own = <<>> THEN w ELSE [w EXCEPT !.cut = {own[1]}]

BindPeer(x, m) == [x EXCEPT !.peer = IF @ = NoPeer THEN m ELSE @]

\* The mutant of Ident: the last announce counts.
IdentMutant(old, sig) == IF sig THEN "verified" ELSE "unverified"
Ident(old, sig) == IF sig \/ old = "verified" THEN "verified" ELSE "unverified"

\* Every announce here is direct; what a relayed one does to the courier and
\* the clock is in BitleCourier and ClockNet.  A verified one may set the clock.
SendIfNotSent(w) ==
  IF w.s[w.i].sent THEN w ELSE try_send_identity([w EXCEPT !.s[w.i].pending = TRUE])

OnAnnounce(w, e) ==
  LET known == [BindPeer(w.s[w.i], e.from) EXCEPT !.direct = TRUE, !.ident = Ident(@, e.sig)] IN
  IF w.i = 0 THEN w ELSE SendIfNotSent(Duplicate([w EXCEPT !.s[w.i] = known], e))
process_announce_event(w, e) ==
  OnAnnounce(alloc_session([w EXCEPT !.gen = IF e.sig THEN w.corrected ELSE @], e.h), e)

OnIdentity(w, e) ==
  LET known == [BindPeer(w.s[w.i], e.from) EXCEPT !.ident = Ident(@, FALSE)] IN
  IF w.i = 0 THEN w ELSE try_send_identity([w EXCEPT !.gen = w.corrected, !.s[w.i] = known])
process_identity_event(w, e) == OnIdentity(alloc_session(w, e.h), e)

\* A private message is acknowledged, and answered once per session.
Replied(w) == [w EXCEPT !.s[w.i].replied = w.ok]
ReplyOnce(w) == IF w.s[w.i].replied THEN w ELSE Replied(noise_send_encrypted(w, "reply"))

OnEncrypted(w, e) ==
  LET x == w.s[w.i] IN
  IF w.i = 0 THEN noise_begin_handshake(w, e.h, e.from)
  ELSE IF ~ x.est THEN noise_begin_handshake(w, e.h, e.from)
  ELSE IF e.keys # x.keys \/ e.what = "delivered" THEN w
  ELSE ReplyOnce(noise_send_encrypted(w, "delivered"))
process_encrypted_event(w, e) == OnEncrypted(Find(w, e.h), e)

FreeFound(w) == IF w.i = 0 THEN w ELSE free_session(w)

OnSubscribed(w) ==
  IF w.i = 0 THEN w ELSE try_send_identity([w EXCEPT !.s[w.i].pending = TRUE])
process_subscribed_event(w, e) == OnSubscribed(alloc_session(FreeFound(Find(w, e.h)), e.h))

NOISE_EVT_DISCONNECT(w, e) == FreeFound(Find(w, e.h))

handshake_task(w, e) ==
  CASE e.t = "start" -> NOISE_EVT_START(w, e)
    [] e.t = "noise" -> NOISE_EVT_PROCESS(w, e)
    [] e.t = "announce" -> process_announce_event(w, e)
    [] e.t = "identity" -> process_identity_event(w, e)
    [] e.t = "sealed" -> process_encrypted_event(w, e)
    [] e.t = "subscribed" -> process_subscribed_event(w, e)
    [] e.t = "disconnect" -> NOISE_EVT_DISCONNECT(w, e)

TryPending(w, i) ==
  IF w.s[i].pending THEN try_send_identity([w EXCEPT !.i = i]) ELSE [w EXCEPT !.i = i]

\* `due` says that the announce interval of 10 s, and the 15 s between
\* handshakes, are over.
RetryHandshake(w, due) ==
  LET y == w.s[w.i] IN
  IF /\ y.direct /\ y.sent /\ ~ y.est /\ ~ y.hs.on
     /\ y.tries < scene.tries /\ (due \/ y.tries = 0)
  THEN noise_begin_handshake([w EXCEPT !.s[w.i].tries = @ + 1], y.h, y.peer)
  ELSE w

IdentityToo(w) == IF w.ok THEN send_identity_announce(w) ELSE w
Restamped(w, g) == IF w.ok THEN [w EXCEPT !.s[w.i].sgen = g] ELSE w

\* g is the generation the sweep read when it began.
Reannounce(w, due, g) ==
  LET y == w.s[w.i] IN
  IF y.sent /\ y.sgen # g THEN Restamped(IdentityToo(send_announce(w)), g)
  ELSE IF due \/ ~ y.voiced THEN send_announce(w) ELSE w

\* The mutant of MaintainSession: the periodic announce is the legacy one.
MaintainSessionMutant(w, i, due, g) ==
  IF w.s[i].h = NoConn \/ w.s[i].h \notin links[w.n] THEN w
  ELSE IF due THEN send_identity_announce(TryPending(w, i)) ELSE TryPending(w, i)

\* One session of poll_session_maintenance.
MaintainSession(w, i, due, g) ==
  IF w.s[i].h = NoConn \/ w.s[i].h \notin links[w.n] THEN w
  ELSE Reannounce(RetryHandshake(TryPending(w, i), due), due, g)

poll_session_maintenance(w, due) ==
  FoldLeft(LAMBDA v, i : MaintainSession(v, i, due, w.gen), w, [i \in Slots |-> i])

-----------------------------------------------------------------------------
\* Steps.

\* Everything a worker step starts from: `credit` packets are accepted, the
\* clock is `corrected` by this event, `late` by another task while it sends.
World(n, credit, corrected, late) ==
  [n |-> n, s |-> sess[n], q |-> queue, gen |-> gen[n], stamp |-> stamp[n], i |-> 0,
   ok |-> TRUE, credit |-> credit, corrected |-> corrected, late |-> late, cut |-> {},
   leaked |-> FALSE]

\* bitchat_ble_disconnect of w.cut is part of the step.
Install(n, w) ==
  /\ sess' = [sess EXCEPT ![n] = w.s]
  /\ queue' = w.q
  /\ gen' = [gen EXCEPT ![n] = w.gen]
  /\ stamp' = [stamp EXCEPT ![n] = w.stamp]
  /\ leaked' = leaked \cup (IF w.leaked THEN {n} ELSE {})
  /\ air' = [c \in Conns |-> IF c \in w.cut /\ air[c] = "up" THEN "closing" ELSE air[c]]
  /\ deny' = [deny EXCEPT ![n] = FoldSet(LAMBDA c, d : deny_addr(d, Other(n, c)), @, w.cut)]
  /\ UNCHANGED <<conn, scan, links, lost, scene, phone, calls>>

AllPackets == 2 * QueueDepth
Credits == {AllPackets} \cup (IF faults < scene.faults THEN 0..1 ELSE {})
Pay(credit) == faults' = IF credit = AllPackets THEN faults ELSE faults + 1
Corrections(n) == {gen[n]} \cup (IF gen[n] < scene.gens THEN {gen[n] + 1} ELSE {})

HandleEvent(n) ==
  /\ queue[n] # <<>>
  /\ \E credit \in Credits, g \in Corrections(n), late \in BOOLEAN :
       LET e == Head(queue[n])
           w == World(n, credit, g, late)
           v == handshake_task([w EXCEPT !.q[n] = Tail(@)], e) IN
       /\ g # gen[n] => e.t \in {"announce", "identity"}
       /\ late => g < scene.gens
       /\ credit # AllPackets => v.credit = 0
       /\ Install(n, v)
       /\ Pay(credit)

\* By the time an announce is due again, 10 s later, the last one was read.
Caught(n) ==
  \A c \in links[n] : /\ Len(queue[Other(n, c)]) + 2 <= QueueDepth
                      /\ ~ Contains(queue[Other(n, c)], Announce(c, n, TRUE))

Maintain(n, due) ==
  /\ due => queue[n] = <<>> /\ Caught(n)
  /\ \E credit \in Credits, late \in BOOLEAN :
       LET v == poll_session_maintenance(World(n, credit, gen[n], late), due) IN
       /\ late => gen[n] < scene.gens
       /\ credit # AllPackets => v.credit = 0
       /\ Install(n, v)
       /\ Pay(credit)

\* A timestamp in traffic relayed by bitle_mesh.c corrects the clock.
ClockCorrected(n) ==
  /\ \E c \in scene.conns : n \in Ends(c)
  /\ gen[n] < scene.gens
  /\ gen' = [gen EXCEPT ![n] = @ + 1]
  /\ UNCHANGED <<air, conn, scan, links, deny, queue, faults, lost, scene,
                 sess, stamp, phone, calls, leaked>>

-----------------------------------------------------------------------------
\* A phone, as far as the Bitle can tell: it announces itself, opens a
\* handshake when its user writes, and answers what it can read.

PhoneSends(p, c, e, state) ==
  /\ conn[p][c] = "sub"
  /\ queue' = Deliver([queue EXCEPT ![p] = IF state.reads THEN Tail(@) ELSE @], p, c, e)
  /\ phone' = [phone EXCEPT ![p] = [k |-> state.k, r |-> state.r, keys |-> state.keys]]
  /\ UNCHANGED <<air, conn, scan, links, deny, faults, lost, scene, sess, gen, stamp, leaked>>

State(k, r, keys, reads) == [k |-> k, r |-> r, keys |-> keys, reads |-> reads]

PhoneAnnounces(p, c, sig) ==
  /\ ~ \E s \in BOOLEAN : Contains(queue[Other(p, c)], Announce(c, p, s))
  /\ PhoneSends(p, c, Announce(c, p, sig), State(phone[p].k, phone[p].r, phone[p].keys, FALSE))
  /\ UNCHANGED calls

PhoneInitiates(p, c) ==
  LET k == FreshKey(queue, sess) IN
  /\ calls < scene.calls
  /\ calls' = calls + 1
  /\ PhoneSends(p, c, Noise(c, p, 32, k, 0), State(k, 0, phone[p].keys, FALSE))

PhoneWrites(p, c) ==
  /\ calls < scene.calls
  /\ phone[p].keys # NoKeys
  /\ calls' = calls + 1
  /\ PhoneSends(p, c, Sealed(c, p, "message", phone[p].keys), State(phone[p].k, phone[p].r, phone[p].keys, FALSE))

Answerable(p, e) ==
  /\ e.t = "noise" /\ conn[p][e.h] = "sub"
  /\ e.len = 32 \/ (e.len = 96 /\ e.k = phone[p].k)

PhoneAnswers(p, c) ==
  LET e == Head(queue[p])
      r == FreshKey(queue, sess) IN
  /\ queue[p] # <<>>
  /\ e.h = c /\ Answerable(p, e)
  /\ \/ e.len = 32 /\ PhoneSends(p, c, Noise(c, p, 96, e.k, r), State(e.k, r, phone[p].keys, TRUE))
     \/ /\ e.len = 96
        /\ PhoneSends(p, c, Noise(c, p, 64, e.k, e.r), State(0, 0, <<e.k, e.r>>, TRUE))
  /\ UNCHANGED calls

\* What it does not answer it keeps, or ignores.
PhoneReads(p) ==
  LET e == Head(queue[p])
      done == e.t = "noise" /\ e.len = 64 /\ <<e.k, e.r>> = <<phone[p].k, phone[p].r>> IN
  /\ queue[p] # <<>>
  /\ ~ Answerable(p, e)
  /\ queue' = [queue EXCEPT ![p] = Tail(@)]
  /\ phone' = [phone EXCEPT ![p].keys = IF done THEN <<e.k, e.r>> ELSE @]
  /\ UNCHANGED <<air, conn, scan, links, deny, faults, lost, scene, sess, gen, stamp, calls, leaked>>

-----------------------------------------------------------------------------
Init ==
  /\ BleInit
  /\ sess = [n \in Bitles |-> [i \in Slots |-> FreeSlot]]
  /\ gen \in [Bitles -> scene.clocks]
  /\ stamp = [n \in Bitles |-> [c \in Conns |-> 0]]
  /\ phone = [p \in Phones |-> [k |-> 0, r |-> 0, keys |-> NoKeys]]
  /\ calls = 0
  /\ leaked = {}

PhoneNext ==
  \/ \E p \in Phones, c \in Conns :
       /\ p = Central[c]
       /\ \/ \E sig \in BOOLEAN : PhoneAnnounces(p, c, sig)
          \/ PhoneInitiates(p, c)
          \/ PhoneWrites(p, c)
          \/ PhoneAnswers(p, c)
  \/ \E p \in Phones : PhoneReads(p)

Next ==
  \/ BleNext /\ UNCHANGED sessVars
  \/ \E n \in Bitles : HandleEvent(n) \/ ClockCorrected(n)
  \/ \E n \in Bitles, due \in BOOLEAN : Maintain(n, due)
  \/ PhoneNext

Spec == Init /\ [][Next]_vars

\* Fairness, with what enables each step spelt out.  A worker takes what is
\* queued, and so does a phone; a session whose announce is due gets it; the
\* host reports what discovery finds and what was disconnected.
AnnounceDue(n) ==
  /\ queue[n] = <<>> /\ Caught(n) /\ gen[n] > 0
  /\ \E i \in Slots : sess[n][i].h \in links[n] /\ air[sess[n][i].h] = "up"

Fairness ==
  /\ \A n \in Bitles :
       /\ []<>(queue[n] = <<>>) \/ []<><<HandleEvent(n)>>_vars
       /\ <>[]~ AnnounceDue(n) \/ []<><<Maintain(n, TRUE)>>_vars
  /\ \A p \in Phones :
       []<>(queue[p] = <<>>) \/ []<><<PhoneReads(p) \/ \E c \in Conns : PhoneAnswers(p, c)>>_vars
  /\ \A c \in Conns :
       LET n == Central[c] IN
       WF_vars(/\ \/ central_svc_cb(n, c) \/ central_chr_cb(n, c) \/ central_dsc_cb(n, c)
                  \/ Subscribe(c) \/ central_cccd_written(n, c)
               /\ UNCHANGED <<scene, sessVars>>)
  /\ \A n \in Nodes, c \in Conns : WF_vars(Disconnected(n, c) /\ UNCHANGED <<scene, sessVars>>)

FairSpec == Spec /\ Fairness

-----------------------------------------------------------------------------
\* Properties.

Packets == {e \in UNION {Range(queue[n]) : n \in Nodes} : e.t = "noise"}

\* Slots, queues and clocks stay in their ranges, and a handle has one session.
TypeOK ==
  /\ \A n \in Bitles :
       /\ Len(queue[n]) <= QueueDepth /\ Len(deny[n]) <= DenySlots
       /\ gen[n] \in 0..scene.gens
       /\ \A i, j \in Slots : sess[n][i].h # NoConn /\ sess[n][i].h = sess[n][j].h => i = j
       /\ \A c \in Conns : conn[n][c] \in Stages /\ (c \in links[n] <=> conn[n][c] = "sub")
  /\ faults \in 0..scene.faults

\* noise_reset_connection: the session of a link that is gone is freed by the
\* queued DISCONNECT event, and leaks only when that event was lost.  Events
\* still queued behind it, a handshake to start among them, leave no session.
NoStaleSession ==
  \A n \in Bitles : \A i \in Slots :
    LET c == sess[n][i].h IN
    c # NoConn /\ conn[n][c] = "none" /\ <<n, c>> \notin lost
      => Contains(queue[n], [t |-> "disconnect", h |-> c])

\* derive_transport_keys: when both ends of a link hold an established session
\* and no handshake message is on its way, they hold the same keys.
KeysAgree ==
  \A c \in Conns :
    /\ Ends(c) \subseteq Bitles
    /\ ~ \E e \in Packets : e.h = c
    => \A n, m \in Ends(c) : \A i, j \in Slots :
         LET x == sess[n][i]
             y == sess[m][j] IN
         x.h = c /\ y.h = c /\ x.est /\ y.est => x.keys = y.keys

\* process_announce_event and process_identity_event: a session whose peer's
\* announce was verified keeps a verified identity for as long as it lasts.
VerifiedStays ==
  [][\A n \in Bitles : \A i \in Slots :
       LET x == sess[n][i]
           y == sess'[n][i] IN
       x.h # NoConn /\ x.ident = "verified" /\ y.h = x.h /\ y.ident # "verified"
         => queue[n] # <<>> /\ Head(queue[n]).t = "subscribed"]_vars

\* poll_session_maintenance: on a usable link with a session, whatever the
\* clock did and whenever it did it, an announce stamped with the current
\* clock goes out, or the session ends.
CurrentAnnounce ==
  \A c \in Conns : \A n \in Ends(c) \cap Bitles :
    []<>(c \in links[n] /\ find_session(sess[n], c) # {} /\ gen[n] > 0 => stamp[n][c] = gen[n])

\* process_announce_event: two links between the same two Bitles on which the
\* higher peer ID has sessions do not both last.
DuplicateEnds ==
  \A n \in Bitles : \A c, d \in Conns :
    c # d /\ Ends(c) = Ends(d) /\ Ends(c) \subseteq Bitles /\ (\A m \in Ends(c) : m <= n) /\ n \in Ends(c)
    => []<>~ (/\ {c, d} \subseteq links[n]
              /\ \A h \in {c, d} : \E i \in find_session(sess[n], h) : sess[n][i].voiced)

\* process_announce_event, "leaving exactly one link": while no link fails on
\* its own, two links between the same Bitles are never both hung up.
OneLegStays ==
  \A c, d \in Conns :
    c # d /\ Ends(c) = Ends(d) /\ Ends(c) \subseteq Bitles /\ scene.faults = 0
    => ~ (air[c] = "closing" /\ air[d] = "closing")

\* derive_transport_keys: every cipher a session replaces is freed first.
NoCipherLeak == leaked = {}

\* README: the node "keeps the mesh alive indefinitely with no supervision".
\* Once the workers have read everything, a link that both ends can use has a
\* session at one of them: without one, neither end announces itself on it again.
LinkIsServed ==
  \A c \in Conns :
    (\A n \in Ends(c) : n \in Bitles /\ c \in links[n] /\ queue[n] = <<>>)
      => \E n \in Ends(c) : find_session(sess[n], c) # {}

\* Sessions belong to a link that is there, their ends hold the same keys, and
\* resolving a duplicate never takes both links.
SessionsSound == TypeOK /\ NoStaleSession /\ KeysAgree /\ OneLegStays

\* Every session is announced with the current clock, and of two links between
\* the same Bitles one goes.
SessionsServed == CurrentAnnounce /\ DuplicateEnds
=============================================================================
