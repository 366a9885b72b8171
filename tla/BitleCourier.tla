----------------------------- MODULE BitleCourier -----------------------------
(***************************************************************************)
(* The courier mailbox of main/bitle_courier.c on the noise worker task.   *)
(*                                                                         *)
(* The flash store below it is the mailbox bitle_store promises: a map     *)
(* from keys to records that survives a reset, in which a put first drops  *)
(* the old record and then writes the new one, may fail in between, and    *)
(* may overwrite the oldest records of the ring.  A boot leaves out the    *)
(* records its clock finds expired, and they stay on flash: a later boot   *)
(* with an earlier clock has them back.  bitle_store_iterate holds the     *)
(* store's lock while its callback runs.                                   *)
(***************************************************************************)
EXTENDS Integers, FiniteSetsExt, Functions

CONSTANTS
  Keys,              (* SHA-256(ciphertext), shortened                     *)
  Peers,             (* peers that deposit, carry and own mail             *)
  Nobody,            (* no announce is being processed                     *)
  Owner,             (* the peer each envelope's recipient tag is made for *)
  MaxEnvelopes,      (* BITLE_COURIER_MAX_ENVELOPES, also the side slots   *)
  MaxPerDepositor,   (* BITLE_COURIER_MAX_PER_DEPOSITOR                    *)
  MaxDeliver,        (* ANNOUNCE_MAX_DELIVER                               *)
  MaxSpray,          (* ANNOUNCE_MAX_SPRAY                                 *)
  MaxCopies,         (* MAX_COPIES                                         *)
  Bit,               (* peer_bit(): a hash of the peer ID, one of 32 bits  *)
  Day,               (* 86400 s                                            *)
  Deposits,          (* bound: the deposits that peers make                *)
  MaxLifetime,       (* MAX_LIFETIME_S                                     *)
  Cooldown,          (* REMOTE_COOLDOWN_S                                  *)
  Wrap,              (* 2^32: the width of last_remote_s                   *)
  Times,             (* bound: the readings of the clock                   *)
  MaxFaults          (* bound: resets and failures, together               *)

ASSUME CourierAssumption ==
  /\ Owner \in [Keys -> Peers] /\ Nobody \notin Peers /\ DOMAIN Bit = Peers
  /\ MaxEnvelopes \in Nat \ {0} /\ MaxPerDepositor \in Nat \ {0}
  /\ MaxDeliver \in Nat \ {0} /\ MaxSpray \in Nat \ {0} /\ MaxCopies \in Nat \ {0}
  /\ Day \in Nat \ {0} /\ MaxLifetime \in Nat /\ MaxLifetime >= Day
  /\ Deposits \subseteq [dep : Peers, key : Keys, made : Nat, life : Nat, copies : 1 .. MaxCopies]
  /\ Cooldown \in Nat /\ Wrap \in Nat
  /\ Times # {} /\ \A t \in Times : t \in Cooldown .. Wrap - 1

VARIABLES
  now,               (* bitchat_time_now_ms()                              *)
  mail,              (* the mailbox: the records in the store's index      *)
  skipped,           (* live records on flash that the index leaves out    *)
  side,              (* s_side, as a partial function of the key           *)
  pc,                (* where the worker is                                *)
  peer, direct,      (* the announce being processed                       *)
  todo,              (* keys bitle_store_iterate has still to visit        *)
  deliver, spray,    (* ctx.deliver_keys and ctx.spray_ops                 *)
  writing,           (* the spray_op whose put is in progress, as a set    *)
  crashes, faults

ctx    == <<peer, direct, todo, deliver, spray, writing>>
counts == <<crashes, faults>>
vars   == <<now, mail, skipped, side, pc, peer, direct, todo, deliver, spray, writing,
            crashes, faults>>

\* A stored envelope.  made (when its sender, by the sender's clock, made the
\* tag), budget (copies deposited), given (copies handed to carriers) and back
\* (a boot left it out and a later one has it again) are its history.
Record == [dep : Peers, made : Nat, exp : Nat, copies : 1 .. MaxCopies,
           budget : 1 .. MaxCopies, given : Nat, back : BOOLEAN]
Op     == [key : Keys, rec : Record]
Side   == [mask : SUBSET Range(Bit), last : 0 .. Wrap - 1]

Held == DOMAIN mail
Drop(ks) == Restrict(mail, Held \ ks)

\* The records on flash that are not tombstoned; two that agree in everything
\* count as one.
Stored(k) == [key |-> k, rec |-> mail[k]]
Flash == {Stored(k) : k \in Held} \cup skipped
-----------------------------------------------------------------------------
FaultLeft == crashes + faults < MaxFaults

Init ==
  /\ now \in Times /\ mail = <<>> /\ skipped = {} /\ side = <<>>
  /\ pc = "idle" /\ peer = Nobody /\ direct = FALSE
  /\ todo = {} /\ deliver = {} /\ spray = {} /\ writing = {}
  /\ crashes = 0 /\ faults = 0

\* Gossip, nudges and the passage of time: the clock may step either way.
Tick ==
  /\ pc = "idle" /\ now' \in Times \ {now}
  /\ UNCHANGED <<mail, skipped, side, pc, ctx, counts>>

\* A reset and the boot after it, whose clock may read anything.  RAM is lost,
\* and with it the side state; bitle_store_init() indexes one record of each
\* key, of those that its clock does not find expired (more of them than
\* BITLE_STORE_MAX_RECORDS, twice MaxEnvelopes, are not considered).
Crash ==
  /\ FaultLeft /\ crashes' = crashes + 1
  /\ now' \in Times
  /\ LET live == {c \in Flash : now' <= c.rec.exp} IN
     \E found \in [{c.key : c \in live} -> live] :
       /\ \A k \in DOMAIN found : found[k].key = k
       /\ mail' = [k \in DOMAIN found |-> found[k].rec]
       /\ skipped' = {[c EXCEPT !.rec.back = TRUE] : c \in Flash \ Range(found)}
  /\ side' = <<>> /\ pc' = "idle"
  /\ todo' = {} /\ deliver' = {} /\ spray' = {} /\ writing' = {}
  /\ peer' = Nobody /\ direct' = FALSE
  /\ UNCHANGED faults

\* Mutant: mail is dropped in its last second.
ExpiredMutant == {k \in Held : now >= mail[k].exp}
\* The records an iteration drops on its way: "now > entry->expiry_unix_s".
Expired == {k \in Held : now > mail[k].exp}
-----------------------------------------------------------------------------
(* bitle_courier_accept().                                                 *)

MailboxFull == Cardinality(Held) >= MaxEnvelopes

FromDepositor(dep) == {k \in Held \ Expired : mail[k].dep = dep}

QuotaReached(dep) == Cardinality(FromDepositor(dep)) >= MaxPerDepositor

\* The flash ring may make room by overwriting its oldest records.
Overwritten == {lost \in SUBSET Flash : lost = {} \/ FaultLeft}

\* A record is written, or the write fails; kept is the index before it.
Put(kept, k, r) ==
  \/ \E lost \in Overwritten :
       /\ mail' = [x \in {x \in DOMAIN kept : Stored(x) \notin lost} \cup {k} |->
                     IF x = k THEN r ELSE kept[x]]
       /\ skipped' = skipped \ lost
       /\ faults' = IF lost = {} THEN faults ELSE faults + 1
  \/ FaultLeft /\ mail' = kept /\ faults' = faults + 1 /\ UNCHANGED skipped

\* A well-formed deposit from a verified peer; the others change nothing.  The
\* expiry and the day of the tag are those of the sender's clock.
Accept(e) ==
  LET exp  == e.made + e.life
      kept == Restrict(mail, Held \ Expired)
  IN
  /\ pc = "idle"
  /\ now < exp /\ exp <= now + MaxLifetime
  /\ ~ MailboxFull /\ e.key \notin Held
  /\ IF QuotaReached(e.dep)
     THEN mail' = kept /\ UNCHANGED <<skipped, faults>>
     ELSE Put(kept, e.key, [dep |-> e.dep, made |-> e.made, exp |-> exp, copies |-> e.copies,
                            budget |-> e.copies, given |-> 0, back |-> FALSE])
  /\ UNCHANGED <<now, side, pc, ctx, crashes>>
-----------------------------------------------------------------------------
(* bitle_courier_peer_announced(), for a verified announce.                *)

Announced(p, d) ==
  /\ pc = "idle" /\ Held # {}
  /\ peer' = p /\ direct' = d
  /\ mail' = Drop(Expired) /\ todo' = Held \ Expired
  /\ deliver' = {} /\ spray' = {} /\ writing' = {}
  /\ pc' = "iterate"
  /\ UNCHANGED <<now, skipped, side, counts>>

DayOf(t) == t \div Day

\* candidate_tags() and tag_matches(): the tag was made for its sender's day.
TagMatches(k, p) == Owner[k] = p /\ DayOf(mail[k].made) - DayOf(now) \in {-1, 0, 1}

Fresh == [mask |-> {}, last |-> 0]
SideOf(k) == IF k \in DOMAIN side THEN side[k] ELSE Fresh
SetSide(k, s) == [x \in DOMAIN side \cup {k} |-> IF x = k THEN s ELSE side[x]]

\* side_get(key, true) finds the key's slot or a free one.
SideFound(k) == k \in DOMAIN side \/ Cardinality(DOMAIN side) < MaxEnvelopes

\* The mask knows the peer, or one with the same bit.
Sprayed(k) == Bit[peer] \in SideOf(k).mask

Visited(k) == todo' = todo \ {k} /\ pc' = "iterate"

CanDeliver(k) == TagMatches(k, peer) /\ direct /\ Cardinality(deliver) < MaxDeliver
NeedsFlood(k) == TagMatches(k, peer) /\ ~ direct
NeedsSpray(k) ==
  /\ ~ TagMatches(k, peer) /\ direct /\ mail[k].copies > 1
  /\ Cardinality(spray) < MaxSpray /\ mail[k].dep # peer

\* The owner is on this link: hand the envelope over, drop it afterwards.
VisitDeliver(k) ==
  /\ pc = "iterate" /\ k \in todo /\ CanDeliver(k)
  /\ deliver' = deliver \cup {k} /\ Visited(k)
  /\ UNCHANGED <<now, mail, skipped, side, peer, direct, spray, writing, counts>>

\* The owner was heard through the mesh: flood one copy, then back off.
VisitFlood(k) ==
  /\ pc = "iterate" /\ k \in todo /\ NeedsFlood(k) /\ SideFound(k)
  /\ side' = SetSide(k, [SideOf(k) EXCEPT !.last =
                 IF (now - @) % Wrap >= Cooldown THEN now ELSE @])
  /\ Visited(k)
  /\ UNCHANGED <<now, mail, skipped, peer, direct, deliver, spray, writing, counts>>

Give(copies) == copies \div 2
\* Mutant: the rewrite keeps the full count.
KeepMutant(copies) == copies
Keep(copies) == copies - Give(copies)

\* Another carrier: give it half of the copies, rewrite ours afterwards.
VisitSpray(k) ==
  LET r == [mail[k] EXCEPT !.given = @ + Give(mail[k].copies)] IN
  /\ pc = "iterate" /\ k \in todo /\ NeedsSpray(k) /\ SideFound(k)
  /\ ~ Sprayed(k)
  /\ side' = SetSide(k, [SideOf(k) EXCEPT !.mask = @ \cup {Bit[peer]}])
  /\ spray' = spray \cup {[key |-> k, rec |-> [r EXCEPT !.copies = Keep(@)]]}
  /\ mail' = [mail EXCEPT ![k] = r]
  /\ Visited(k)
  /\ UNCHANGED <<now, skipped, peer, direct, deliver, writing, counts>>

\* Nothing to do for this envelope, or the link refused the packet.
VisitNothing(k) ==
  /\ pc = "iterate" /\ k \in todo
  /\ \/ ~ CanDeliver(k) /\ ~ NeedsFlood(k) /\ ~ NeedsSpray(k) /\ UNCHANGED <<side, faults>>
     \/ NeedsSpray(k) /\ SideFound(k) /\ Sprayed(k) /\ UNCHANGED <<side, faults>>
     \/ /\ CanDeliver(k) \/ (NeedsSpray(k) /\ SideFound(k) /\ ~ Sprayed(k))
        /\ FaultLeft /\ faults' = faults + 1
        /\ side' = IF CanDeliver(k) THEN side ELSE SetSide(k, SideOf(k))
  /\ Visited(k)
  /\ UNCHANGED <<now, mail, skipped, peer, direct, deliver, spray, writing,
                 crashes>>

\* No slot: side_get() asks bitle_store_contains() which slot is stale, and
\* waits for the store's lock, which this very iteration holds.
VisitNoSlot(k) ==
  /\ pc = "iterate" /\ k \in todo
  /\ NeedsFlood(k) \/ NeedsSpray(k)
  /\ ~ SideFound(k)
  /\ pc' = "waiting"
  /\ UNCHANGED <<now, mail, skipped, side, ctx, counts>>

Iterated ==
  /\ pc = "iterate" /\ todo = {} /\ pc' = "apply"
  /\ UNCHANGED <<now, mail, skipped, side, ctx, counts>>

\* Mutant: the delivered key is forgotten but not deleted.
ApplyDeleteMutant(k) ==
  /\ pc = "apply" /\ k \in deliver
  /\ deliver' = deliver \ {k}
  /\ UNCHANGED <<now, mail, skipped, side, pc, peer, direct, todo, spray, writing, counts>>
\* bitle_store_delete()
ApplyDelete(k) ==
  /\ pc = "apply" /\ k \in deliver
  /\ mail' = Drop({k}) /\ deliver' = deliver \ {k}
  /\ UNCHANGED <<now, skipped, side, pc, peer, direct, todo, spray, writing, counts>>

\* bitle_store_put() of an existing key: the old record goes first ...
ApplyDrop(op) ==
  /\ pc = "apply" /\ deliver = {} /\ op \in spray
  /\ mail' = Drop({op.key}) /\ spray' = spray \ {op} /\ writing' = {op}
  /\ pc' = "put"
  /\ UNCHANGED <<now, skipped, side, peer, direct, todo, deliver, counts>>

\* ... then the new one is written, or the put fails.
ApplyWrite(op) ==
  /\ pc = "put" /\ op \in writing
  /\ Put(mail, op.key, op.rec)
  /\ writing' = {} /\ pc' = "apply"
  /\ UNCHANGED <<now, side, peer, direct, todo, deliver, spray,
                 crashes>>

Return ==
  /\ pc = "apply" /\ deliver = {} /\ spray = {} /\ pc' = "idle"
  /\ peer' = Nobody /\ direct' = FALSE
  /\ UNCHANGED <<now, mail, skipped, side, todo, deliver, spray, writing, counts>>

Step ==
  \/ \E k \in todo :
       VisitDeliver(k) \/ VisitFlood(k) \/ VisitSpray(k) \/ VisitNothing(k) \/ VisitNoSlot(k)
  \/ Iterated \/ Return
  \/ \E k \in deliver : ApplyDelete(k)
  \/ \E op \in spray : ApplyDrop(op)
  \/ \E op \in writing : ApplyWrite(op)

Next ==
  \/ Tick \/ Crash \/ Step
  \/ \E e \in Deposits : Accept(e)
  \/ \E p \in Peers, d \in BOOLEAN : Announced(p, d)

Spec == Init /\ [][Next]_vars

\* The worker runs, owners come by and announce, and their links do not refuse
\* every packet.
FairSpec ==
  /\ Spec /\ WF_vars(Step)
  /\ \A p \in Range(Owner) : SF_vars(Announced(p, TRUE))
  /\ \A k \in Keys : SF_vars(VisitDeliver(k))
-----------------------------------------------------------------------------
(* Properties.                                                             *)

\* The types of the state.
TypeOK ==
  /\ now \in Times
  /\ Held \subseteq Keys /\ \A k \in Held : mail[k] \in Record
  /\ DOMAIN side \subseteq Keys /\ \A k \in DOMAIN side : side[k] \in Side
  /\ pc \in {"idle", "iterate", "waiting", "apply", "put"}
  /\ peer \in Peers \cup {Nobody} /\ direct \in BOOLEAN
  /\ todo \subseteq Keys /\ deliver \subseteq Keys
  /\ skipped \subseteq Op /\ spray \subseteq Op /\ writing \subseteq Op

\* "at most BITLE_COURIER_MAX_ENVELOPES stored, at most
\* BITLE_COURIER_MAX_PER_DEPOSITOR from any one peer", through deposits,
\* rewrites, failures, resets and clock steps.  Records that a boot left out
\* and a later one has back come on top.
Budgets ==
  /\ Cardinality({k \in Held : ~ mail[k].back}) <= MaxEnvelopes
  /\ \A dep \in Peers :
       Cardinality({k \in Held : mail[k].dep = dep /\ ~ mail[k].back}) <= MaxPerDepositor

\* Spraying divides copies and never creates them: between announces, the
\* copies given away and the ones left are no more than were deposited, as
\* long as no reset falls between a hand-over and its rewrite.
CopiesConserved ==
  pc = "idle" /\ crashes = 0 =>
    \A k \in Held : mail[k].given + mail[k].copies <= mail[k].budget

\* Mail leaves the mailbox only to its owner on a direct link, by expiry, at
\* a boot whose clock finds it expired, or by a failed or overwritten put; a
\* rewrite puts it back.
MailLeaves ==
  [][/\ \A k \in Held \ DOMAIN mail' :
          \/ now > mail[k].exp \/ faults' > faults
          \/ now' > mail[k].exp /\ crashes' > crashes
          \/ k \in deliver /\ Owner[k] = peer /\ direct
          \/ \E op \in writing' : op.key = k /\ op.rec.dep = mail[k].dep
     /\ \A op \in writing : op.key \in DOMAIN mail' \/ faults' > faults \/ crashes' > crashes
    ]_vars

\* The matcher's three days cover a day's mail: by a clock that is not a day
\* behind the sender's, its owner is recognised until it expires.  Mail that
\* lives longer, as the cap of 25 h allows, is unknown for less than the hour
\* it has beyond the day, the last of its life.
TagCoversLifetime ==
  \A k \in Held \ Expired :
    /\ ~ TagMatches(k, Owner[k])
    /\ now >= mail[k].made - Day /\ mail[k].exp - mail[k].made <= MaxLifetime
    => mail[k].exp - mail[k].made > Day /\ mail[k].exp - now < MaxLifetime - Day

\* Mail that its owner can be recognised by.
Waiting(k) == k \in Held /\ TagMatches(k, Owner[k])

\* Owners that keep announcing on a direct link get their mail, however many
\* envelopes exceed one announce's limit, unless it expires or is overwritten,
\* the clock leaves the days of its tag, or the worker is caught in side_get():
\* with every side slot taken, it waits for the store's lock that it holds.
MailIsDelivered == \A k \in Keys : Waiting(k) ~> ~ Waiting(k) \/ pc = "waiting"

\* The worker is not caught in side_get().  It is, once more keys than there
\* are side slots were sprayed or flooded since the last boot.
NeverCaught == pc # "waiting"

\* The mailbox keeps its budgets, keeps copies and creates none, and knows
\* the mail of an owner by its tag, but for the last hour of the cap.
MailAccounted == TypeOK /\ Budgets /\ TagCoversLifetime /\ CopiesConserved
=============================================================================
