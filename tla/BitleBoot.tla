------------------------------ MODULE BitleBoot ------------------------------
(***************************************************************************)
(* Start-up (src/main/main.c), the node's keys (load_identity of           *)
(* src/main/noise_handshake.c) and its nickname                            *)
(* (src/main/nickname_manager.c), with power cuts between any two writes.  *)
(*                                                                         *)
(* A value set in NVS is certain to survive a cut once it is committed;    *)
(* until then it may or may not.  Keys are numbers, 0 is what the static   *)
(* buffers hold before they are filled; a peer ID is the number of its     *)
(* static key, and nickname suffixes are taken modulo SuffixCount.            *)
(***************************************************************************)
EXTENDS Naturals, FiniteSets, Functions

CONSTANTS SuffixCount,      \* 10000
          MaxCuts, MaxFaults, MaxMade,
          FirstNicks     \* nicknames NVS may hold when the firmware first runs

\* A name that is derived from the keys is not there before there are keys.
ASSUME BootAssumption ==
  \A n \in FirstNicks : n.form \in {"none", "anon", "custom", "unprintable"}

Missing == 0
NvsKeys == {"static", "peer", "sign", "signpub", "nick"}

VARIABLES stage,     \* where app_main is
          flash,     \* committed NVS contents
          dirty,     \* values set and not yet committed
          ram,       \* s_static_private, s_peer_id, s_ed25519_*, s_nickname
          pages,     \* NVS partition: "ok" or "full" (no free pages, or a new version)
          made,      \* keys generated so far
          ranAs,     \* identities the node has run under
          cuts, faults

bootVars == <<stage, flash, dirty, ram, pages, made, ranAs, cuts, faults>>

NoNick == [form |-> "none", n |-> 0]
Det(n) == [form |-> "bitle", n |-> n]
NoRam == [static |-> 0, peer |-> 0, sign |-> 0, signpub |-> 0, nick |-> NoNick]

\* Functions on any subset of the keys set since the last commit.
Set(k, v) == [x \in DOMAIN dirty \cup {k} |-> IF x = k THEN v ELSE dirty[x]]
Stored(k) == IF k \in DOMAIN dirty THEN dirty[k] ELSE flash[k]
Written(d) == [k \in NvsKeys |-> IF k \in DOMAIN d THEN d[k] ELSE flash[k]]

Empty == [k \in NvsKeys |-> IF k = "nick" THEN NoNick ELSE Missing]
NoWrites == [k \in {} |-> 0]

BootInit ==
  /\ stage = "off" /\ ram = NoRam /\ dirty = NoWrites
  /\ \E n \in FirstNicks : flash = [Empty EXCEPT !["nick"] = n]
  /\ pages \in {"ok", "full"}
  /\ made = 0 /\ ranAs = {} /\ cuts = 0 /\ faults = 0

Restart ==
  /\ stage' = "off" /\ ram' = NoRam /\ dirty' = NoWrites

\* ESP_ERROR_CHECK fails, or abort(): the chip restarts.
AbortBoot ==
  /\ faults < MaxFaults /\ faults' = faults + 1
  /\ Restart
  /\ \E kept \in SUBSET DOMAIN dirty : flash' = Written(Restrict(dirty, kept))
  /\ UNCHANGED <<pages, made, ranAs, cuts>>

PowerCut ==
  /\ stage # "off"
  /\ cuts < MaxCuts /\ cuts' = cuts + 1
  /\ Restart
  /\ \E kept \in SUBSET DOMAIN dirty : flash' = Written(Restrict(dirty, kept))
  /\ UNCHANGED <<pages, made, ranAs, faults>>

\* The NVS partition runs out of free pages while the node is off.
FillPages ==
  /\ stage = "off" /\ pages = "ok" /\ pages' = "full"
  /\ faults < MaxFaults /\ faults' = faults + 1
  /\ UNCHANGED <<stage, flash, dirty, ram, made, ranAs, cuts>>

Goto(s) == stage' = s
Fault == faults < MaxFaults /\ faults' = faults + 1

\* nvs_flash_init, and the erase when the partition cannot be used.
nvs_flash_initMutant ==
  /\ stage = "off"
  /\ pages = "ok" /\ Goto("hash")
  /\ UNCHANGED <<flash, dirty, ram, pages, made, ranAs, cuts, faults>>

nvs_flash_init ==
  /\ stage = "off"
  /\ Goto("hash")
  /\ flash' = IF pages = "full" THEN Empty ELSE flash
  /\ pages' = "ok"
  /\ UNCHANGED <<dirty, ram, made, ranAs, cuts, faults>>

\* bitle_hash_init: PSA is brought up and its known answers are checked;
\* bitchat_time_init follows.
bitle_hash_init ==
  /\ stage = "hash"
  /\ \/ Goto("static") /\ UNCHANGED <<flash, dirty, ram, pages, made, ranAs, cuts, faults>>
     \/ AbortBoot

\* load_identity up to the peer ID.  A blob that cannot be read, for
\* whatever reason, is replaced by a new key; when that cannot be written
\* either, the chip restarts.
LoadStatic ==
  /\ stage = "static"
  /\ \/ /\ Fault                                    \* nvs_open fails
        /\ Goto("nickname")
        /\ UNCHANGED <<flash, dirty, ram, made>>
     \/ /\ \/ /\ Stored("static") # Missing
              /\ ram' = [ram EXCEPT !.static = Stored("static"), !.peer = Stored("static")]
              /\ dirty' = Set("peer", Stored("static"))
              /\ UNCHANGED <<made, faults>>
           \/ /\ made < MaxMade /\ made' = made + 1
              /\ IF Stored("static") = Missing THEN UNCHANGED faults ELSE Fault
              /\ ram' = [ram EXCEPT !.static = made + 1, !.peer = made + 1]
              /\ dirty' = [x \in DOMAIN dirty \cup {"static", "peer"} |-> made + 1]
        /\ Goto("sign")
        /\ UNCHANGED flash
     \/ AbortBoot
  /\ UNCHANGED <<pages, ranAs, cuts>>

\* The rest of load_identity, up to but not including its nvs_commit.
LoadSign ==
  /\ stage = "sign"
  /\ \/ /\ \/ /\ Stored("sign") # Missing
              /\ ram' = [ram EXCEPT !.sign = Stored("sign"), !.signpub = Stored("sign")]
              /\ dirty' = Set("signpub", Stored("sign"))
              /\ UNCHANGED <<made, faults>>
           \/ /\ made < MaxMade /\ made' = made + 1
              /\ IF Stored("sign") = Missing THEN UNCHANGED faults ELSE Fault
              /\ ram' = [ram EXCEPT !.sign = made + 1, !.signpub = made + 1]
              /\ dirty' = [x \in DOMAIN dirty \cup {"sign", "signpub"} |->
                             IF x \in {"sign", "signpub"} THEN made + 1 ELSE dirty[x]]
        /\ Goto("commit")
        /\ UNCHANGED flash
     \/ AbortBoot
  /\ UNCHANGED <<pages, ranAs, cuts>>

\* nvs_commit, its result ignored, and nvs_close.
CommitIdentityMutant ==
  /\ stage = "commit" /\ Goto("nickname")
  /\ UNCHANGED <<flash, dirty, ram, pages, made, ranAs, cuts, faults>>

CommitIdentity ==
  /\ stage = "commit"
  /\ Goto("nickname")
  /\ \/ flash' = Written(dirty) /\ dirty' = NoWrites /\ UNCHANGED faults
     \/ Fault /\ UNCHANGED <<flash, dirty>>
  /\ UNCHANGED <<ram, pages, made, ranAs, cuts>>

nickname_is_deterministic(name) == name.form = "bitle"
nickname_is_legacy_anon(name) == name.form = "anon"
\* Printable and 1 to 31 characters: every form but an unprintable name.
nickname_is_custom_valid(name) == name.form \in {"bitle", "anon", "custom"}
nickname_suffix_from_peer_id(peer) == peer % SuffixCount
nickname_generate(peer) == Det(nickname_suffix_from_peer_id(peer))

\* The stored name nickname_init keeps.  The third disjunct is the code's,
\* and is never reached: such a name is a valid custom name.
Keeps(name) ==
  /\ ~nickname_is_legacy_anon(name)
  /\ \/ nickname_is_custom_valid(name)
     \/ nickname_is_deterministic(name) /\ name = nickname_generate(ram.peer)

\* load_nickname: nickname_init, or "Bitle-0000" when NVS cannot be opened.
load_nickname ==
  /\ stage = "nickname"
  /\ \/ /\ Keeps(Stored("nick"))
        /\ ram' = [ram EXCEPT !.nick = Stored("nick")]
        /\ Goto("services")
        /\ UNCHANGED <<dirty, faults>>
     \/ /\ IF Keeps(Stored("nick")) THEN Fault ELSE UNCHANGED faults     \* the read fails
        /\ ram' = [ram EXCEPT !.nick = nickname_generate(ram.peer)]
        /\ dirty' = Set("nick", nickname_generate(ram.peer))
        /\ Goto("store_nick")
     \/ /\ Fault
        /\ ram' = [ram EXCEPT !.nick = Det(0)]
        /\ Goto("services")
        /\ UNCHANGED dirty
  /\ UNCHANGED <<flash, pages, made, ranAs, cuts>>

\* The commit of nickname_store; its result is ignored.
nickname_store ==
  /\ stage = "store_nick"
  /\ Goto("services")
  /\ \/ flash' = Written(dirty) /\ dirty' = NoWrites /\ UNCHANGED faults
     \/ Fault /\ UNCHANGED <<flash, dirty>>
  /\ UNCHANGED <<ram, pages, made, ranAs, cuts>>

\* The rest of app_main: the other components, of which only the courier
\* may fail without a restart, and the main task.
app_main ==
  /\ stage = "services"
  /\ \/ /\ Goto("running")
        /\ ranAs' = ranAs \cup {[peer |-> ram.peer, sign |-> ram.sign]}
        /\ UNCHANGED <<flash, dirty, ram, pages, made, cuts, faults>>
     \/ AbortBoot

BootStep ==
  \/ nvs_flash_init \/ bitle_hash_init \/ LoadStatic \/ LoadSign
  \/ CommitIdentity \/ load_nickname \/ nickname_store \/ app_main

BootNext == BootStep \/ PowerCut \/ FillPages

BootFairness == WF_bootVars(BootStep)

---------------------------------------------------------------------------
\* A node that has run under an identity keeps it over power cuts at any
\* instant: keys are committed before the node is heard, and one that was
\* never heard may be replaced (noise_handshake.c:176-216).
OneIdentity == faults = 0 => Cardinality(ranAs) <= 1

\* A running node uses the keys NVS holds, and the peer ID and public key
\* recorded there are theirs, whatever was cut or lost before.
StoredIdentity ==
  stage = "running" /\ faults = 0 =>
    /\ \A k \in {"static", "peer", "sign", "signpub"} : flash[k] = ram[k] /\ ram[k] # Missing
    /\ flash["peer"] = flash["static"] /\ flash["signpub"] = flash["sign"]

\* A generated nickname is that of the node's own peer ID: README.md:29,
\* "On first boot a node derives a display nickname".
OwnNickname ==
  stage = "running" /\ faults = 0 /\ nickname_is_deterministic(ram.nick) =>
    ram.nick = Det(ram.peer % SuffixCount)

\* The same after storage errors: nickname_manager.c:149 logs "Nickname %s
\* mismatches deterministic suffix %04u, regenerating".
NicknameFollowsIdentity ==
  stage = "running" /\ nickname_is_deterministic(ram.nick) /\ ram.peer # 0 /\ ram.nick # Det(0) =>
    ram.nick = Det(ram.peer % SuffixCount)

\* Start-up ends: power cuts, aborts and unusable NVS pages delay it, none
\* of them leaves the node restarting for ever (main.c:45-90).
Starts == []<>(stage = "running" \/ made = MaxMade)

\* One identity for life, the stored one, and the nickname that goes with it.
IdentityKept == OneIdentity /\ StoredIdentity /\ OwnNickname
=============================================================================
