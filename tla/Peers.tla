------------------------------- MODULE Peers --------------------------------
(***************************************************************************)
(* The peers a node knows (logic/peers.js, logic/peer.js), how it learns   *)
(* of them, keeps them fresh and forgets them (modules/peers.js), and what *)
(* every request and every answer does to the table (getFromPeer and       *)
(* handshake of modules/transport.js).                                     *)
(*                                                                         *)
(* An entry is inserted when its peer has answered or sent a request, or   *)
(* when another peer lists it; then it is DISCONNECTED until it answers    *)
(* itself.  Requests are under way for any time: the job of this module    *)
(* and the broadcasts wait for their answers while the peers go down, come *)
(* back and change.                                                        *)
(*                                                                         *)
(* An entry keeps its state, its broadhash and its nonce.  The nonce tells *)
(* the node itself, whose address other peers list, from the others: it is *)
(* drawn at every start.  Other nonces, versions and heights are left out; *)
(* a peer of another network or version answers as "wrong".                *)
(*                                                                         *)
(* The names of the specification are those of the module: NetworkProofs   *)
(* extends it together with Broadcaster.                                   *)
(***************************************************************************)
EXTENDS Integers, Sequences, FiniteSets

CONSTANTS Remote,      \* addresses of the other peers
          Self,        \* the address of the node
          Seeds,       \* config.peers.list: never removed
          MaxPeers,    \* constants.maxPeers
          BroadcastLimit, \* config.broadcasts.broadcastLimit
          Hashes,      \* broadhashes
          MaxChanges,  \* bound: times that a peer goes down, comes back, ...
          MaxRestarts, \* bound: times that the node is stopped
          None

Address == Remote \cup {Self}

ASSUME PeersAssumption ==
  /\ Self \notin Remote
  /\ Seeds \subseteq Address
  /\ {MaxPeers, BroadcastLimit} \subseteq Nat \ {0}
  /\ {MaxChanges, MaxRestarts} \subseteq Nat
  /\ None \notin Address

VARIABLES
  status,    \* of the other peers: "up", "down", or "wrong" network or version
  hash,      \* the broadhash of the other peers
  changes,   \* how often they changed
  table,     \* __private.peers: entries by address, or None
  saved,     \* the addresses in the table of the database
  life,      \* the nonce of the node: its number of starts
  ownHash,   \* __private.broadhash of modules/system.js
  job,       \* where the node is in getting to know its peers
  pinging,   \* addresses that the job waits for
  asking,    \* the peer whose list the job waits for, or None
  recent,    \* addresses whose entry is less than three seconds old
  posting,   \* peers that a broadcast waits for
  told       \* history: the broadhash that a peer itself told last

peersVars == <<status, hash, changes, table, saved, life, ownHash, job, pinging, asking,
          recent, posting, told>>

Disconnected == 1
Connected == 2
\* list of logic/peers.js
Known == {p \in Address : table[p] # None}
HasState(t, p, states) == t[p] # None /\ t[p].state \in states

-----------------------------------------------------------------------------
(* The table *)

\* Peer.accept: an entry of what is told.  Only the node itself is told by its nonce.
Accept(p, state, h, nonce) ==
  [state |-> state, hash |-> h, nonce |-> IF p = Self THEN nonce ELSE 0]

\* acceptable: no peer with the nonce of the node.
Acceptable(S, t) == {p \in S : ~(p = Self /\ t[p].nonce = life)}

\* An entry that exists is replaced without a look at its nonce.
Upsert(t, p, entry, insertOnly) ==
  IF t[p] = None
  THEN IF p = Self /\ entry.nonce = life THEN t ELSE [t EXCEPT ![p] = entry]
  ELSE IF insertOnly THEN t ELSE [t EXCEPT ![p] = entry]

\* What a peer tells of itself in the headers of an answer or a request
Headers(p) == Accept(p, Connected, IF p = Self THEN ownHash ELSE hash[p], life)

\* peers.update after valid headers
Update(t, p) == Upsert(t, p, Headers(p), FALSE)

Forget(t, p) == [t EXCEPT ![p] = None]

\* peers.remove: a peer of the configuration is frozen.
RemovePeer(t, p) == IF p \in Seeds THEN t ELSE Forget(t, p)

\* The job pings the entries themselves: applyHeaders has written the headers
\* into the entry, and its state, before they are found invalid.
SpoilEntry(t, p) ==
  IF t[p] = None THEN t
  ELSE [t EXCEPT ![p] = [state |-> Disconnected, hash |-> Headers(p).hash, nonce |-> @.nonce]]

\* The first n of a shuffled list
Picks(S, n) == {P \in SUBSET S : Cardinality(P) = IF Cardinality(S) < n THEN Cardinality(S) ELSE n}

\* Mutant of Lists: the peers are not looked at again.
ListsAny(n, states, wanted) ==
  LET matched   == {p \in Known : HasState(table, p, states) /\ table[p].hash = wanted}
      unmatched == {p \in Known : HasState(table, p, states) /\ table[p].hash # wanted}
  IN  UNION {{[matched |-> M, other |-> U] : U \in Picks(unmatched, n - Cardinality(M))}
             : M \in Picks(matched, n)}

\* list: at random those with the broadhash first, then the others.  The limit
\* cuts off before the acceptable ones are picked.
Lists(n, states, wanted) ==
  LET matched   == {p \in Known : HasState(table, p, states) /\ table[p].hash = wanted}
      unmatched == {p \in Known : HasState(table, p, states) /\ table[p].hash # wanted}
      found     == {Acceptable(M, table) : M \in Picks(matched, n)}
  IN  UNION {{[matched |-> M, other |-> Acceptable(U, table)]
              : U \in Picks(unmatched, n - Cardinality(M))} : M \in found}

All(l) == l.matched \cup l.other

-----------------------------------------------------------------------------
(* The other peers, and the chain of the node *)
Change(p) ==
  /\ changes < MaxChanges
  /\ changes' = changes + 1
  /\ \/ \E s \in {"up", "down", "wrong"} \ {status[p]} :
          status' = [status EXCEPT ![p] = s] /\ UNCHANGED hash
     \/ \E h \in Hashes \ {hash[p]} :
          hash' = [hash EXCEPT ![p] = h] /\ UNCHANGED status
  /\ UNCHANGED <<table, saved, life, ownHash, job, pinging, asking, recent, posting, told>>

\* system.update
HeadersChange ==
  /\ changes < MaxChanges
  /\ changes' = changes + 1
  /\ \E h \in Hashes \ {ownHash} : ownHash' = h
  /\ UNCHANGED <<status, hash, table, saved, life, job, pinging, asking, recent, posting, told>>

Up(p) == p \in {Self} \cup {q \in Remote : status[q] = "up"}

\* What the answer to a request, or its failure, does to the table; `entry`: the
\* request was made with the entry itself.
Outcome(p, entry) ==
  IF Up(p)
  THEN /\ table' = Update(table, p)
       /\ told' = [told EXCEPT ![p] = Headers(p).hash]
       /\ recent' = recent \cup {p}
  ELSE /\ table' = RemovePeer(IF entry /\ status[p] = "wrong" THEN SpoilEntry(table, p) ELSE table, p)
       /\ UNCHANGED <<told, recent>>

\* handshake: a request of another peer
Handshake(p) ==
  /\ status[p] # "down"
  /\ Outcome(p, FALSE)
  /\ UNCHANGED <<status, hash, changes, saved, life, ownHash, job, pinging, asking, posting>>

-----------------------------------------------------------------------------
(* broadcast: a post to the listed peers, the matched ones first.  Listing   *)
(* counts the limit down by the matched ones, and a limit that is no longer  *)
(* peerLimit cuts nobody off: a block goes to all of them.  A release lists  *)
(* with parameters of its own, and its transactions go to broadcastLimit.    *)

Broadcast ==
  /\ posting = {}
  /\ \E l \in Lists(MaxPeers, {Connected}, ownHash), immediate \in BOOLEAN :
       IF immediate /\ l.matched # {}
       THEN posting' = All(l)
       ELSE \E M \in Picks(l.matched, BroadcastLimit) :
              \E U \in Picks(l.other, BroadcastLimit - Cardinality(M)) : posting' = M \cup U
  /\ UNCHANGED <<status, hash, changes, table, saved, life, ownHash, job, pinging, asking,
                 recent, told>>

Posted(p) ==
  /\ p \in posting
  /\ posting' = posting \ {p}
  /\ Outcome(p, FALSE)
  /\ UNCHANGED <<status, hash, changes, saved, life, ownHash, job, pinging, asking>>

-----------------------------------------------------------------------------
(* The job: seeds, rows of the database and a first discovery at the start, *)
(* then by a timer a discovery and a ping of every entry                    *)

Pinged(p) ==
  /\ p \in pinging
  /\ Outcome(p, job \in {"load", "update"} /\ table[p] # None)
  /\ pinging' = pinging \ {p}
  /\ UNCHANGED <<status, hash, changes, saved, life, ownHash, job, asking, posting>>

\* dbLoad: rows already in the table only if their entry is old
SeedsInserted ==
  /\ job = "seeds" /\ pinging = {}
  /\ job' = "load"
  /\ \E skipped \in SUBSET (recent \cap Known) : pinging' = saved \ skipped
  /\ UNCHANGED <<status, hash, changes, table, saved, life, ownHash, asking, recent, posting, told>>

\* getFromRandomPeer; without a peer the discovery fails and the job goes on.
Discover ==
  /\ \/ job = "load" /\ pinging = {} /\ job' = "first"
     \/ job = "idle" /\ job' = "discover"
  /\ \E l \in Lists(1, {Disconnected, Connected}, ownHash) :
       asking' = IF All(l) = {} THEN None ELSE CHOOSE p \in All(l) : TRUE
  /\ recent' = {}
  /\ UNCHANGED <<status, hash, changes, table, saved, life, ownHash, pinging, posting, told>>

\* Mutant of Rumour: the state is taken over from the other peer.
RumourAsListed(p, h, nonce) == Accept(p, Connected, h, nonce)

\* What another peer says of a peer, before the peer has answered itself
Rumour(p, h, nonce) == Accept(p, Disconnected, h, nonce)

\* The answer to /list: any peers, the node among them, as they were known there
Listed(S, h, nonce) ==
  /\ asking # None
  /\ Up(asking)
  /\ asking' = None
  /\ told' = [told EXCEPT ![asking] = Headers(asking).hash]
  /\ LET updated == Update(table, asking)
     IN  table' = [p \in Address |->
           IF p \in S THEN Upsert(updated, p, Rumour(p, h, nonce), TRUE)[p] ELSE updated[p]]
  /\ recent' = recent \cup {asking} \cup {p \in S : table[p] = None}
  /\ UNCHANGED <<status, hash, changes, saved, life, ownHash, job, pinging, posting>>

ListFailed ==
  /\ asking # None
  /\ ~Up(asking)
  /\ asking' = None
  /\ Outcome(asking, FALSE)
  /\ UNCHANGED <<status, hash, changes, saved, life, ownHash, job, pinging, posting>>

\* Mutant of UpdatePeers: only connected peers are pinged.
UpdateConnected ==
  /\ job = "discover" /\ asking = None
  /\ job' = "update"
  /\ pinging' = {p \in Known : HasState(table, p, {Connected})}
  /\ UNCHANGED <<status, hash, changes, table, saved, life, ownHash, asking, recent, posting, told>>

\* The second half: every entry that is not recent is pinged.
UpdatePeers ==
  /\ job = "discover" /\ asking = None
  /\ job' = "update"
  /\ \E skipped \in SUBSET recent : pinging' = Known \ skipped
  /\ UNCHANGED <<status, hash, changes, table, saved, life, ownHash, asking, recent, posting, told>>

JobDone ==
  /\ \/ job = "first" /\ asking = None
     \/ job = "update" /\ pinging = {}
  /\ job' = "idle"
  /\ UNCHANGED <<status, hash, changes, table, saved, life, ownHash, pinging, asking, recent, posting, told>>

-----------------------------------------------------------------------------
(* A stop saves the entries, if there are any; a crash does not.  The node  *)
(* starts with an empty table and a new nonce, and pings its seeds.         *)
Restart(clean) ==
  /\ life <= MaxRestarts
  /\ life' = life + 1
  /\ saved' = IF clean /\ Known # {} THEN Known ELSE saved
  /\ table' = [p \in Address |-> None]
  /\ told' = [p \in Address |-> None]
  /\ job' = "seeds"
  /\ pinging' = Seeds
  /\ asking' = None
  /\ recent' = {}
  /\ posting' = {}
  /\ ownHash' \in Hashes
  /\ UNCHANGED <<status, hash, changes>>

PeersInit ==
  /\ status = [p \in Remote |-> "up"]
  /\ hash \in [Remote -> Hashes]
  /\ changes = 0
  /\ table = [p \in Address |-> None]
  /\ saved = {}
  /\ life = 1
  /\ ownHash \in Hashes
  /\ job = "seeds"
  /\ pinging = Seeds
  /\ asking = None
  /\ recent = {}
  /\ posting = {}
  /\ told = [p \in Address |-> None]

DiscoverStep ==
  \/ SeedsInserted \/ Discover \/ ListFailed \/ UpdatePeers \/ JobDone
  \/ \E S \in SUBSET Address, h \in Hashes, nonce \in 1..life : Listed(S, h, nonce)

PeersNext ==
  \/ HeadersChange \/ Broadcast
  \/ \E p \in Remote : Change(p) \/ Handshake(p)
  \/ \E p \in Address : Pinged(p) \/ Posted(p)
  \/ DiscoverStep
  \/ \E clean \in BOOLEAN : Restart(clean)

\* Every request ends, by an answer or a timeout, and the timer goes on.
PeersFairness ==
  /\ WF_peersVars(DiscoverStep)
  /\ \A p \in Address : WF_peersVars(Pinged(p)) /\ WF_peersVars(Posted(p))

PeersSpec == PeersInit /\ [][PeersNext]_peersVars /\ PeersFairness

-----------------------------------------------------------------------------
Entry == [state : {Disconnected, Connected}, hash : Hashes, nonce : 0..MaxRestarts + 1]

PeersTypeOK ==
  /\ status \in [Remote -> {"up", "down", "wrong"}]
  /\ hash \in [Remote -> Hashes]
  /\ changes \in 0..MaxChanges
  /\ table \in [Address -> Entry \cup {None}]
  /\ saved \subseteq Address
  /\ life \in 1..MaxRestarts + 1
  /\ ownHash \in Hashes
  /\ job \in {"seeds", "load", "first", "idle", "discover", "update"}
  /\ pinging \subseteq Address
  /\ asking \in Address \cup {None}
  /\ recent \cup posting \subseteq Address
  /\ told \in [Address -> Hashes \cup {None}]

(***************************************************************************)
(* What the node holds of a connected peer the peer has told itself: lists *)
(* of other peers, late answers and removals in between never leave an     *)
(* entry connected with a broadhash the peer did not tell last.            *)
(***************************************************************************)
FirstHand == \A p \in Address : HasState(table, p, {Connected}) => table[p].hash = told[p]

(***************************************************************************)
(* The entries are well formed, and those of connected peers first hand.   *)
(***************************************************************************)
EntriesOK == PeersTypeOK /\ FirstHand

(***************************************************************************)
(* Lists of other peers, a restart with another nonce and answers to its   *)
(* own requests: the node never posts a block or a transaction to itself.  *)
(***************************************************************************)
NeverToItself == Self \notin posting

(***************************************************************************)
(* A peer that is down for good does not stay connected, whatever requests *)
(* and lists of others say of it; the seeds are never given up.            *)
(***************************************************************************)
DeadForgotten ==
  \A p \in Remote \ Seeds :
    <>[](status[p] # "up") => <>[](~HasState(table, p, {Connected}))

(***************************************************************************)
(* A peer that the node knows and that is there to stay gets connected,    *)
(* unless the node is stopped before.                                      *)
(***************************************************************************)
KnownConnects ==
  \A p \in Remote :
    (life > MaxRestarts /\ p \in Known /\ [](status[p] = "up")) ~> HasState(table, p, {Connected})

(***************************************************************************)
(* The table settles: it follows peers that are gone and peers that stay.  *)
(***************************************************************************)
PeersSettle == DeadForgotten /\ KnownConnects
=============================================================================
