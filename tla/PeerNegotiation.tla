---------------------------- MODULE PeerNegotiation ----------------------------
(***************************************************************************)
(* Two browsers describing their media to each other: the perfect          *)
(* negotiation of apps/web/lib/peer-mesh.ts, over the room's signal relay. *)
(*                                                                         *)
(* Each browser holds an RTCPeerConnection.  Its operations are queued and *)
(* executed one at a time; the code that awaits one continues as it ends.  *)
(* Signals arrive in the order they were sent and are applied one by one   *)
(* (signalQueue).  What the connection itself does (signaling states, the  *)
(* implicit rollback, negotiationneeded, ICE generations) is external and  *)
(* modelled from how the code uses it; a browser whose answer cannot carry *)
(* all its tracks asks for a negotiation of its own afterwards.            *)
(*                                                                         *)
(* One media slot stands for the three, which are handled alike.           *)
(***************************************************************************)
EXTENDS Integers, Sequences, FiniteSets

CONSTANT MaxChanges                 \* bound: tracks taken into a slot and ICE restarts

Peer == {1, 2}                      \* compared as the connection IDs are
Other(p) == 3 - p
Track == 1..MaxChanges

VARIABLES
  made,      \* whether the peer has an entry, and so a connection, for the other
  dataChannel, \* whether connect() has created the channel for files
  local,     \* the track published in the slot, 0 for none
  sender,    \* the track its sender was added with, 0 without a sender
  wants,     \* how often the connection has been given something to negotiate
  state,     \* signalingState
  settled,   \* the `wants` and the ICE generation last agreed
  offer,     \* the pending local offer
  chain,     \* the connection's queued operations
  making,    \* makingOffer
  ignore,    \* ignoreOffer
  wire,      \* the signals on their way to the peer
  job,       \* the signal being applied
  pending,   \* pendingCandidates
  remote,    \* ICE generation of remoteDescription, 0 without one
  tracks,    \* remoteTracks
  sources,   \* remoteSources
  gathered,  \* ICE generations whose candidate was sent
  restarting,\* restartIce() was called and not yet negotiated
  ices, changes, restarts,  \* counters
  refused    \* history: a candidate was refused although its offer was not ignored

connection == <<wants, state, settled, offer, chain>>
signals == <<making, ignore, wire, job, pending>>
knowledge == <<remote, tracks, sources>>
ice == <<gathered, restarting, ices, restarts>>
vars == <<made, dataChannel, local, sender, connection, signals, knowledge, ice, changes, refused>>

NoOffer == [wants |-> 0, gen |-> 0]
Nobody == [p \in Peer |-> FALSE]
Zero == [p \in Peer |-> 0]

TypeOK ==
  /\ made \in [Peer -> BOOLEAN] /\ dataChannel \in [Peer -> BOOLEAN]
  /\ local \in [Peer -> 0..MaxChanges] /\ sender \in [Peer -> 0..MaxChanges]
  /\ state \in [Peer -> {"stable", "have-local-offer", "have-remote-offer"}]
  /\ making \in [Peer -> BOOLEAN] /\ ignore \in [Peer -> BOOLEAN]
  /\ job \in [Peer -> {"idle", "setting", "answering", "adding"}]
  /\ tracks \in [Peer -> SUBSET Track] /\ sources \in [Peer -> 0..MaxChanges]
  /\ \A p \in Peer :
       /\ Len(chain[p]) <= 2 /\ Len(pending[p]) <= 1
       /\ settled[p].wants <= wants[p]
       /\ (state[p] = "have-local-offer") = (offer[p] # NoOffer)

Init ==
  /\ made = Nobody /\ dataChannel = Nobody /\ local = Zero /\ sender = Zero
  /\ wants = Zero /\ state = [p \in Peer |-> "stable"]
  /\ settled = [p \in Peer |-> NoOffer] /\ offer = [p \in Peer |-> NoOffer]
  /\ chain = [p \in Peer |-> <<>>]
  /\ making = Nobody /\ ignore = Nobody
  /\ wire = [p \in Peer |-> <<>>] /\ job = [p \in Peer |-> "idle"] /\ pending = [p \in Peer |-> <<>>]
  /\ remote = Zero /\ tracks = [p \in Peer |-> {}] /\ sources = Zero
  /\ gathered = [p \in Peer |-> {}] /\ restarting = Nobody
  /\ ices = Zero /\ changes = Zero /\ restarts = Zero
  /\ refused = FALSE

-----------------------------------------------------------------------------
(* Signals and operations.                                                  *)

Send(p, m) == [wire EXCEPT ![Other(p)] = Append(@, m)]
MediaSources(track) == [is |-> "sources", track |-> track]
Description(type, n, track, gen) ==
  [is |-> "description", type |-> type, wants |-> n, track |-> track, gen |-> gen]
Candidate(gen) == [is |-> "candidate", gen |-> gen]

Queue(p, op) == chain' = [chain EXCEPT ![p] = Append(@, op)]
Op(name, what) == [op |-> name, what |-> what]

(* isPolite()                                                               *)
Mutant_nobodyPolite(p) == FALSE
isPolite(p) == p > Other(p)

(* ensurePeer(): a new connection takes the published track and says which  *)
(* slot it is.                                                              *)
ensurePeer(p) ==
  /\ made' = [made EXCEPT ![p] = TRUE]
  /\ sender' = IF made[p] THEN sender ELSE [sender EXCEPT ![p] = local[p]]

Given(p) == IF ~made[p] /\ local[p] # 0 THEN 1 ELSE 0
Introduced(p) == IF made[p] THEN wire ELSE Send(p, MediaSources(local[p]))

(* connect(): the lower ID creates the data channel, unless it has one.     *)
Creates(p) == p < Other(p) /\ ~dataChannel[p]
Connect(p) ==
  /\ ~made[p] \/ Creates(p)
  /\ ensurePeer(p)
  /\ dataChannel' = [dataChannel EXCEPT ![p] = @ \/ Creates(p)]
  /\ wants' = [wants EXCEPT ![p] = @ + Given(p) + (IF Creates(p) THEN 1 ELSE 0)]
  /\ wire' = Introduced(p)
  /\ UNCHANGED <<local, state, settled, offer, chain, making, ignore, job, pending, knowledge, ice, changes, refused>>

-----------------------------------------------------------------------------
(* setLocalTracks()                                                         *)

Spent == changes[1] + changes[2] + restarts[1] + restarts[2]

Announced(p, track) == IF made[p] THEN Send(p, MediaSources(track)) ELSE wire

(* A track for an empty slot is added, and has to be negotiated.            *)
Publish(p) ==
  /\ local[p] = 0 /\ Spent < MaxChanges
  /\ changes' = [changes EXCEPT ![p] = @ + 1]
  /\ local' = [local EXCEPT ![p] = changes[p] + 1]
  /\ sender' = IF made[p] THEN [sender EXCEPT ![p] = changes[p] + 1] ELSE sender
  /\ wants' = IF made[p] THEN [wants EXCEPT ![p] = @ + 1] ELSE wants
  /\ wire' = Announced(p, changes[p] + 1)
  /\ UNCHANGED <<made, dataChannel, state, settled, offer, chain, making, ignore, job, pending, knowledge, ice, refused>>

(* An emptied slot's sender is removed.                                     *)
Unpublish(p) ==
  /\ local[p] # 0
  /\ local' = [local EXCEPT ![p] = 0] /\ sender' = [sender EXCEPT ![p] = 0]
  /\ wants' = IF made[p] THEN [wants EXCEPT ![p] = @ + 1] ELSE wants
  /\ wire' = Announced(p, 0)
  /\ UNCHANGED <<made, dataChannel, state, settled, offer, chain, making, ignore, job, pending, knowledge, ice, changes, refused>>

(* A track that takes an occupied slot replaces the sender's, without a     *)
(* negotiation: the other side goes on knowing the sender's first track.    *)
Replace(p) ==
  /\ local[p] # 0 /\ Spent < MaxChanges
  /\ changes' = [changes EXCEPT ![p] = @ + 1]
  /\ local' = [local EXCEPT ![p] = changes[p] + 1]
  /\ wire' = Announced(p, changes[p] + 1)
  /\ UNCHANGED <<made, dataChannel, sender, connection, making, ignore, job, pending, knowledge, ice, refused>>

(* onconnectionstatechange to "failed".                                     *)
RestartIce(p) ==
  /\ settled[p].gen # 0 /\ remote[p] # 0 /\ Spent < MaxChanges
  /\ restarts' = [restarts EXCEPT ![p] = @ + 1]
  /\ restarting' = [restarting EXCEPT ![p] = TRUE]
  /\ wants' = [wants EXCEPT ![p] = @ + 1]
  /\ UNCHANGED <<made, dataChannel, local, sender, state, settled, offer, chain, signals, knowledge, gathered, ices, changes, refused>>

-----------------------------------------------------------------------------
(* onnegotiationneeded: fired when the connection is idle and has something *)
(* that no agreed description carries.                                      *)
NegotiationNeeded(p) ==
  /\ made[p] /\ chain[p] = <<>> /\ state[p] = "stable" /\ wants[p] > settled[p].wants
  /\ making' = [making EXCEPT ![p] = TRUE]
  /\ Queue(p, Op("offer", NoOffer))
  /\ UNCHANGED <<made, dataChannel, local, sender, wants, state, settled, offer, ignore, wire, job, pending, knowledge, ice, changes, refused>>

(* Credentials are new on the first description and on a restart.           *)
Fresh(p) == settled[p].gen = 0 \/ restarting[p]
NextGen(p, fresh) == IF fresh THEN ices[p] + 1 ELSE settled[p].gen
CountIce(p, fresh) == ices' = IF fresh THEN [ices EXCEPT ![p] = @ + 1] ELSE ices

(* setLocalDescription() of the handler above, and what follows it.         *)
DoneMaking(p) == [making EXCEPT ![p] = FALSE]
MakeOffer(p) ==
  LET gen == NextGen(p, Fresh(p))
  IN  /\ chain[p] # <<>> /\ Head(chain[p]).op = "offer"
      /\ chain' = [chain EXCEPT ![p] = Tail(@)]
      /\ state' = [state EXCEPT ![p] = "have-local-offer"]
      /\ offer' = [offer EXCEPT ![p] = [wants |-> wants[p], gen |-> gen]]
      /\ CountIce(p, Fresh(p))
      /\ wire' = Send(p, Description("offer", wants[p], sender[p], gen))
      /\ making' = DoneMaking(p)
      /\ UNCHANGED <<made, dataChannel, local, sender, wants, settled, ignore, job, pending, knowledge,
                     gathered, restarting, restarts, changes, refused>>

-----------------------------------------------------------------------------
(* applySignal()                                                            *)

Mutant_ignoresMaking(p, m) == m.type = "offer" /\ state[p] # "stable"
offerCollision(p, m) == m.type = "offer" /\ (making[p] \/ state[p] # "stable")

(* The next signal; it creates the peer if connect() has not.  A signal is  *)
(* not applied before the one before it is done, so no answer is being set  *)
(* when an offer is considered (isSettingRemoteAnswerPending).              *)
Ready(p) == wire[p] # <<>> /\ job[p] = "idle"
Taken(p) == [Introduced(p) EXCEPT ![p] = Tail(@)]
Receives(p) == Ready(p) /\ ensurePeer(p) /\ UNCHANGED dataChannel /\ wants' = [wants EXCEPT ![p] = @ + Given(p)]

ReceiveSources(p) ==
  LET m == Head(wire[p])
  IN  /\ Receives(p) /\ m.is = "sources"
      /\ wire' = Taken(p)
      /\ sources' = [sources EXCEPT ![p] = m.track]
      /\ UNCHANGED <<local, state, settled, offer, chain, making, ignore, job, pending, remote, tracks, ice, changes, refused>>

ReceiveDescription(p) ==
  LET m == Head(wire[p])
      ignores == ~isPolite(p) /\ offerCollision(p, m)
  IN  /\ Receives(p) /\ m.is = "description"
      /\ wire' = Taken(p)
      /\ ignore' = [ignore EXCEPT ![p] = ignores]
      /\ IF ignores
         THEN UNCHANGED <<chain, job>>
         ELSE Queue(p, Op("remote", m)) /\ job' = [job EXCEPT ![p] = "setting"]
      /\ UNCHANGED <<local, state, settled, offer, making, pending, knowledge, ice, changes, refused>>

(* Without a remote description a candidate waits for one, unless it comes  *)
(* with an offer that was ignored.                                          *)
ReceiveCandidate(p) ==
  LET m == Head(wire[p])
  IN  /\ Receives(p) /\ m.is = "candidate"
      /\ wire' = Taken(p)
      /\ IF remote[p] = 0 /\ ~ignore[p]
         THEN pending' = [pending EXCEPT ![p] = Append(@, m)] /\ UNCHANGED <<chain, job>>
         ELSE Queue(p, Op("add", m)) /\ job' = [job EXCEPT ![p] = "adding"] /\ UNCHANGED pending
      /\ UNCHANGED <<local, state, settled, offer, making, ignore, knowledge, ice, changes, refused>>

Refuses(p, ms, gen) == \E i \in DOMAIN ms : ms[i].gen # gen

(* setRemoteDescription(): an offer rolls a pending local one back; then    *)
(* the waiting candidates, and the answer to an offer, follow.              *)
Applies(p, m) == m.type = "offer" \/ state[p] = "have-local-offer"
SetRemote(p) ==
  LET m == Head(chain[p]).what
  IN  /\ chain[p] # <<>> /\ Head(chain[p]).op = "remote" /\ Applies(p, m)
      /\ state' = [state EXCEPT ![p] = IF m.type = "offer" THEN "have-remote-offer" ELSE "stable"]
      /\ settled' = IF m.type = "offer" THEN settled ELSE [settled EXCEPT ![p] = offer[p]]
      /\ restarting' = IF m.type = "offer" \/ offer[p].gen = settled[p].gen THEN restarting
                       ELSE [restarting EXCEPT ![p] = FALSE]
      /\ offer' = [offer EXCEPT ![p] = NoOffer]
      /\ remote' = [remote EXCEPT ![p] = m.gen]
      /\ tracks' = [tracks EXCEPT ![p] = @ \cup ({m.track} \ {0})]
      /\ pending' = [pending EXCEPT ![p] = <<>>]
      /\ refused' = (refused \/ Refuses(p, pending[p], m.gen))
      /\ job' = [job EXCEPT ![p] = IF m.type = "offer" THEN "answering" ELSE "idle"]
      /\ chain' = [chain EXCEPT ![p] = IF m.type = "offer"
                                       THEN Append(Tail(@), Op("answer", [fresh |-> remote[p] # m.gen]))
                                       ELSE Tail(@)]
      /\ UNCHANGED <<made, dataChannel, local, sender, wants, making, ignore, wire, sources, gathered, ices, restarts, changes>>

(* setLocalDescription() of an answer, which may leave new tracks out.      *)
MakeAnswer(p) ==
  LET fresh == Head(chain[p]).what.fresh \/ settled[p].gen = 0
      gen == NextGen(p, fresh)
  IN  /\ chain[p] # <<>> /\ Head(chain[p]).op = "answer"
      /\ chain' = [chain EXCEPT ![p] = Tail(@)]
      /\ state' = [state EXCEPT ![p] = "stable"]
      /\ CountIce(p, fresh)
      /\ \E n \in {wants[p], settled[p].wants} :
           /\ settled' = [settled EXCEPT ![p] = [wants |-> n, gen |-> gen]]
           /\ wire' = Send(p, Description("answer", n, IF n = wants[p] THEN sender[p] ELSE 0, gen))
           /\ restarting' = IF n = wants[p] THEN [restarting EXCEPT ![p] = FALSE] ELSE restarting
      /\ job' = [job EXCEPT ![p] = "idle"]
      /\ UNCHANGED <<made, dataChannel, local, sender, wants, offer, making, ignore, pending, knowledge, gathered, restarts, changes, refused>>

(* addIceCandidate(): a failure counts unless the offer was ignored.        *)
AddCandidate(p) ==
  LET m == Head(chain[p]).what
  IN  /\ chain[p] # <<>> /\ Head(chain[p]).op = "add"
      /\ chain' = [chain EXCEPT ![p] = Tail(@)]
      /\ refused' = (refused \/ (m.gen # remote[p] /\ ~ignore[p]))
      /\ job' = [job EXCEPT ![p] = "idle"]
      /\ UNCHANGED <<made, dataChannel, local, sender, wants, state, settled, offer, making, ignore, wire, pending, knowledge, ice, changes>>

(* onicecandidate, once per set of credentials that a local description has. *)
LocalGen(p) == IF offer[p] # NoOffer THEN offer[p].gen ELSE settled[p].gen
Gather(p) ==
  /\ LocalGen(p) # 0 /\ LocalGen(p) \notin gathered[p]
  /\ gathered' = [gathered EXCEPT ![p] = @ \cup {LocalGen(p)}]
  /\ wire' = Send(p, Candidate(LocalGen(p)))
  /\ UNCHANGED <<made, dataChannel, local, sender, connection, making, ignore, job, pending, knowledge,
                 restarting, ices, restarts, changes, refused>>

(* notifyRemoteMedia(): what the peer shows in the slot, a track it has and *)
(* was told is the slot's.                                                  *)
notifyRemoteMedia(p) == tracks[p] \cap {sources[p]}

Negotiate(p) ==
  \/ Connect(p) \/ NegotiationNeeded(p) \/ MakeOffer(p)
  \/ ReceiveSources(p) \/ ReceiveDescription(p) \/ ReceiveCandidate(p)
  \/ SetRemote(p) \/ MakeAnswer(p) \/ AddCandidate(p) \/ Gather(p)
Change(p) == Publish(p) \/ Unpublish(p) \/ Replace(p) \/ RestartIce(p)
Next == \E p \in Peer : Negotiate(p) \/ Change(p)

Spec == Init /\ [][Next]_vars

(* Browsers execute what is queued and the room delivers what was sent.     *)
FairSpec == Spec /\ WF_vars(\E p \in Peer : Negotiate(p))

-----------------------------------------------------------------------------
(* A candidate is refused only while its offer is ignored: "without this    *)
(* queue the candidate is permanently lost".                                *)
NoCandidateLost == ~refused

(* An answer meets the offer it answers: glare never pairs an answer with   *)
(* an offer that was rolled back or never accepted.                         *)
AnswersMeetOffers ==
  \A p \in Peer :
    chain[p] # <<>> /\ Head(chain[p]).op = "remote" => Applies(p, Head(chain[p]).what)

(* Every track change is described to the other side in the end, whatever   *)
(* glare the offers met: both sides settle, agree, and what either one      *)
(* publishes and added as a track, the other one can show in its slot.      *)
Described(p) ==
  /\ made[p] /\ state[p] = "stable" /\ settled[p].wants = wants[p]
  /\ sources[Other(p)] = local[p]
  /\ local[p] # 0 /\ local[p] = sender[p] => notifyRemoteMedia(Other(p)) = {local[p]}
AllDescribed == <>[](\A p \in Peer : Described(p))
=============================================================================
