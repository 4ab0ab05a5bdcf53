------------------------------ MODULE MCPeerMesh ------------------------------
(***************************************************************************)
(* The two halves of the mesh, negotiation and files.  They share no       *)
(* state, so each is explored with the other one at rest.                  *)
(***************************************************************************)
EXTENDS PeerNegotiation

CONSTANTS Receiver, File, Chunks

VARIABLES channel, transfer, next, recipients, status, transit, incoming, received, overlapped
Files == INSTANCE FileTransfer
files == <<channel, transfer, next, recipients, status, transit, incoming, received, overlapped>>

VARIABLE half
MeshInit == Init /\ Files!Init /\ half \in {"negotiation", "files"}
MeshNext ==
  \/ half = "negotiation" /\ Next /\ UNCHANGED <<half, files>>
  \/ half = "files" /\ Files!Next /\ UNCHANGED <<half, vars>>

NegotiationMoves == half = "negotiation" /\ (\E p \in Peer : Negotiate(p)) /\ UNCHANGED <<half, files>>

(* One of the browsers goes on while either has something to execute or to  *)
(* receive.                                                                 *)
MeshSpec ==
  /\ MeshInit /\ [][MeshNext]_<<half, vars, files>>
  /\ WF_<<half, vars, files>>(NegotiationMoves)

(* Negotiation: no candidate of an accepted offer is refused, and an answer *)
(* meets the offer it answers, with signals applied one at a time.          *)
NegotiationSound == TypeOK /\ NoCandidateLost /\ AnswersMeetOffers

(* Files: one sent on its own arrives whole, and those counted as its       *)
(* recipients have it.                                                      *)
FilesSound == Files!FilesTypeOK /\ Files!FilesArriveWhole /\ Files!SentIsReceived

(* Every track change is described to the other browser in the end.         *)
AllDescribedInTheEnd == half = "negotiation" => AllDescribed
=============================================================================
