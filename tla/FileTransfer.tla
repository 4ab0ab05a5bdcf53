----------------------------- MODULE FileTransfer -----------------------------
(***************************************************************************)
(* Files sent over the data channels of the mesh: sendFile() and the       *)
(* channel handlers of apps/web/lib/peer-mesh.ts, and uploadFiles() of     *)
(* room-workspace.tsx.                                                     *)
(*                                                                         *)
(* A file is a header, its chunks and an end, sent to every peer whose     *)
(* channel was open; reading a chunk is awaited, so several files started  *)
(* together take turns on the same channels, and a receiver has one set of *)
(* parts per peer.                                                         *)
(***************************************************************************)
EXTENDS Integers, Sequences, FiniteSets

CONSTANTS
  Receiver,  \* the peers the sender is connected to
  File,      \* files picked for sending
  Chunks     \* chunks of each file, a natural number

VARIABLES
  channel,    \* readyState of the channel to each receiver
  transfer,   \* how far each file's sendFile() is
  next,       \* the next chunk it sends
  recipients, \* whom it is sent to
  status,     \* what the sender's list says of the file
  transit,    \* the messages on each channel
  incoming,   \* the receiver's incomingFile and fileParts
  received,   \* the files handed to onFile
  overlapped  \* history: files sent while another one was

vars == <<channel, transfer, next, recipients, status, transit, incoming, received, overlapped>>

NoFile == "shared-file"
Chunk == [file : File, part : 1..Chunks]

FilesTypeOK ==
  /\ channel \in [Receiver -> {"connecting", "open", "closed"}]
  /\ transfer \in [File -> {"idle", "waiting", "sending", "sent", "failed"}]
  /\ next \in [File -> 1..(Chunks + 1)]
  /\ recipients \in [File -> SUBSET Receiver]
  /\ status \in [File -> {"none", "waiting", "sent", "nobody"}]
  /\ \A r \in Receiver : incoming[r].name \in File \cup {NoFile} /\ incoming[r].parts \in Seq(Chunk)
  /\ \A f \in File : transfer[f] = "sending" => recipients[f] # {}
  /\ overlapped \subseteq File

Init ==
  /\ channel = [r \in Receiver |-> "connecting"]
  /\ transfer = [f \in File |-> "idle"] /\ next = [f \in File |-> 1]
  /\ recipients = [f \in File |-> {}]
  /\ status = [f \in File |-> "none"]
  /\ transit = [r \in Receiver |-> <<>>]
  /\ incoming = [r \in Receiver |-> [name |-> NoFile, parts |-> <<>>]]
  /\ received = [r \in Receiver |-> {}]
  /\ overlapped = {}

Sending == {f \in File : transfer[f] \in {"waiting", "sending"}}
OpenTo == {r \in Receiver : channel[r] = "open"}

(* uploadFiles() starts one sendFile() for each picked file.                *)
uploadFile(f) ==
  /\ transfer[f] = "idle"
  /\ transfer' = [transfer EXCEPT ![f] = "waiting"]
  /\ status' = [status EXCEPT ![f] = "waiting"]
  /\ overlapped' = IF Sending = {} THEN overlapped ELSE overlapped \cup Sending \cup {f}
  /\ UNCHANGED <<channel, next, recipients, transit, incoming, received>>

Header(f) == [is |-> "header", file |-> f]
Part(f, n) == [is |-> "chunk", file |-> f, part |-> n]
End(f) == [is |-> "end", file |-> f]
ToAll(rs, m) == [r \in Receiver |-> IF r \in rs THEN Append(transit[r], m) ELSE transit[r]]

(* waitForOpenChannel() of every peer is over: each is open, or gave up.    *)
Ready == OpenTo
StartSending(f, timedOut) ==
  /\ transfer[f] = "waiting" /\ (timedOut \/ OpenTo = Receiver)
  /\ recipients' = [recipients EXCEPT ![f] = Ready]
  /\ IF Ready = {}
     THEN /\ transfer' = [transfer EXCEPT ![f] = "sent"]
          /\ status' = [status EXCEPT ![f] = "nobody"] /\ UNCHANGED transit
     ELSE /\ transfer' = [transfer EXCEPT ![f] = "sending"]
          /\ transit' = ToAll(Ready, Header(f)) /\ UNCHANGED status
  /\ UNCHANGED <<channel, next, incoming, received, overlapped>>

(* A chunk was read, or all have been.  send() throws on the first closed   *)
(* channel: whoever came before it has the message, and the transfer ends.  *)
Finished(f) == next[f] > Chunks
NextMessage(f) == IF Finished(f) THEN End(f) ELSE Part(f, next[f])
SendNext(f) ==
  /\ transfer[f] = "sending"
  /\ IF recipients[f] \subseteq OpenTo
     THEN /\ transit' = ToAll(recipients[f], NextMessage(f))
          /\ IF Finished(f) THEN transfer' = [transfer EXCEPT ![f] = "sent"] /\ UNCHANGED next
                            ELSE next' = [next EXCEPT ![f] = @ + 1] /\ UNCHANGED transfer
          /\ status' = IF Finished(f) THEN [status EXCEPT ![f] = "sent"] ELSE status
     ELSE /\ \E before \in SUBSET (recipients[f] \cap OpenTo) : transit' = ToAll(before, NextMessage(f))
          /\ transfer' = [transfer EXCEPT ![f] = "failed"]
          /\ UNCHANGED <<next, status>>
  /\ UNCHANGED <<channel, recipients, incoming, received, overlapped>>

(* channel.onmessage: a header starts over, a chunk is added to whatever    *)
(* was started last, an end makes a file of the parts.                      *)
Mutant_keepsParts(r) == incoming[r].parts
PartsAtHeader(r) == <<>>
ReceiveMessage(r) ==
  LET m == Head(transit[r])
  IN  /\ transit[r] # <<>>
      /\ transit' = [transit EXCEPT ![r] = Tail(@)]
      /\ incoming' = CASE m.is = "header" -> [incoming EXCEPT ![r] = [name |-> m.file, parts |-> PartsAtHeader(r)]]
                       [] m.is = "chunk" -> [incoming EXCEPT ![r].parts = Append(@, [file |-> m.file, part |-> m.part])]
                       [] OTHER -> incoming
      /\ received' = IF m.is = "end" THEN [received EXCEPT ![r] = @ \cup {incoming[r]}] ELSE received
      /\ UNCHANGED <<channel, transfer, next, recipients, status, overlapped>>

Opens(r) ==
  /\ channel[r] = "connecting" /\ channel' = [channel EXCEPT ![r] = "open"]
  /\ UNCHANGED <<transfer, next, recipients, status, transit, incoming, received, overlapped>>

(* The peer leaves: what its channel carried is lost.                       *)
Closes(r) ==
  /\ channel[r] # "closed" /\ channel' = [channel EXCEPT ![r] = "closed"]
  /\ transit' = [transit EXCEPT ![r] = <<>>]
  /\ UNCHANGED <<transfer, next, recipients, status, incoming, received, overlapped>>

Next ==
  \/ \E f \in File : \/ uploadFile(f) \/ SendNext(f)
                     \/ \E timedOut \in BOOLEAN : StartSending(f, timedOut)
  \/ \E r \in Receiver : ReceiveMessage(r) \/ Opens(r) \/ Closes(r)

Spec == Init /\ [][Next]_vars

-----------------------------------------------------------------------------
Whole(f) == [name |-> f, parts |-> [n \in 1..Chunks |-> [file |-> f, part |-> n]]]

(* "Reassemble a File from received chunks": a file that was sent on its    *)
(* own arrives whole, under its own name, after any earlier transfer that   *)
(* broke off half-way.                                                      *)
FilesArriveWhole ==
  \A r \in Receiver : \A file \in received[r] : file.name \notin overlapped => file = Whole(file.name)

(* "Sent to N connected peers" is true of each of them that stays: it has   *)
(* the file or is about to.                                                 *)
Ends(r) == {f \in File : \E i \in DOMAIN transit[r] : transit[r][i] = End(f)}
SentIsReceived ==
  \A f \in File \ overlapped : status[f] = "sent" =>
    \A r \in recipients[f] :
      channel[r] = "closed" \/ f \in Ends(r) \/ Whole(f) \in received[r]
=============================================================================
