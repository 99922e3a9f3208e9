------------------------------ MODULE StreamHub ------------------------------
(***************************************************************************)
(* ZoteroStreamHub, and the devices of ZoteroStreamingSync that listen to  *)
(* it: how a device learns that the library has a new version.             *)
(*                                                                         *)
(* The hub is one durable object without state of its own: what a socket   *)
(* subscribed to is kept in the socket's attachment, of which a handler    *)
(* reads a copy, awaits the database, and writes its copy back.  Other     *)
(* handlers run while it awaits.                                           *)
(*                                                                         *)
(* A mutation has answered before its notification is published, and what  *)
(* goes wrong with the publication is only logged.                         *)
(***************************************************************************)
EXTENDS Naturals, Sequences, FiniteSetsExt

CONSTANTS
  Devices,        \* sockets of this app, one for each device
  Clients,        \* sockets of other clients
  Keys, NoKey,    \* API keys, and a subscription without one
  Library,        \* the topic of the library the devices synchronize
  Groups,         \* the topics of groups
  KeyOf,          \* KeyOf[d]: the key of a device
  Messages,       \* Messages[c]: what a client may subscribe to with one message
  Access,         \* Access[k]: the topics a key may read at first
  Publications,   \* names for publications, reused when they have ended
  MaximumTopics,  \* 1000 in the code
  Bounds          \* bounds: the ways things may happen, and how often each

Sockets == Devices \cup Clients
Topics == {Library} \cup Groups
Holders == Keys \cup {NoKey}
Requests == [key : Holders, topics : SUBSET Topics, automatic : BOOLEAN]
Happenings == {"commits", "revocations", "accesses", "messages", "opens", "closes", "faults"}

ASSUME HubAssumption ==
  /\ Devices \cap Clients = {} /\ NoKey \notin Keys /\ Library \notin Groups
  /\ Sockets \cap {"ended", "queued", "between"} = {}
  /\ IsFiniteSet(Sockets) /\ IsFiniteSet(Topics)
  /\ KeyOf \in [Devices -> Keys]
  /\ Messages \in [Clients -> SUBSET (Seq(Requests) \ {<<>>})]   \* no request, no change
  /\ Access \in [Holders -> SUBSET Topics]
  /\ MaximumTopics \in Nat
  /\ Bounds \subseteq [Happenings -> Nat]

VARIABLES
  version,      \* of the library, in D1
  valid,        \* keys that are not revoked
  access,       \* access[k]: the topics k may read
  socket,       \* "open"; "closing": closed, not yet gone from the hub; "closed"
  attachment,   \* what the socket's attachment says
  handler,      \* the createSubscriptions that runs for a socket
  publication,  \* publications under way
  device,       \* where a device is: what it stored, and the messages it has not read
  told,         \* the topics a client was told it is subscribed to
  lost,         \* publications that ended before they came to every socket
  left          \* what is left of each bound

server == <<version, valid, access>>
vars == <<server, socket, attachment, handler, publication, device, told, lost, left>>

NoSubscription == [on |-> FALSE, topics |-> {}, automatic |-> FALSE]
Subscriptions == [on : BOOLEAN, topics : SUBSET Topics, automatic : BOOLEAN]
Attachments == [Holders -> Subscriptions]
Empty == [k \in Holders |-> NoSubscription]

Events == {"topicUpdated", "topicAdded", "topicRemoved"}
Note(event, topic, key, number) ==
  [event |-> event, topic |-> topic, key |-> key, version |-> number]
NoNote == Note("topicUpdated", Library, NoKey, 0)

NoHandler == [at |-> "idle", requests |-> <<>>, copy |-> Empty, grants |-> {},
              answer |-> [k \in Holders |-> {}]]
NoPublication == [at |-> "ended", note |-> NoNote, todo |-> {}, copy |-> Empty,
                  unchecked |-> {}, alive |-> {}, began |-> {}]

(* A publication's place: it has ended, is about to begin, is between two  *)
(* sockets, or is at a socket.                                             *)
Places == {"ended", "queued", "between"} \cup Sockets

Spends(what) == left[what] > 0 /\ left' = [left EXCEPT ![what] = @ - 1]

(* ------------------------------ the server ----------------------------- *)

(* The middleware hands the notification to the hub after the answer.      *)
Publish(note) ==
  \E p \in Publications :
    /\ publication[p].at = "ended"
    /\ publication' = [publication EXCEPT ![p] = [NoPublication EXCEPT
                         !.at = "queued", !.note = note]]

Commit ==
  /\ Spends("commits")
  /\ version' = version + 1
  /\ Publish(Note("topicUpdated", Library, NoKey, version + 1))
  /\ UNCHANGED <<valid, access, socket, attachment, handler, device, told, lost>>

(* deleteKey publishes nothing.                                            *)
Revoke(k) ==
  /\ k \in valid
  /\ Spends("revocations")
  /\ valid' = valid \ {k}
  /\ UNCHANGED <<version, access, socket, attachment, handler, publication, device,
                 told, lost>>

(* A key may read a group, or may no longer.                               *)
Allow(k, group) ==
  /\ k \in valid /\ group \notin access[k]
  /\ Spends("accesses")
  /\ access' = [access EXCEPT ![k] = @ \cup {group}]
  /\ Publish(Note("topicAdded", group, k, 0))
  /\ UNCHANGED <<version, valid, socket, attachment, handler, device, told, lost>>

Withdraw(k, group) ==
  /\ k \in valid /\ group \in access[k]
  /\ Spends("accesses")
  /\ access' = [access EXCEPT ![k] = @ \ {group}]
  /\ Publish(Note("topicRemoved", group, k, 0))
  /\ UNCHANGED <<version, valid, socket, attachment, handler, device, told, lost>>

(* ----------------------------- subscribing ----------------------------- *)

Away == [at |-> "away", has |-> 0, inbox |-> <<>>]

(* Nothing under way speaks of the connection a socket's name had before.  *)
Forgotten(s) ==
  /\ handler[s].at = "idle"
  /\ \A p \in Publications : s \notin publication[p].todo \cup {publication[p].at}

Opened(s) ==
  /\ socket[s] = "closed" /\ Forgotten(s)
  /\ socket' = [socket EXCEPT ![s] = "open"]
  /\ attachment' = [attachment EXCEPT ![s] = Empty]
  /\ told' = [told EXCEPT ![s] = [k \in Holders |-> {}]]

(* webSocketMessage: createSubscriptions reads the attachment first.       *)
Asks(s, requests) ==
  handler' = [handler EXCEPT ![s] = [NoHandler EXCEPT
                !.at = "key", !.requests = requests, !.copy = attachment[s]]]

Closes(s) == socket' = [socket EXCEPT ![s] = "closing"]

(* getAvailableTopics, canSubscribe                                        *)
TopicsOf(request, allowed) ==
  IF request.automatic THEN allowed ELSE request.topics \cap allowed

(* getKey: what the key may read is known from here on.                    *)
GetKey(s) ==
  LET h == handler[s]
      request == Head(h.requests)
  IN  /\ h.at = "key"
      /\ IF request.key \in valid \cup {NoKey}
         THEN /\ handler' = [handler EXCEPT ![s].at = "accept",
                               ![s].grants = TopicsOf(request, access[request.key])]
              /\ UNCHANGED socket
         ELSE /\ handler' = [handler EXCEPT ![s] = NoHandler]
              /\ Closes(s)
  /\ UNCHANGED <<server, attachment, publication, device, told, lost, left>>

Tell(d, message) == [device EXCEPT ![d].inbox = Append(@, message)]

Merged(copy, request, topics) ==
  [copy EXCEPT ![request.key] =
     [on |-> TRUE, topics |-> @.topics \cup topics, automatic |-> @.automatic \/ request.automatic]]

CountTopics(a) == MapThenSumSet(LAMBDA k : Cardinality(a[k].topics), Holders)

(* Mutant of Store: the client is told, but nothing is stored.             *)
StoreForgotten(s, copy, answer) ==
  /\ UNCHANGED attachment
  /\ told' = [told EXCEPT ![s] = [k \in Holders |-> told[s][k] \cup answer[k]]]
  /\ device' = IF s \in Devices
               THEN Tell(s, [event |-> IF Library \in answer[KeyOf[s]] THEN "created" ELSE "rejected",
                             version |-> 0])
               ELSE device

(* The copy is stored and the client told, in one go.                      *)
Store(s, copy, answer) ==
  /\ attachment' = [attachment EXCEPT ![s] = copy]
  /\ told' = [told EXCEPT ![s] = [k \in Holders |-> told[s][k] \cup answer[k]]]
  /\ device' = IF s \in Devices
               THEN Tell(s, [event |-> IF Library \in answer[KeyOf[s]] THEN "created" ELSE "rejected",
                             version |-> 0])
               ELSE device

(* The request is merged; after the last one the copy is stored.  A socket *)
(* that has closed meanwhile is of no interest to anyone.                  *)
Accept(s) ==
  LET h == handler[s]
      request == Head(h.requests)
      copy == Merged(h.copy, request, h.grants)
      answer == [h.answer EXCEPT ![request.key] = copy[request.key].topics]
  IN  /\ h.at = "accept"
      /\ IF Len(h.requests) > 1
         THEN /\ handler' = [handler EXCEPT ![s] =
                   [h EXCEPT !.at = "key", !.requests = Tail(@), !.copy = copy, !.answer = answer]]
              /\ UNCHANGED <<socket, attachment, told, device>>
         ELSE /\ handler' = [handler EXCEPT ![s] = NoHandler]
              /\ IF socket[s] # "open" THEN UNCHANGED <<socket, attachment, told, device>>
                 ELSE IF CountTopics(copy) > MaximumTopics
                 THEN Closes(s) /\ UNCHANGED <<attachment, told, device>>
                 ELSE Store(s, copy, answer) /\ UNCHANGED socket
      /\ UNCHANGED <<server, publication, lost, left>>

(* ---------------------------- other clients ---------------------------- *)

OpenClient(c) ==
  /\ c \in Clients
  /\ Spends("opens")
  /\ Opened(c)
  /\ UNCHANGED <<server, handler, publication, device, lost>>

CreateSubscriptions(c) ==
  /\ c \in Clients /\ socket[c] = "open" /\ handler[c].at = "idle"
  /\ Spends("messages")
  /\ \E requests \in Messages[c] : Asks(c, requests)
  /\ UNCHANGED <<server, socket, attachment, publication, device, told, lost>>

(* deleteSubscriptions awaits nothing.  No topics: all of them.            *)
DeleteSubscriptions(c, k, topics) ==
  LET held == attachment[c][k]
      rest == IF topics = {} THEN NoSubscription
              ELSE [held EXCEPT !.topics = @ \ topics, !.automatic = FALSE]
  IN  /\ c \in Clients /\ socket[c] = "open" /\ handler[c].at = "idle"
      /\ Spends("messages")
      /\ IF held.on /\ (topics = {} \/ held.topics \cap topics # {})
         THEN /\ attachment' = [attachment EXCEPT ![c][k] = rest]
              /\ told' = [told EXCEPT ![c][k] = @ \cap rest.topics]
              /\ UNCHANGED socket
         ELSE Closes(c) /\ UNCHANGED <<attachment, told>>
      /\ UNCHANGED <<server, handler, publication, device, lost>>

(* ------------------------------ publishing ----------------------------- *)

Begin(p) ==
  /\ publication[p].at = "queued"
  /\ publication' = [publication EXCEPT ![p].at = "between", ![p].began = valid,
                       ![p].todo = {s \in Sockets : socket[s] # "closed"}]
  /\ UNCHANGED <<server, socket, attachment, handler, device, told, lost, left>>

(* The attachment is read, and each of its keys looked up.                 *)
Look(p) ==
  /\ publication[p].at = "between"
  /\ \E s \in publication[p].todo :
       publication' = [publication EXCEPT ![p] = [publication[p] EXCEPT
         !.at = s, !.todo = @ \ {s}, !.copy = attachment[s], !.alive = {NoKey},
         !.unchecked = {k \in Keys : attachment[s][k].on}]]
  /\ UNCHANGED <<server, socket, attachment, handler, device, told, lost, left>>

CheckKey(p) ==
  /\ publication[p].at \in Sockets
  /\ \E k \in publication[p].unchecked :
       publication' = [publication EXCEPT ![p].unchecked = @ \ {k},
                         ![p].alive = IF k \in valid THEN @ \cup {k} ELSE @]
  /\ UNCHANGED <<server, socket, attachment, handler, device, told, lost, left>>

(* Mutant of Kept: nothing is removed.                                     *)
KeptRevoked(copy, alive) == copy

(* removeRevokedKeySubscriptions                                           *)
Kept(copy, alive) == [k \in Holders |-> IF k \in alive THEN copy[k] ELSE NoSubscription]

(* Mutant of Applies: what a key may read goes to whoever has the key, or  *)
(* had it.                                                                 *)
AppliesToAll(note, a) == note.key # NoKey /\ note.event = "topicAdded"

(* applyAccessNotification: only a subscription without topics of its own  *)
(* follows what its key may read.                                          *)
Applies(note, a) ==
  /\ note.key # NoKey /\ a[note.key].on
  /\ \/ note.event = "topicAdded" /\ a[note.key].automatic
     \/ note.event = "topicRemoved" /\ note.topic \in a[note.key].topics

Applied(note, a) ==
  IF ~Applies(note, a) THEN a
  ELSE [a EXCEPT ![note.key].topics =
          IF note.event = "topicAdded" THEN @ \cup {note.topic} ELSE @ \ {note.topic}]

(* shouldReceive                                                           *)
Receives(note, a) ==
  IF note.event = "topicUpdated" THEN \E k \in Holders : note.topic \in a[k].topics
  ELSE a[note.key].on

(* The copy is written back if it was changed, and the socket told; a send *)
(* to a socket that has closed throws, and that is the end of the          *)
(* publication.                                                            *)
Deliver(p) ==
  LET pub == publication[p]
      s == pub.at
      kept == Kept(pub.copy, pub.alive)
      copy == Applied(pub.note, kept)
      throws == Receives(pub.note, copy) /\ socket[s] # "open"
  IN  /\ s \in Sockets /\ pub.unchecked = {}
      /\ attachment' = IF Applies(pub.note, kept) \/ kept # pub.copy
                       THEN [attachment EXCEPT ![s] = copy] ELSE attachment
      /\ told' = IF Applies(pub.note, kept)
                 THEN [told EXCEPT ![s][pub.note.key] = copy[pub.note.key].topics] ELSE told
      /\ device' = IF s \in Devices /\ Receives(pub.note, copy) /\ ~throws
                      /\ pub.note.event = "topicUpdated"
                   THEN Tell(s, [event |-> "updated", version |-> pub.note.version])
                   ELSE device
      /\ publication' = [publication EXCEPT ![p] =
                           IF throws \/ pub.todo = {} THEN NoPublication
                           ELSE [pub EXCEPT !.at = "between", !.copy = Empty, !.alive = {}]]
      /\ lost' = IF throws THEN lost + 1 ELSE lost
      /\ UNCHANGED <<server, socket, handler, left>>

(* There is no socket to tell.                                             *)
EndPublication(p) ==
  /\ publication[p].at = "between" /\ publication[p].todo = {}
  /\ publication' = [publication EXCEPT ![p] = NoPublication]
  /\ UNCHANGED <<server, socket, attachment, handler, device, told, lost, left>>

(* A query fails, or the worker or the hub ends: the error is logged.      *)
FailPublication(p) ==
  /\ publication[p].at # "ended"
  /\ Spends("faults")
  /\ publication' = [publication EXCEPT ![p] = NoPublication]
  /\ lost' = lost + 1
  /\ UNCHANGED <<server, socket, attachment, handler, device, told>>

(* ------------------------------- devices ------------------------------- *)

(* runConnection: the key is asked for, which a revoked one is not given,  *)
(* and the socket opened; runSubscribedConnection subscribes.              *)
Connect(d) ==
  /\ device[d].at = "away" /\ KeyOf[d] \in valid
  /\ Opened(d)
  /\ device' = [device EXCEPT ![d].at = "subscribing", ![d].inbox = <<>>]
  /\ UNCHANGED <<server, handler, publication, lost, left>>

Subscribe(d) ==
  /\ device[d].at = "subscribing" /\ socket[d] = "open" /\ device[d].inbox = <<>>
  /\ handler[d].at = "idle"
  /\ Asks(d, <<[key |-> KeyOf[d], topics |-> {Library}, automatic |-> FALSE]>>)
  /\ device' = [device EXCEPT ![d].at = "subscribed"]
  /\ UNCHANGED <<server, socket, attachment, publication, told, lost, left>>

(* Mutant of Initially: what was there before the subscription is not      *)
(* asked for.                                                              *)
NotPulled == "listening"

(* The first thing a subscribed device does.                               *)
Initially == "pulling"

Leave(d) ==
  /\ device' = [device EXCEPT ![d].at = "away", ![d].inbox = <<>>]
  /\ Closes(d)

Receive(d) ==
  LET message == Head(device[d].inbox)
      next == [device EXCEPT ![d].inbox = Tail(@)]
  IN  /\ device[d].at \in {"subscribed", "listening"} /\ device[d].inbox # <<>>
      /\ IF device[d].at = "subscribed"
         THEN IF message.event = "created"
              THEN device' = [next EXCEPT ![d].at = Initially] /\ UNCHANGED socket
              ELSE Leave(d)
         ELSE /\ device' = IF message.version > device[d].has
                           THEN [next EXCEPT ![d].at = "pulling"] ELSE next
              /\ UNCHANGED socket
      /\ UNCHANGED <<server, attachment, handler, publication, told, lost, left>>

(* pullReadOnly: everything up to the version the server has (LibrarySync).*)
Pull(d) ==
  /\ device[d].at = "pulling" /\ KeyOf[d] \in valid
  /\ device' = [device EXCEPT ![d].at = "listening", ![d].has = version]
  /\ UNCHANGED <<server, socket, attachment, handler, publication, told, lost, left>>

(* A pull fails, or the connection breaks.                                 *)
Drop(d) ==
  /\ device[d].at # "away" /\ socket[d] = "open"
  /\ \/ device[d].at = "pulling" /\ KeyOf[d] \notin valid /\ UNCHANGED left
     \/ Spends("closes")
  /\ Leave(d)
  /\ UNCHANGED <<server, attachment, handler, publication, told, lost>>

(* The hub closed the socket.                                              *)
Notice(d) ==
  /\ device[d].at # "away" /\ socket[d] # "open"
  /\ device' = [device EXCEPT ![d].at = "away", ![d].inbox = <<>>]
  /\ UNCHANGED <<server, socket, attachment, handler, publication, told, lost, left>>

CloseClient(c) ==
  /\ c \in Clients /\ socket[c] = "open"
  /\ Spends("closes")
  /\ Closes(c)
  /\ UNCHANGED <<server, attachment, handler, publication, device, told, lost>>

(* webSocketClose, webSocketError: the hub no longer lists the socket.     *)
Closed(s) ==
  /\ socket[s] = "closing"
  /\ socket' = [socket EXCEPT ![s] = "closed"]
  /\ attachment' = [attachment EXCEPT ![s] = Empty]
  /\ told' = [told EXCEPT ![s] = [k \in Holders |-> {}]]
  /\ UNCHANGED <<server, handler, publication, device, lost, left>>

(* ---------------------------- specification ---------------------------- *)

Changes ==
  \/ Commit
  \/ \E k \in Keys : Revoke(k) \/ \E group \in Groups : Allow(k, group) \/ Withdraw(k, group)

Others ==
  \E c \in Clients :
    \/ OpenClient(c) \/ CloseClient(c) \/ CreateSubscriptions(c)
    \/ \E k \in Holders, topics \in SUBSET Topics : DeleteSubscriptions(c, k, topics)

Handle(s) == GetKey(s) \/ Accept(s) \/ Closed(s)
Proceed(p) == Begin(p) \/ Look(p) \/ CheckKey(p) \/ Deliver(p) \/ EndPublication(p)
Listen(d) == Connect(d) \/ Subscribe(d) \/ Receive(d) \/ Pull(d) \/ Notice(d)

Next ==
  \/ Changes
  \/ Others
  \/ \E s \in Sockets : Handle(s)
  \/ \E p \in Publications : Proceed(p) \/ FailPublication(p)
  \/ \E d \in Devices : Listen(d) \/ Drop(d)

Init ==
  /\ version = 0
  /\ valid = Keys
  /\ access = Access
  /\ socket = [s \in Sockets |-> "closed"]
  /\ attachment = [s \in Sockets |-> Empty]
  /\ handler = [s \in Sockets |-> NoHandler]
  /\ publication = [p \in Publications |-> NoPublication]
  /\ device = [d \in Devices |-> Away]
  /\ told = [s \in Sockets |-> [k \in Holders |-> {}]]
  /\ lost = 0
  /\ left \in Bounds

Spec == Init /\ [][Next]_vars

(* The hub goes on with what it handles, and a device tries again.         *)
FairSpec ==
  /\ Spec
  /\ \A s \in Sockets : WF_vars(Handle(s))
  /\ \A p \in Publications : WF_vars(Proceed(p))
  /\ \A d \in Devices : WF_vars(Listen(d))

(* ------------------------------ properties ----------------------------- *)

(* Attachments, handlers and publications have their types, and what is    *)
(* not subscribed to has no topics.                                        *)
TypeOK ==
  /\ version \in Nat /\ lost \in Nat
  /\ valid \subseteq Keys
  /\ access \in [Holders -> SUBSET Topics]
  /\ socket \in [Sockets -> {"open", "closing", "closed"}]
  /\ told \in [Sockets -> [Holders -> SUBSET Topics]]
  /\ attachment \in [Sockets -> Attachments]
  /\ \A s \in Sockets, k \in Holders : attachment[s][k].on \/ attachment[s][k] = NoSubscription
  /\ \A s \in Sockets :
       /\ handler[s].at \in {"idle", "key", "accept"}
       /\ handler[s].requests \in Seq(Requests) /\ handler[s].copy \in Attachments
       /\ handler[s].at # "idle" => handler[s].requests # <<>>
  /\ \A p \in Publications :
       /\ publication[p].at \in Places /\ publication[p].todo \subseteq Sockets
       /\ publication[p].copy \in Attachments
  /\ \A d \in Devices : device[d].has \in 0 .. version

(* What a socket was told it is subscribed to is what its attachment says, *)
(* while handlers that read it earlier write their copies back; except     *)
(* for a key that was revoked.  (zotero-stream-hub.ts:57-72, 142-208)      *)
Subscribed(sockets) ==
  \A s \in sockets, k \in valid \cup {NoKey} :
    socket[s] = "open" => attachment[s][k].topics = told[s][k]

(* This holds for the sockets of this app, which send one message and have *)
(* one key.                                                                *)
DevicesStaySubscribed == Subscribed(Devices)

(* And not for every client.                                               *)
ClientsStaySubscribed == Subscribed(Clients)

(* A key that was revoked before a publication began lets no socket hear   *)
(* of it.  (zotero-stream-hub.ts:347-367; "removes revoked-key             *)
(* subscriptions", streaming-runtime.test.ts:117)                          *)
RevokedHearNothing ==
  \A p \in Publications : \A k \in Keys :
    LET pub == publication[p]
    IN  pub.at \in Sockets /\ pub.unchecked = {} /\ Kept(pub.copy, pub.alive)[k].on
          => k \in pub.began

(* There is still something that makes the device ask for the version: it  *)
(* will pull when it has subscribed, or the version is being published.    *)
Coming(d) ==
  \/ device[d].at # "listening"
  \/ \E p \in Publications :
        publication[p].at # "ended" /\ publication[p].note.version = version

(* Every version comes to a device in the end, whether it is published     *)
(* before, while or after the device subscribes, and however publications  *)
(* overtake one another; unless a publication is lost or the key revoked.  *)
(* (README.md:105 of the server; ZoteroStreamingSync.swift:134-163)        *)
DevicesCatchUp ==
  \A d \in Devices : \A n \in 0 .. Max({b["faults"] + b["closes"] : b \in Bounds}) :
    device[d].has < version /\ Coming(d) /\ lost = n
      ~> device[d].has = version \/ lost > n \/ KeyOf[d] \notin valid
===============================================================================
