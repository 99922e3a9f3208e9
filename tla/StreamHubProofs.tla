-------------------------- MODULE StreamHubProofs --------------------------
(***************************************************************************)
(* What StreamHub keeps for every number of sockets, keys, topics and      *)
(* publications, and without bounds on what happens: attachments keep      *)
(* their form, a device stays subscribed to what it was told, and a key    *)
(* that was revoked lets nobody hear of later versions.                    *)
(*                                                                         *)
(* A device is safe from the copies that handlers write back because it    *)
(* asks once, for one topic, under one key: the hub writes to its socket   *)
(* when it accepts that request, and when it finds the key revoked.        *)
(***************************************************************************)
EXTENDS StreamHub, TLAPS

(***************************************************************************)
(* Types                                                                   *)
(***************************************************************************)

Clean(a) == \A k \in Holders : a[k].on \/ a[k] = NoSubscription

Notes == [event : Events, topic : Topics, key : Holders, version : Nat]

Handlers == [at : {"idle", "key", "accept"}, requests : Seq(Requests), copy : Attachments,
             grants : SUBSET Topics, answer : [Holders -> SUBSET Topics]]

Publishing == [at : Places, note : Notes, todo : SUBSET Sockets, copy : Attachments,
               unchecked : SUBSET Keys, alive : SUBSET Holders, began : SUBSET Keys]

Inbox == Seq([event : {"created", "rejected", "updated"}, version : Nat])

Listeners == [at : {"away", "subscribing", "subscribed", "pulling", "listening"},
              has : Nat, inbox : Inbox]

ServerTyped ==
  version \in Nat /\ lost \in Nat /\ valid \subseteq Keys /\ access \in [Holders -> SUBSET Topics]

SocketsTyped ==
  /\ socket \in [Sockets -> {"open", "closing", "closed"}]
  /\ told \in [Sockets -> [Holders -> SUBSET Topics]]
  /\ attachment \in [Sockets -> Attachments]
  /\ \A s \in Sockets : Clean(attachment[s])

HandlersTyped ==
  /\ handler \in [Sockets -> Handlers]
  /\ \A s \in Sockets : Clean(handler[s].copy)
  /\ \A s \in Sockets : handler[s].at # "idle" => handler[s].requests # <<>>

PublicationsTyped ==
  /\ publication \in [Publications -> Publishing]
  /\ \A p \in Publications : Clean(publication[p].copy)

DevicesTyped ==
  /\ device \in [Devices -> Listeners]
  /\ \A d \in Devices : device[d].has <= version

Typed == ServerTyped /\ SocketsTyped /\ HandlersTyped /\ PublicationsTyped /\ DevicesTyped

(***************************************************************************)
(* The inductive invariant                                                 *)
(***************************************************************************)

(* A publication looks for the keys of the copy it has: those it has       *)
(* looked for and found were valid when it began, and those it has not     *)
(* found have been revoked.                                                *)
Checking(p) ==
  LET pub == publication[p]
  IN  /\ pub.at \in {"between"} \cup Sockets => valid \subseteq pub.began
      /\ pub.at \in Sockets =>
           /\ NoKey \in pub.alive
           /\ pub.alive \subseteq pub.began \cup {NoKey}
           /\ \A k \in Keys : pub.copy[k].on => k \notin valid \/ k \in pub.alive \cup pub.unchecked

(* What follows access is about groups. *)
AboutGroups(note) == note.event # "topicUpdated" => note.topic \in Groups

NoTopics == [k \in Holders |-> {}]

(* What a device can be subscribed to. *)
Modest(d, a) ==
  /\ \A k \in Holders \ {KeyOf[d]} : a[k] = NoSubscription
  /\ a[KeyOf[d]].topics \subseteq {Library} /\ ~a[KeyOf[d]].automatic

Unsubscribed(d) == attachment[d] = Empty /\ told[d] = NoTopics

OwnRequest(d) == [key |-> KeyOf[d], topics |-> {Library}, automatic |-> FALSE]

(* Until its one request is accepted, a device is subscribed to nothing;   *)
(* afterwards it is to what it was told, unless its key is revoked.        *)
Served(d) ==
  /\ Modest(d, attachment[d])
  /\ \A k \in Holders \ {KeyOf[d]} : told[d][k] = {}
  /\ KeyOf[d] \in valid => attachment[d][KeyOf[d]].topics = told[d][KeyOf[d]]
  /\ device[d].at = "subscribing" => handler[d].at = "idle" /\ Unsubscribed(d)
  /\ handler[d].at # "idle" =>
       /\ handler[d].requests = <<OwnRequest(d)>>
       /\ handler[d].copy = Empty /\ handler[d].answer = NoTopics
       /\ Unsubscribed(d)
  /\ handler[d].at = "accept" => handler[d].grants \subseteq {Library}
  /\ \A p \in Publications : publication[p].at = d => Modest(d, publication[p].copy)

Checked == \A p \in Publications : Checking(p) /\ AboutGroups(publication[p].note)

IInv == Typed /\ Checked /\ \A d \in Devices : Served(d)

(***************************************************************************)
(* Lemmas about the operators                                              *)
(***************************************************************************)

LEMMA NothingTyped ==
  /\ NoKey \in Holders /\ Library \in Topics
  /\ Empty \in Attachments /\ Clean(Empty) /\ NoTopics \in [Holders -> SUBSET Topics]
  /\ NoHandler \in Handlers /\ NoHandler.at = "idle" /\ NoHandler.copy = Empty
  /\ NoPublication \in Publishing /\ NoPublication.copy = Empty /\ NoPublication.at = "ended"
  /\ NoPublication.note.event = "topicUpdated"
<1>1. NoKey \in Holders /\ Library \in Topics
  BY DEF Holders, Topics
<1>2. Empty \in Attachments /\ Clean(Empty) /\ NoTopics \in [Holders -> SUBSET Topics]
  BY DEF Empty, Attachments, Subscriptions, NoSubscription, Clean, NoTopics
<1>3. NoHandler \in Handlers
  <2>1. <<>> \in Seq(Requests)
    OBVIOUS
  <2> QED
    BY <1>2, <2>1 DEF NoHandler, Handlers, NoTopics
<1>4. NoNote \in Notes
  BY <1>1 DEF NoNote, Note, Notes, Events
<1>5. NoPublication \in Publishing
  BY <1>2, <1>4 DEF NoPublication, Publishing, Places
<1> QED
  BY <1>1, <1>2, <1>3, <1>5 DEF NoHandler, NoPublication, NoNote, Note

(* Merging a request gives an attachment.                                  *)
LEMMA MergedTyped ==
  ASSUME NEW copy \in Attachments, Clean(copy), NEW request \in Requests, NEW topics \in SUBSET Topics
  PROVE  Merged(copy, request, topics) \in Attachments /\ Clean(Merged(copy, request, topics))
<1> DEFINE new == [on |-> TRUE, topics |-> copy[request.key].topics \cup topics,
                   automatic |-> copy[request.key].automatic \/ request.automatic]
<1>1. request.key \in Holders /\ request.automatic \in BOOLEAN /\ copy[request.key] \in Subscriptions
  BY DEF Requests, Attachments
<1>2. copy[request.key].topics \in SUBSET Topics
  BY <1>1 DEF Subscriptions
<1>3. new \in Subscriptions /\ new.on
  BY <1>1, <1>2 DEF Subscriptions
<1>4. Merged(copy, request, topics) = [copy EXCEPT ![request.key] = new]
  BY DEF Merged
<1> HIDE DEF new
<1> QED
  BY <1>1, <1>3, <1>4 DEF Attachments, Clean

(* So does removing keys,                                                  *)
LEMMA KeptTyped ==
  ASSUME NEW copy \in Attachments, Clean(copy), NEW alive
  PROVE  Kept(copy, alive) \in Attachments /\ Clean(Kept(copy, alive))
BY DEF Kept, Clean, Attachments, Subscriptions, NoSubscription

(* and following access.                                                   *)
LEMMA AppliedTyped ==
  ASSUME NEW note \in Notes, NEW a \in Attachments, Clean(a)
  PROVE  Applied(note, a) \in Attachments /\ Clean(Applied(note, a))
<1> DEFINE topics == IF note.event = "topicAdded" THEN a[note.key].topics \cup {note.topic}
                     ELSE a[note.key].topics \ {note.topic}
           new == [a[note.key] EXCEPT !.topics = topics]
<1>1. note.key \in Holders /\ note.topic \in Topics /\ a[note.key] \in Subscriptions
  BY DEF Notes, Attachments
<1>2. topics \in SUBSET Topics
  BY <1>1 DEF Subscriptions
<1> HIDE DEF topics
<1>3. new \in Subscriptions /\ new.on = a[note.key].on
  BY <1>1, <1>2 DEF Subscriptions
<1>4. Applied(note, a) = IF ~Applies(note, a) THEN a ELSE [a EXCEPT ![note.key] = new]
  BY DEF Applied, topics
<1> HIDE DEF new
<1>5. Applies(note, a) => a[note.key].on
  BY DEF Applies
<1> QED
  BY <1>1, <1>3, <1>4, <1>5 DEF Attachments, Clean

(* A publication starts with nothing but its note.                         *)
LEMMA PublishedTyped ==
  ASSUME PublicationsTyped, NEW note \in Notes, Publish(note)
  PROVE  /\ PublicationsTyped'
         /\ \A p \in Publications :
              \/ publication'[p] = publication[p]
              \/ publication'[p].at = "queued" /\ publication'[p].note = note
<1> DEFINE new == [NoPublication EXCEPT !.at = "queued", !.note = note]
<1>1. PICK p \in Publications : publication' = [publication EXCEPT ![p] = new]
  BY DEF Publish
<1>2. new \in Publishing /\ new.at = "queued" /\ new.note = note /\ new.copy = Empty
  BY NothingTyped DEF Publishing, Places
<1> HIDE DEF new
<1> QED
  BY <1>1, <1>2, NothingTyped DEF PublicationsTyped

(***************************************************************************)
(* The type invariant, action by action                                    *)
(***************************************************************************)

(* What is opened, asked for or answered has its type.                     *)
LEMMA OpenedTyped ==
  ASSUME SocketsTyped, NEW s \in Sockets, Opened(s) PROVE SocketsTyped'
BY NothingTyped DEF SocketsTyped, Opened, NoTopics

LEMMA AsksTyped ==
  ASSUME SocketsTyped, HandlersTyped, NEW s \in Sockets,
         NEW requests \in Seq(Requests) \ {<<>>}, Asks(s, requests)
  PROVE  HandlersTyped'
<1> DEFINE new == [NoHandler EXCEPT !.at = "key", !.requests = requests, !.copy = attachment[s]]
<1>1. new \in Handlers /\ new.requests # <<>> /\ Clean(new.copy)
  BY NothingTyped DEF Handlers, SocketsTyped
<1>2. handler' = [handler EXCEPT ![s] = new]
  BY DEF Asks
<1> HIDE DEF new
<1> QED
  BY <1>1, <1>2 DEF HandlersTyped

LEMMA ChangesTyped == Typed /\ Changes => Typed'
<1> SUFFICES ASSUME Typed, Changes PROVE Typed'
  OBVIOUS
<1>1. /\ SocketsTyped' /\ HandlersTyped' /\ UNCHANGED device /\ version' \in {version, version + 1}
      /\ ServerTyped'
  BY DEF Typed, Changes, Commit, Revoke, Allow, Withdraw, ServerTyped, SocketsTyped,
         HandlersTyped, Holders, Topics
<1>2. DevicesTyped'
  BY <1>1 DEF Typed, DevicesTyped, ServerTyped, Listeners
<1>3. PublicationsTyped'
  <2>1. CASE Commit
    <3>1. Note("topicUpdated", Library, NoKey, version + 1) \in Notes
      BY NothingTyped DEF Note, Notes, Events, Typed, ServerTyped
    <3> QED
      BY <2>1, <3>1, PublishedTyped DEF Commit, Typed
  <2>2. CASE \E k \in Keys : Revoke(k)
    BY <2>2 DEF Revoke, Typed, PublicationsTyped
  <2>3. ASSUME NEW k \in Keys, NEW group \in Groups, Allow(k, group) \/ Withdraw(k, group)
        PROVE  PublicationsTyped'
    <3>1. /\ Note("topicAdded", group, k, 0) \in Notes
          /\ Note("topicRemoved", group, k, 0) \in Notes
      BY DEF Note, Notes, Events, Topics, Holders
    <3> QED
      BY <2>3, <3>1, PublishedTyped DEF Allow, Withdraw, Typed
  <2> QED
    BY <2>1, <2>2, <2>3 DEF Changes
<1> QED
  BY <1>1, <1>2, <1>3 DEF Typed

LEMMA OthersTyped == Typed /\ Others => Typed'
<1> SUFFICES ASSUME Typed, NEW c \in Clients,
                    \/ OpenClient(c) \/ CloseClient(c) \/ CreateSubscriptions(c)
                    \/ \E k \in Holders, topics \in SUBSET Topics : DeleteSubscriptions(c, k, topics)
             PROVE  Typed'
  BY DEF Others
<1>1. c \in Sockets /\ UNCHANGED <<server, publication, device, lost>>
  BY DEF Sockets, OpenClient, CloseClient, CreateSubscriptions, DeleteSubscriptions
<1>2. ServerTyped' /\ PublicationsTyped' /\ DevicesTyped'
  BY <1>1 DEF Typed, server, ServerTyped, PublicationsTyped, DevicesTyped
<1>3. HandlersTyped'
  <2>1. CASE CreateSubscriptions(c)
    <3>1. PICK requests \in Messages[c] : Asks(c, requests)
      BY <2>1 DEF CreateSubscriptions
    <3>2. requests \in Seq(Requests) \ {<<>>}
      BY HubAssumption
    <3> QED
      BY <1>1, <3>1, <3>2, AsksTyped DEF Typed
  <2>2. CASE ~CreateSubscriptions(c)
    BY <2>2 DEF Typed, HandlersTyped, OpenClient, CloseClient, DeleteSubscriptions
  <2> QED
    BY <2>1, <2>2
<1>4. SocketsTyped'
  <2>1. CASE OpenClient(c)
    BY <1>1, <2>1, OpenedTyped DEF OpenClient, Typed
  <2>2. CASE CloseClient(c) \/ CreateSubscriptions(c)
    BY <1>1, <2>2 DEF CloseClient, CreateSubscriptions, Closes, Typed, SocketsTyped
  <2>3. ASSUME NEW k \in Holders, NEW topics \in SUBSET Topics, DeleteSubscriptions(c, k, topics)
        PROVE  SocketsTyped'
    <3> DEFINE held == attachment[c][k]
               rest == IF topics = {} THEN NoSubscription
                       ELSE [held EXCEPT !.topics = held.topics \ topics, !.automatic = FALSE]
    <3>1. held \in Subscriptions /\ (held.on \/ held = NoSubscription)
      BY <1>1 DEF Typed, SocketsTyped, Clean, Attachments
    <3>2. rest \in Subscriptions /\ (held.on => rest.on \/ rest = NoSubscription)
      BY <3>1 DEF Subscriptions, NoSubscription
    <3>3. \/ /\ held.on
             /\ attachment' = [attachment EXCEPT ![c][k] = rest]
             /\ told' = [told EXCEPT ![c][k] = told[c][k] \cap rest.topics]
             /\ UNCHANGED socket
          \/ Closes(c) /\ UNCHANGED <<attachment, told>>
      BY <1>1, <2>3 DEF DeleteSubscriptions, Typed, SocketsTyped
    <3> DEFINE a == [attachment[c] EXCEPT ![k] = rest]
               t == [told[c] EXCEPT ![k] = told[c][k] \cap rest.topics]
    <3> HIDE DEF rest, held
    <3>4. held.on => a \in Attachments /\ Clean(a) /\ t \in [Holders -> SUBSET Topics]
      BY <1>1, <3>1, <3>2 DEF Typed, SocketsTyped, Clean, Attachments
    <3>5. \/ /\ held.on
             /\ attachment' = [attachment EXCEPT ![c] = a]
             /\ told' = [told EXCEPT ![c] = t]
             /\ UNCHANGED socket
          \/ Closes(c) /\ UNCHANGED <<attachment, told>>
      BY <3>3
    <3> HIDE DEF a, t
    <3> QED
      BY <1>1, <3>4, <3>5 DEF Typed, SocketsTyped, Closes
  <2> QED
    BY <2>1, <2>2, <2>3
<1> QED
  BY <1>2, <1>3, <1>4 DEF Typed

LEMMA TellTyped ==
  ASSUME DevicesTyped, NEW d \in Devices,
         NEW message \in [event : {"created", "rejected", "updated"}, version : Nat],
         device' = Tell(d, message), UNCHANGED version
  PROVE  DevicesTyped'
<1> DEFINE new == [device[d] EXCEPT !.inbox = Append(device[d].inbox, message)]
<1>1. Append(device[d].inbox, message) \in Inbox
  BY DEF DevicesTyped, Listeners, Inbox
<1>2. new \in Listeners /\ new.has = device[d].has
  BY <1>1 DEF DevicesTyped, Listeners
<1>3. device' = [device EXCEPT ![d] = new]
  BY DEF Tell
<1> HIDE DEF new
<1> QED
  BY <1>2, <1>3 DEF DevicesTyped

LEMMA HandleTyped ==
  ASSUME Typed, NEW s \in Sockets, Handle(s) PROVE Typed'
<1> DEFINE h == handler[s]
           request == Head(h.requests)
<1>1. UNCHANGED <<server, publication, lost>>
  BY DEF Handle, GetKey, Accept, Closed
<1>2. ServerTyped' /\ PublicationsTyped'
  BY <1>1 DEF server, Typed, ServerTyped, PublicationsTyped
<1>3. h \in Handlers /\ Clean(h.copy) /\ NoHandler \in Handlers /\ NoHandler.at = "idle"
  BY NothingTyped DEF Typed, HandlersTyped
<1>4. h.at # "idle" => h.requests # <<>> /\ request \in Requests /\ Tail(h.requests) \in Seq(Requests)
  BY <1>3 DEF Typed, HandlersTyped, Handlers
<1>5. CASE GetKey(s)
  <2> DEFINE granted == [h EXCEPT !.at = "accept", !.grants = TopicsOf(request, access[request.key])]
  <2>1. h.at = "key" /\ request \in Requests
    BY <1>4, <1>5 DEF GetKey
  <2>2. TopicsOf(request, access[request.key]) \in SUBSET Topics
    BY <2>1 DEF TopicsOf, Requests, Typed, ServerTyped
  <2>3. granted \in Handlers /\ granted.copy = h.copy /\ granted.requests = h.requests
    BY <1>3, <2>2 DEF Handlers
  <2>4. /\ \/ handler' = [handler EXCEPT ![s] = granted] /\ UNCHANGED socket
           \/ handler' = [handler EXCEPT ![s] = NoHandler] /\ Closes(s)
        /\ UNCHANGED <<attachment, told, device>>
    BY <1>5 DEF GetKey
  <2> HIDE DEF granted
  <2>5. HandlersTyped'
    BY <1>3, <1>4, <2>1, <2>3, <2>4, NothingTyped DEF Typed, HandlersTyped
  <2>6. SocketsTyped'
    BY <2>4 DEF Typed, SocketsTyped, Closes
  <2> QED
    BY <1>1, <1>2, <2>4, <2>5, <2>6 DEF server, Typed, DevicesTyped
<1>6. CASE Accept(s)
  <2> DEFINE copy == Merged(h.copy, request, h.grants)
             answer == [h.answer EXCEPT ![request.key] = copy[request.key].topics]
             next == [h EXCEPT !.at = "key", !.requests = Tail(h.requests), !.copy = copy,
                               !.answer = answer]
  <2>1. h.at = "accept" /\ request \in Requests /\ h.grants \in SUBSET Topics
    BY <1>3, <1>4, <1>6 DEF Accept, Handlers
  <2>2. copy \in Attachments /\ Clean(copy)
    BY <1>3, <2>1, MergedTyped DEF Handlers
  <2>3. /\ \/ /\ Len(h.requests) > 1
              /\ handler' = [handler EXCEPT ![s] = next]
              /\ UNCHANGED <<socket, attachment, told, device>>
           \/ /\ handler' = [handler EXCEPT ![s] = NoHandler]
              /\ \/ UNCHANGED <<socket, attachment, told, device>>
                 \/ Closes(s) /\ UNCHANGED <<attachment, told, device>>
                 \/ Store(s, copy, answer) /\ UNCHANGED socket
    BY <1>6 DEF Accept
  <2> HIDE DEF copy
  <2>4. answer \in [Holders -> SUBSET Topics]
    BY <1>3, <2>1, <2>2 DEF Handlers, Attachments, Subscriptions, Requests
  <2> HIDE DEF answer
  <2>5. next \in Handlers /\ next.copy = copy /\ next.requests = Tail(h.requests)
    BY <1>3, <1>4, <2>1, <2>2, <2>4 DEF Handlers
  <2>6. Len(h.requests) > 1 => Tail(h.requests) # <<>>
    <3>1. h.requests \in Seq(Requests) /\ h.requests # <<>>
      BY <1>3, <1>4, <2>1 DEF Handlers
    <3>2. Len(Tail(h.requests)) = Len(h.requests) - 1 /\ Len(h.requests) \in Nat
      BY <3>1
    <3> QED
      BY <3>2
  <2> HIDE DEF next
  <2>7. HandlersTyped'
    BY <2>2, <2>3, <2>5, <2>6, NothingTyped DEF Typed, HandlersTyped
  <2>8. SocketsTyped'
    <3> DEFINE t == [k \in Holders |-> told[s][k] \cup answer[k]]
    <3>1. t \in [Holders -> SUBSET Topics]
      BY <2>4 DEF Typed, SocketsTyped
    <3>2. \/ UNCHANGED <<socket, attachment, told>>
          \/ Closes(s) /\ UNCHANGED <<attachment, told>>
          \/ /\ attachment' = [attachment EXCEPT ![s] = copy]
             /\ told' = [told EXCEPT ![s] = t]
             /\ UNCHANGED socket
      BY <2>3 DEF Store
    <3> HIDE DEF t
    <3> QED
      BY <2>2, <3>1, <3>2 DEF Typed, SocketsTyped, Closes
  <2>9. DevicesTyped'
    <3>1. CASE UNCHANGED device
      BY <1>1, <3>1 DEF server, Typed, DevicesTyped
    <3>2. CASE ~UNCHANGED device
      <4>1. s \in Devices /\ device' = Tell(s, [event |-> IF Library \in answer[KeyOf[s]]
                                                THEN "created" ELSE "rejected", version |-> 0])
        BY <2>3, <3>2 DEF Store
      <4> QED
        BY <1>1, <4>1, TellTyped DEF server, Typed
    <3> QED
      BY <3>1, <3>2
  <2> QED
    BY <1>2, <2>7, <2>8, <2>9 DEF Typed
<1>7. CASE Closed(s)
  BY <1>1, <1>2, <1>7, NothingTyped
     DEF Closed, server, Typed, SocketsTyped, HandlersTyped, DevicesTyped, NoTopics
<1> QED
  BY <1>5, <1>6, <1>7 DEF Handle

(* A publication goes on: what it writes back is what it read, without     *)
(* revoked keys and with the change of access.                             *)
LEMMA DeliverTyped ==
  ASSUME Typed, NEW p \in Publications, Deliver(p) PROVE Typed'
<1> DEFINE pub == publication[p]
           s == pub.at
           kept == Kept(pub.copy, pub.alive)
           copy == Applied(pub.note, kept)
           next == [pub EXCEPT !.at = "between", !.copy = Empty, !.alive = {}]
           topics == copy[pub.note.key].topics
<1>1. /\ pub \in Publishing /\ s \in Sockets /\ pub.note \in Notes /\ Clean(pub.copy)
      /\ UNCHANGED <<server, socket, handler>>
      /\ lost \in Nat /\ lost' \in {lost, lost + 1}
  BY DEF Typed, PublicationsTyped, ServerTyped, Publishing, Deliver
<1>2. kept \in Attachments /\ Clean(kept)
  BY <1>1, KeptTyped DEF Publishing
<1> HIDE DEF kept
<1>3. copy \in Attachments /\ Clean(copy)
  BY <1>1, <1>2, AppliedTyped
<1>4. /\ attachment' \in {attachment, [attachment EXCEPT ![s] = copy]}
      /\ told' \in {told, [told EXCEPT ![s][pub.note.key] = topics]}
      /\ publication' \in {[publication EXCEPT ![p] = NoPublication],
                           [publication EXCEPT ![p] = next]}
      /\ \/ UNCHANGED device
         \/ s \in Devices /\ device' = Tell(s, [event |-> "updated", version |-> pub.note.version])
  BY DEF Deliver, kept
<1> HIDE DEF copy
<1>5. topics \in SUBSET Topics
  BY <1>1, <1>3 DEF Notes, Attachments, Subscriptions
<1> HIDE DEF topics
<1>6. SocketsTyped'
  <2> DEFINE t == [told[s] EXCEPT ![pub.note.key] = topics]
  <2>1. t \in [Holders -> SUBSET Topics]
    BY <1>1, <1>5 DEF Typed, SocketsTyped, Notes
  <2>2. told' \in {told, [told EXCEPT ![s] = t]}
    BY <1>4
  <2> HIDE DEF t
  <2>3. told' \in [Sockets -> [Holders -> SUBSET Topics]]
    BY <2>1, <2>2 DEF Typed, SocketsTyped
  <2> QED
    BY <1>1, <1>3, <1>4, <2>3 DEF Typed, SocketsTyped
<1>7. next \in Publishing /\ next.copy = Empty
  BY <1>1, NothingTyped DEF Publishing, Places
<1> HIDE DEF next
<1>8. PublicationsTyped'
  BY <1>4, <1>7, NothingTyped DEF Typed, PublicationsTyped
<1>9. DevicesTyped'
  <2>1. pub.note.version \in Nat
    BY <1>1 DEF Notes
  <2> QED
    BY <1>1, <1>4, <2>1, TellTyped DEF Typed, DevicesTyped, server
<1> QED
  BY <1>1, <1>6, <1>8, <1>9 DEF Typed, server, ServerTyped, HandlersTyped

LEMMA ProceedTyped ==
  ASSUME Typed, NEW p \in Publications, Proceed(p) \/ FailPublication(p) PROVE Typed'
<1>1. CASE Deliver(p)
  BY <1>1, DeliverTyped
<1>2. CASE ~Deliver(p)
  <2>1. /\ UNCHANGED <<server, socket, attachment, handler, device, told>>
        /\ lost' \in {lost, lost + 1}
    BY <1>2 DEF Proceed, Begin, Look, CheckKey, EndPublication, FailPublication
  <2>2. publication[p] \in Publishing
    BY DEF Typed, PublicationsTyped
  <2>3. PublicationsTyped'
    <3>1. CASE Begin(p)
      <4> DEFINE new == [publication[p] EXCEPT !.at = "between", !.began = valid,
                           !.todo = {s \in Sockets : socket[s] # "closed"}]
      <4>1. new \in Publishing /\ new.copy = publication[p].copy
        BY <2>2 DEF Publishing, Places, Typed, ServerTyped
      <4>2. publication' = [publication EXCEPT ![p] = new]
        BY <3>1, <2>2 DEF Begin, Publishing
      <4> HIDE DEF new
      <4> QED
        BY <4>1, <4>2 DEF Typed, PublicationsTyped
    <3>2. CASE Look(p)
      <4>1. PICK s \in publication[p].todo :
              publication' = [publication EXCEPT ![p] = [publication[p] EXCEPT
                !.at = s, !.todo = publication[p].todo \ {s}, !.copy = attachment[s],
                !.alive = {NoKey}, !.unchecked = {k \in Keys : attachment[s][k].on}]]
        BY <3>2 DEF Look
      <4> DEFINE new == [publication[p] EXCEPT
                           !.at = s, !.todo = publication[p].todo \ {s}, !.copy = attachment[s],
                           !.alive = {NoKey}, !.unchecked = {k \in Keys : attachment[s][k].on}]
      <4>2. s \in Sockets /\ attachment[s] \in Attachments /\ Clean(attachment[s])
        BY <2>2 DEF Publishing, Typed, SocketsTyped
      <4>3. new \in Publishing /\ new.copy = attachment[s]
        BY <2>2, <4>2, NothingTyped DEF Publishing, Places
      <4> HIDE DEF new
      <4> QED
        BY <4>1, <4>2, <4>3 DEF new, Typed, PublicationsTyped
    <3>3. CASE CheckKey(p)
      <4>1. PICK k \in publication[p].unchecked :
              publication' = [publication EXCEPT ![p].unchecked = publication[p].unchecked \ {k},
                ![p].alive = IF k \in valid THEN publication[p].alive \cup {k}
                             ELSE publication[p].alive]
        BY <2>2, <3>3 DEF CheckKey, Publishing
      <4> DEFINE alive == IF k \in valid THEN publication[p].alive \cup {k}
                          ELSE publication[p].alive
                 new == [publication[p] EXCEPT !.unchecked = publication[p].unchecked \ {k},
                                               !.alive = alive]
      <4>2. k \in Keys /\ alive \in SUBSET Holders
        BY <2>2 DEF Publishing, Holders
      <4>3. new \in Publishing /\ new.copy = publication[p].copy
        BY <2>2, <4>2 DEF Publishing
      <4>4. publication' = [publication EXCEPT ![p] = new]
        BY <2>2, <4>1 DEF Publishing, Typed, PublicationsTyped
      <4> HIDE DEF new
      <4> QED
        BY <4>3, <4>4 DEF Typed, PublicationsTyped
    <3>4. CASE EndPublication(p) \/ FailPublication(p)
      BY <3>4, NothingTyped DEF EndPublication, FailPublication, Typed, PublicationsTyped
    <3> QED
      BY <1>2, <3>1, <3>2, <3>3, <3>4 DEF Proceed
  <2> QED
    BY <2>1, <2>3 DEF Typed, server, ServerTyped, SocketsTyped, HandlersTyped, DevicesTyped
<1> QED
  BY <1>1, <1>2

LEMMA ListenTyped ==
  ASSUME Typed, NEW d \in Devices, Listen(d) \/ Drop(d) PROVE Typed'
<1>1. /\ UNCHANGED <<server, publication, lost>> /\ d \in Sockets
      /\ device[d] \in Listeners /\ device[d].has <= version /\ version \in Nat
  BY DEF Listen, Connect, Subscribe, Receive, Pull, Notice, Drop, Sockets, Typed, DevicesTyped,
         ServerTyped
<1>2. ServerTyped' /\ PublicationsTyped'
  BY <1>1 DEF server, Typed, ServerTyped, PublicationsTyped
<1>3. SocketsTyped'
  <2>1. CASE Connect(d)
    BY <1>1, <2>1, OpenedTyped DEF Connect, Typed
  <2>2. CASE ~Connect(d)
    BY <1>1, <2>2 DEF Listen, Subscribe, Receive, Pull, Notice, Drop, Leave, Closes, Typed,
                      SocketsTyped
  <2> QED
    BY <2>1, <2>2
<1>4. HandlersTyped'
  <2>1. CASE Subscribe(d)
    <3> DEFINE request == [key |-> KeyOf[d], topics |-> {Library}, automatic |-> FALSE]
    <3>1. request \in Requests
      BY HubAssumption DEF Requests, Holders, Topics
    <3>2. Asks(d, <<request>>)
      BY <2>1 DEF Subscribe
    <3> HIDE DEF request
    <3>3. <<request>> \in Seq(Requests) \ {<<>>}
      BY <3>1
    <3> QED
      BY <1>1, <3>2, <3>3, AsksTyped DEF Typed
  <2>2. CASE ~Subscribe(d)
    BY <2>2 DEF Listen, Connect, Receive, Pull, Notice, Drop, Typed, HandlersTyped
  <2> QED
    BY <2>1, <2>2
<1>5. PICK at, has, inbox :
         /\ device' = [device EXCEPT ![d] = [at |-> at, has |-> has, inbox |-> inbox]]
         /\ at \in {"away", "subscribing", "subscribed", "pulling", "listening"}
         /\ has \in {device[d].has, version} /\ inbox \in Inbox
  <2> DEFINE Becomes(at, has, inbox) ==
               device' = [device EXCEPT ![d] = [at |-> at, has |-> has, inbox |-> inbox]]
  <2>1. /\ <<>> \in Inbox /\ device[d].inbox \in Inbox
        /\ device[d].inbox # <<>> => Tail(device[d].inbox) \in Inbox
    BY <1>1 DEF Inbox, Listeners
  <2>2. Connect(d) => Becomes("subscribing", device[d].has, <<>>)
    BY <1>1 DEF Connect, Listeners, Typed, DevicesTyped
  <2>3. Subscribe(d) => Becomes("subscribed", device[d].has, device[d].inbox)
    BY <1>1 DEF Subscribe, Listeners, Typed, DevicesTyped
  <2>4. Leave(d) \/ Notice(d) => Becomes("away", device[d].has, <<>>)
    BY <1>1 DEF Leave, Notice, Listeners, Typed, DevicesTyped
  <2>5. Receive(d) => /\ device[d].inbox # <<>>
                      /\ \/ Leave(d)
                         \/ Becomes("pulling", device[d].has, Tail(device[d].inbox))
                         \/ Becomes(device[d].at, device[d].has, Tail(device[d].inbox))
    BY <1>1 DEF Receive, Initially, Listeners, Typed, DevicesTyped
  <2>6. Pull(d) => Becomes("listening", version, device[d].inbox)
    BY <1>1 DEF Pull, Listeners, Typed, DevicesTyped
  <2>7. device[d].at \in {"away", "subscribing", "subscribed", "pulling", "listening"}
    BY <1>1 DEF Listeners
  <2>8. Drop(d) => Leave(d)
    BY DEF Drop
  <2> HIDE DEF Becomes
  <2>9. \E at, has, inbox :
          /\ Becomes(at, has, inbox)
          /\ at \in {"away", "subscribing", "subscribed", "pulling", "listening"}
          /\ has \in {device[d].has, version} /\ inbox \in Inbox
    BY <2>1, <2>2, <2>3, <2>4, <2>5, <2>6, <2>7, <2>8 DEF Listen
  <2> QED
    BY <2>9 DEF Becomes
<1>6. DevicesTyped'
  <2> DEFINE new == [at |-> at, has |-> has, inbox |-> inbox]
  <2>1. new \in Listeners /\ new.has <= version
    BY <1>1, <1>5 DEF Listeners
  <2>2. device' = [device EXCEPT ![d] = new] /\ UNCHANGED version
    BY <1>1, <1>5 DEF server
  <2> HIDE DEF new
  <2> QED
    BY <2>1, <2>2 DEF Typed, DevicesTyped
<1> QED
  BY <1>2, <1>3, <1>4, <1>6 DEF Typed

LEMMA InitTyped == Init => Typed
<1> SUFFICES ASSUME Init PROVE Typed
  OBVIOUS
<1>1. Away \in Listeners /\ Away.has = 0
  <2>1. <<>> \in Inbox
    BY DEF Inbox
  <2> QED
    BY <2>1 DEF Away, Listeners
<1> QED
  BY <1>1, NothingTyped, HubAssumption
     DEF Init, Typed, ServerTyped, SocketsTyped, HandlersTyped, PublicationsTyped, DevicesTyped,
         NoTopics

LEMMA NextTyped == Typed /\ [Next]_vars => Typed'
<1> SUFFICES ASSUME Typed, [Next]_vars PROVE Typed'
  OBVIOUS
<1>1. CASE UNCHANGED vars
  BY <1>1 DEF vars, server, Typed, ServerTyped, SocketsTyped, HandlersTyped, PublicationsTyped,
              DevicesTyped
<1> QED
  BY <1>1, ChangesTyped, OthersTyped, HandleTyped, ProceedTyped, ListenTyped DEF Next

(* Attachments, handlers, publications and devices keep their types.       *)
THEOREM AlwaysTyped == Spec => []TypeOK
<1>1. Typed => TypeOK
  BY DEF Typed, ServerTyped, SocketsTyped, HandlersTyped, PublicationsTyped, DevicesTyped,
         TypeOK, Clean, Handlers, Publishing, Listeners
<1> QED
  BY <1>1, InitTyped, NextTyped, PTL DEF Spec

(***************************************************************************)
(* Revoked keys                                                            *)
(***************************************************************************)

LEMMA NextChecked == Typed /\ Checked /\ [Next]_vars => Checked'
<1> SUFFICES ASSUME Typed, Checked, [Next]_vars, NEW p \in Publications
             PROVE  Checking(p)' /\ AboutGroups(publication'[p].note)
  BY DEF Checked
<1> DEFINE pub == publication[p]
<1>1. /\ pub \in Publishing /\ Checking(p) /\ AboutGroups(pub.note) /\ valid \subseteq Keys
      /\ publication \in [Publications -> Publishing]
      /\ \A s \in Sockets : s \notin {"ended", "queued", "between"}
  BY HubAssumption DEF Typed, PublicationsTyped, ServerTyped, Checked
<1>2. valid' \subseteq valid
  BY DEF Next, vars, server, Changes, Commit, Revoke, Allow, Withdraw, Others, OpenClient,
         CloseClient, CreateSubscriptions, DeleteSubscriptions, Handle, GetKey, Accept, Closed,
         Proceed, Begin, Look, CheckKey, Deliver, EndPublication, FailPublication, Listen,
         Connect, Subscribe, Receive, Pull, Notice, Drop
<1>3. CASE publication'[p] = pub
  BY <1>1, <1>2, <1>3 DEF Checking, Publishing
<1>4. CASE publication'[p].at \in {"queued", "ended"} /\ AboutGroups(publication'[p].note)
  BY <1>1, <1>4 DEF Checking
<1>5. CASE Changes
  <2>1. CASE Commit
    <3>1. Note("topicUpdated", Library, NoKey, version + 1) \in Notes
      BY NothingTyped DEF Note, Notes, Events, Typed, ServerTyped
    <3>2. AboutGroups(Note("topicUpdated", Library, NoKey, version + 1))
      BY DEF AboutGroups, Note
    <3> QED
      BY <1>3, <1>4, <2>1, <3>1, <3>2, PublishedTyped DEF Commit, Typed
  <2>2. CASE \E k \in Keys : Revoke(k)
    BY <1>3, <2>2 DEF Revoke
  <2>3. ASSUME NEW k \in Keys, NEW group \in Groups, Allow(k, group) \/ Withdraw(k, group)
        PROVE  Checking(p)' /\ AboutGroups(publication'[p].note)
    <3>1. PICK note \in {Note("topicAdded", group, k, 0), Note("topicRemoved", group, k, 0)} :
            Publish(note)
      BY <2>3 DEF Allow, Withdraw
    <3>2. note \in Notes /\ AboutGroups(note)
      BY <3>1 DEF Note, Notes, Events, Topics, Holders, AboutGroups
    <3> QED
      BY <1>3, <1>4, <3>1, <3>2, PublishedTyped DEF Typed
  <2> QED
    BY <1>5, <2>1, <2>2, <2>3 DEF Changes
<1>6. CASE UNCHANGED publication
  BY <1>3, <1>6
<1>7. ASSUME NEW q \in Publications, Proceed(q) \/ FailPublication(q)
      PROVE  Checking(p)' /\ AboutGroups(publication'[p].note)
  <2>1. CASE q # p
    <3>1. publication'[p] = pub
      BY <1>1, <1>7, <2>1 DEF Proceed, Begin, Look, CheckKey, Deliver, EndPublication,
                              FailPublication
    <3> QED
      BY <1>3, <3>1
  <2>2. CASE publication' = [publication EXCEPT ![p] = NoPublication]
    BY <1>1, <1>4, <2>2, NothingTyped DEF AboutGroups
  <2>3. CASE Begin(p)
    BY <1>1, <1>2, <2>3 DEF Begin, Checking, AboutGroups, Publishing
  <2>4. CASE Look(p)
    <3> DEFINE Looked(s) == [pub EXCEPT
                 !.at = s, !.todo = pub.todo \ {s}, !.copy = attachment[s],
                 !.alive = {NoKey}, !.unchecked = {k \in Keys : attachment[s][k].on}]
    <3>1. PICK s \in pub.todo : publication' = [publication EXCEPT ![p] = Looked(s)]
      BY <2>4 DEF Look
    <3>2. /\ Looked(s).at = s /\ Looked(s).alive = {NoKey} /\ Looked(s).note = pub.note
          /\ Looked(s).unchecked = {k \in Keys : attachment[s][k].on}
          /\ Looked(s).copy = attachment[s] /\ Looked(s).began = pub.began
      BY <1>1 DEF Publishing
    <3> HIDE DEF Looked
    <3>3. publication'[p] = Looked(s) /\ pub.at = "between"
      BY <1>1, <2>4, <3>1 DEF Look
    <3> QED
      BY <1>1, <1>2, <3>2, <3>3 DEF Checking
  <2>5. CASE CheckKey(p)
    <3>1. PICK k \in pub.unchecked :
            publication' = [publication EXCEPT ![p].unchecked = pub.unchecked \ {k},
              ![p].alive = IF k \in valid THEN pub.alive \cup {k} ELSE pub.alive]
      BY <1>1, <2>5 DEF CheckKey, Publishing
    <3>2. /\ publication'[p].at = pub.at /\ publication'[p].note = pub.note
          /\ publication'[p].copy = pub.copy /\ publication'[p].began = pub.began
          /\ publication'[p].unchecked = pub.unchecked \ {k}
          /\ publication'[p].alive = IF k \in valid THEN pub.alive \cup {k} ELSE pub.alive
      BY <1>1, <3>1 DEF Publishing
    <3>3. pub.at \in Sockets
      BY <2>5 DEF CheckKey
    <3> QED
      BY <1>1, <1>2, <3>2, <3>3 DEF Checking
  <2>6. CASE Deliver(p)
    <3> DEFINE next == [pub EXCEPT !.at = "between", !.copy = Empty, !.alive = {}]
    <3>1. next.at = "between" /\ next.note = pub.note /\ next.began = pub.began
      BY <1>1 DEF Publishing
    <3>2. /\ publication' \in {[publication EXCEPT ![p] = NoPublication],
                               [publication EXCEPT ![p] = next]}
          /\ pub.at \in Sockets
      BY <2>6 DEF Deliver
    <3> HIDE DEF next
    <3>3. CASE publication' = [publication EXCEPT ![p] = next]
      BY <1>1, <1>2, <3>1, <3>2, <3>3 DEF Checking
    <3> QED
      BY <2>2, <3>2, <3>3
  <2> QED
    BY <1>7, <2>1, <2>2, <2>3, <2>4, <2>5, <2>6 DEF Proceed, EndPublication, FailPublication
<1> QED
  BY <1>5, <1>6, <1>7
     DEF Next, vars, Others, OpenClient, CloseClient, CreateSubscriptions, DeleteSubscriptions,
         Handle, GetKey, Accept, Closed, Listen, Connect, Subscribe, Receive, Pull, Notice, Drop

(* A revoked key lets nobody hear of what is published afterwards: a       *)
(* publication keeps a subscription only under a key it has found, and     *)
(* that was valid when it began.                                           *)
THEOREM RevokedStayUntold == Spec => []RevokedHearNothing
<1>1. Init => Checked
  BY NothingTyped, HubAssumption DEF Init, Checked, Checking, AboutGroups
<1>2. Typed /\ Checked => RevokedHearNothing
  <2> SUFFICES ASSUME Typed, Checked, NEW p \in Publications, NEW k \in Keys,
                      publication[p].at \in Sockets, publication[p].unchecked = {},
                      Kept(publication[p].copy, publication[p].alive)[k].on
               PROVE  k \in publication[p].began
    BY DEF RevokedHearNothing
  <2>1. k \in publication[p].alive
    BY DEF Kept, NoSubscription, Holders
  <2> QED
    BY <2>1, HubAssumption DEF Checked, Checking
<1> QED
  BY <1>1, <1>2, InitTyped, NextTyped, NextChecked, PTL DEF Spec

(***************************************************************************)
(* Devices stay subscribed                                                 *)
(***************************************************************************)

LEMMA EmptyModest ==
  ASSUME NEW d \in Devices PROVE Modest(d, Empty) /\ KeyOf[d] \in Keys /\ KeyOf[d] \in Holders
BY HubAssumption DEF Modest, Empty, NoSubscription, Holders

(* What leaves the device's socket alone keeps it served, whatever becomes *)
(* of keys, and of publications that are not at the socket.                *)
LEMMA StaysServed ==
  ASSUME Typed, NEW d \in Devices, Served(d),
         attachment'[d] = attachment[d], told'[d] = told[d], handler'[d] = handler[d],
         device'[d].at = "subscribing" => device[d].at = "subscribing",
         valid' \subseteq valid,
         \A p \in Publications : publication'[p].at = d =>
           \/ publication[p].at = d /\ publication'[p].copy = publication[p].copy
           \/ publication'[p].copy = attachment[d]
  PROVE  Served(d)'
BY DEF Served, Unsubscribed

LEMMA ChangesServed ==
  ASSUME Typed, NEW d \in Devices, Served(d), Changes PROVE Served(d)'
<1>1. /\ UNCHANGED <<attachment, told, handler, device>> /\ valid' \subseteq valid
  BY DEF Changes, Commit, Revoke, Allow, Withdraw
<1>2. ASSUME NEW p \in Publications
      PROVE  publication'[p] = publication[p] \/ publication'[p].at = "queued"
  <2>1. CASE Commit
    <3>1. Note("topicUpdated", Library, NoKey, version + 1) \in Notes
      BY NothingTyped DEF Note, Notes, Events, Typed, ServerTyped
    <3> QED
      BY <2>1, <3>1, PublishedTyped DEF Commit, Typed
  <2>2. CASE \E k \in Keys : Revoke(k)
    BY <2>2 DEF Revoke
  <2>3. ASSUME NEW k \in Keys, NEW group \in Groups, Allow(k, group) \/ Withdraw(k, group)
        PROVE  publication'[p] = publication[p] \/ publication'[p].at = "queued"
    <3>1. PICK note \in {Note("topicAdded", group, k, 0), Note("topicRemoved", group, k, 0)} :
            Publish(note)
      BY <2>3 DEF Allow, Withdraw
    <3>2. note \in Notes
      BY <3>1 DEF Note, Notes, Events, Topics, Holders
    <3> QED
      BY <3>1, <3>2, PublishedTyped DEF Typed
  <2> QED
    BY <2>1, <2>2, <2>3 DEF Changes
<1>3. d # "queued"
  BY HubAssumption DEF Sockets
<1> QED
  BY <1>1, <1>2, <1>3, StaysServed

LEMMA OthersServed ==
  ASSUME Typed, NEW d \in Devices, Served(d), Others PROVE Served(d)'
<1>1. PICK c \in Clients :
         \/ OpenClient(c) \/ CloseClient(c) \/ CreateSubscriptions(c)
         \/ \E k \in Holders, topics \in SUBSET Topics : DeleteSubscriptions(c, k, topics)
  BY DEF Others
<1>2. c # d /\ d \in Sockets /\ UNCHANGED <<server, publication, device>>
  BY <1>1, HubAssumption
     DEF Sockets, OpenClient, CloseClient, CreateSubscriptions, DeleteSubscriptions
<1>3. attachment'[d] = attachment[d] /\ told'[d] = told[d] /\ handler'[d] = handler[d]
  BY <1>1, <1>2 DEF OpenClient, Opened, CloseClient, CreateSubscriptions, Asks,
     DeleteSubscriptions, Typed, SocketsTyped, HandlersTyped
<1> QED
  BY <1>2, <1>3, StaysServed DEF server

(* The one request of a device is accepted: it is told what is stored.     *)
LEMMA HandleServed ==
  ASSUME Typed, NEW d \in Devices, Served(d), NEW s \in Sockets, Handle(s) PROVE Served(d)'
<1>1. /\ d \in Sockets /\ UNCHANGED <<server, publication>>
      /\ handler \in [Sockets -> Handlers]
      /\ attachment \in [Sockets -> Attachments]
      /\ told \in [Sockets -> [Holders -> SUBSET Topics]]
      /\ device \in [Devices -> Listeners]
  BY DEF Sockets, Handle, GetKey, Accept, Closed, Typed, HandlersTyped, SocketsTyped, DevicesTyped
<1>2. device'[d].at = device[d].at
  <2>1. UNCHANGED device \/ \E message : device' = Tell(s, message)
    BY DEF Handle, GetKey, Accept, Closed, Store
  <2> QED
    BY <1>1, <2>1 DEF Tell, Listeners
<1>3. CASE s # d
  <2>1. attachment'[d] = attachment[d] /\ told'[d] = told[d] /\ handler'[d] = handler[d]
    BY <1>1, <1>3 DEF Handle, GetKey, Accept, Closed, Store
  <2> QED
    BY <1>1, <1>2, <2>1, StaysServed DEF server
<1>4. CASE s = d /\ GetKey(d)
  <2>1. /\ handler[d].requests = <<OwnRequest(d)>> /\ handler[d].copy = Empty
        /\ handler[d].answer = NoTopics /\ Unsubscribed(d)
    BY <1>4 DEF GetKey, Served
  <2>2. TopicsOf(OwnRequest(d), access[KeyOf[d]]) \subseteq {Library}
    BY DEF TopicsOf, OwnRequest
  <2>3. Head(handler[d].requests) = OwnRequest(d) /\ OwnRequest(d).key = KeyOf[d]
    BY <2>1 DEF OwnRequest
  <2>4. /\ \/ handler'[d] = NoHandler
           \/ handler'[d] = [handler[d] EXCEPT !.at = "accept",
                               !.grants = TopicsOf(OwnRequest(d), access[KeyOf[d]])]
        /\ UNCHANGED <<attachment, told, device>>
    <3>1. /\ \/ handler' = [handler EXCEPT ![d] = NoHandler]
             \/ handler' = [handler EXCEPT ![d].at = "accept",
                  ![d].grants = TopicsOf(Head(handler[d].requests),
                                         access[Head(handler[d].requests).key])]
          /\ UNCHANGED <<attachment, told, device>>
      BY <1>4 DEF GetKey
    <3> QED
      BY <1>1, <2>3, <3>1 DEF Handlers
  <2>5. handler'[d].at # "idle" =>
          /\ handler'[d].requests = <<OwnRequest(d)>> /\ handler'[d].copy = Empty
          /\ handler'[d].answer = NoTopics /\ handler'[d].grants \subseteq {Library}
    BY <1>1, <2>1, <2>2, <2>4, NothingTyped DEF Handlers
  <2>6. device[d].at # "subscribing"
    BY <1>4 DEF GetKey, Served
  <2> QED
    BY <1>1, <1>2, <2>1, <2>4, <2>5, <2>6 DEF Served, Unsubscribed, server
<1>5. CASE s = d /\ Accept(d)
  <2> DEFINE h == handler[d]
             request == Head(h.requests)
             copy == Merged(h.copy, request, h.grants)
             answer == [h.answer EXCEPT ![request.key] = copy[request.key].topics]
  <2>1. /\ h.requests = <<OwnRequest(d)>> /\ h.copy = Empty /\ h.answer = NoTopics
        /\ h.grants \subseteq {Library} /\ Unsubscribed(d)
    BY <1>5 DEF Accept, Served
  <2>2. request = OwnRequest(d) /\ Len(h.requests) = 1
    BY <2>1
  <2>3. /\ handler'[d] = NoHandler
        /\ UNCHANGED <<attachment, told>> \/ Store(d, copy, answer)
    BY <1>1, <1>5, <2>2 DEF Accept
  <2>4. copy = [Empty EXCEPT ![KeyOf[d]] = [on |-> TRUE, topics |-> h.grants, automatic |-> FALSE]]
    <3>1. Empty[KeyOf[d]] = NoSubscription
      BY EmptyModest DEF Empty
    <3>2. /\ Empty[KeyOf[d]].topics \cup h.grants = h.grants
          /\ (Empty[KeyOf[d]].automatic \/ OwnRequest(d).automatic) = FALSE
      BY <3>1 DEF NoSubscription, OwnRequest
    <3>3. copy = Merged(Empty, OwnRequest(d), h.grants) /\ OwnRequest(d).key = KeyOf[d]
      BY <2>1, <2>2 DEF OwnRequest
    <3>4. Merged(Empty, OwnRequest(d), h.grants) =
            [Empty EXCEPT ![OwnRequest(d).key] =
               [on |-> TRUE, topics |-> Empty[OwnRequest(d).key].topics \cup h.grants,
                automatic |-> Empty[OwnRequest(d).key].automatic \/ OwnRequest(d).automatic]]
      BY DEF Merged
    <3> HIDE DEF copy
    <3> QED
      BY <3>2, <3>3, <3>4
  <2>5. /\ Modest(d, copy) /\ copy[KeyOf[d]].topics = h.grants
        /\ answer = [NoTopics EXCEPT ![KeyOf[d]] = h.grants]
    <3>1. copy[KeyOf[d]] = [on |-> TRUE, topics |-> h.grants, automatic |-> FALSE]
      BY <2>4, EmptyModest DEF Empty
    <3>2. \A k \in Holders \ {KeyOf[d]} : copy[k] = NoSubscription
      BY <2>4 DEF Empty
    <3>3. answer = [NoTopics EXCEPT ![KeyOf[d]] = copy[KeyOf[d]].topics]
      <4>1. request.key = KeyOf[d]
        BY <2>2 DEF OwnRequest
      <4> HIDE DEF copy, request
      <4> QED
        BY <2>1, <4>1
    <3> DEFINE new == copy[KeyOf[d]]
    <3> HIDE DEF new
    <3>4. new.topics = h.grants /\ ~new.automatic
      BY <3>1 DEF new
    <3> HIDE DEF copy, answer, h
    <3>5. Modest(d, copy)
      BY <2>1, <3>2, <3>4 DEF Modest, new
    <3> QED
      BY <3>3, <3>4, <3>5 DEF new
  <2> HIDE DEF copy, answer
  <2>6. CASE UNCHANGED <<attachment, told>>
    BY <1>1, <1>2, <2>3, <2>6, NothingTyped DEF Served, Unsubscribed, server
  <2>7. CASE Store(d, copy, answer)
    <3>1. /\ attachment'[d] = copy
          /\ told'[d] = [k \in Holders |-> told[d][k] \cup answer[k]]
      BY <1>1, <2>7 DEF Store
    <3>2. /\ \A k \in Holders \ {KeyOf[d]} : told'[d][k] = {}
          /\ told'[d][KeyOf[d]] = h.grants
      <4>1. \A k \in Holders : told[d][k] = {}
        BY <2>1 DEF Unsubscribed, NoTopics
      <4>2. \A k \in Holders : answer[k] = IF k = KeyOf[d] THEN h.grants ELSE {}
        BY <2>5 DEF NoTopics
      <4>3. \A k \in Holders : told'[d][k] = told[d][k] \cup answer[k]
        BY <3>1
      <4>4. \A k \in Holders : told'[d][k] = IF k = KeyOf[d] THEN h.grants ELSE {}
        <5> SUFFICES ASSUME NEW k \in Holders
                     PROVE  told'[d][k] = IF k = KeyOf[d] THEN h.grants ELSE {}
          OBVIOUS
        <5>1. told'[d][k] = {} \cup answer[k]
          BY <4>1, <4>3
        <5> QED
          BY <4>2, <5>1
      <4> QED
        BY <4>4, EmptyModest
    <3>3. device[d].at # "subscribing"
      BY <1>5 DEF Accept, Served
    <3> QED
      BY <1>1, <1>2, <2>3, <2>5, <3>1, <3>2, <3>3, NothingTyped DEF Served, server
  <2> QED
    BY <2>3, <2>6, <2>7
<1>6. CASE s = d /\ Closed(d)
  <2>1. attachment'[d] = Empty /\ told'[d] = NoTopics /\ UNCHANGED <<handler, device>>
    BY <1>1, <1>6 DEF Closed, NoTopics
  <2> QED
    <3>1. \A k \in Holders : told'[d][k] = {} /\ attachment'[d][k] = NoSubscription
      BY <2>1 DEF NoTopics, Empty
    <3>2. Modest(d, attachment'[d]) /\ Unsubscribed(d)'
      BY <2>1, EmptyModest DEF Unsubscribed
    <3>3. attachment'[d][KeyOf[d]].topics = told'[d][KeyOf[d]]
      <4>1. KeyOf[d] \in Holders /\ NoSubscription.topics = {}
        BY EmptyModest DEF NoSubscription
      <4> QED
        BY <3>1, <4>1
    <3>4. \A k \in Holders \ {KeyOf[d]} : told'[d][k] = {}
      BY <3>1
    <3> QED
      BY <1>1, <2>1, <3>2, <3>3, <3>4 DEF Served, server
<1> QED
  BY <1>3, <1>4, <1>5, <1>6 DEF Handle

(* A publication at the device's socket writes back what it read only when *)
(* it finds the key revoked, and then removes it.                          *)
LEMMA DeliverServed ==
  ASSUME IInv, NEW d \in Devices, NEW p \in Publications, Deliver(p) PROVE Served(d)'
<1> DEFINE pub == publication[p]
           kept == Kept(pub.copy, pub.alive)
           key == KeyOf[d]
<1>0. key \in Keys /\ key \in Holders /\ NoKey # key
  BY HubAssumption DEF Holders
<1>1. /\ d \in Sockets /\ Served(d) /\ Typed /\ Checking(p) /\ AboutGroups(pub.note)
      /\ pub \in Publishing /\ pub.at \in Sockets /\ pub.unchecked = {}
      /\ UNCHANGED <<server, socket, handler>>
      /\ publication \in [Publications -> Publishing]
      /\ attachment \in [Sockets -> Attachments]
      /\ told \in [Sockets -> [Holders -> SUBSET Topics]]
      /\ device \in [Devices -> Listeners]
      /\ \A t \in Sockets : t \notin {"ended", "queued", "between"}
  <2>1. pub.at \in Sockets /\ pub.unchecked = {} /\ UNCHANGED <<server, socket, handler>>
    BY DEF Deliver
  <2> QED
    BY <2>1, HubAssumption
       DEF IInv, Checked, Typed, PublicationsTyped, SocketsTyped, DevicesTyped, Sockets
<1>2. device'[d].at = device[d].at
  <2>1. UNCHANGED device \/ device' = Tell(pub.at, [event |-> "updated", version |-> pub.note.version])
    BY DEF Deliver
  <2> QED
    BY <1>1, <2>1 DEF Tell, Listeners
<1>3. \A q \in Publications : publication'[q].at = d => q # p /\ publication'[q] = publication[q]
  <2> DEFINE next == [pub EXCEPT !.at = "between", !.copy = Empty, !.alive = {}]
  <2>1. publication' \in {[publication EXCEPT ![p] = NoPublication],
                          [publication EXCEPT ![p] = next]}
    BY DEF Deliver
  <2>2. next.at = "between" /\ NoPublication.at = "ended"
    BY <1>1, NothingTyped DEF Publishing
  <2> HIDE DEF next
  <2> QED
    BY <1>1, <2>1, <2>2
<1>4. CASE pub.at # d
  <2>1. attachment'[d] = attachment[d] /\ told'[d] = told[d]
    BY <1>1, <1>4 DEF Deliver
  <2> QED
    BY <1>1, <1>2, <1>3, <2>1, StaysServed DEF server
<1>5. CASE pub.at = d
  <2>1. Modest(d, pub.copy)
    BY <1>1, <1>5 DEF Served
  <2>2. /\ kept \in Attachments
        /\ key \in pub.alive => kept = pub.copy
        /\ key \notin pub.alive => kept = Empty
    <3>1. pub.copy \in [Holders -> Subscriptions] /\ kept \in [Holders -> Subscriptions]
      BY <1>1, KeptTyped DEF Publishing, Attachments, Typed, PublicationsTyped
    <3>2. \A k \in Holders : kept[k] = IF k \in pub.alive THEN pub.copy[k] ELSE NoSubscription
      BY DEF Kept
    <3>3. \A k \in Holders \ {key} : pub.copy[k] = NoSubscription
      BY <2>1 DEF Modest
    <3>4. Empty \in [Holders -> Subscriptions] /\ \A k \in Holders : Empty[k] = NoSubscription
      BY NothingTyped DEF Empty, Attachments
    <3> HIDE DEF kept
    <3>5. ASSUME key \in pub.alive PROVE kept = pub.copy
      <4>1. \A k \in Holders : kept[k] = pub.copy[k]
        BY <3>2, <3>3, <3>5
      <4> QED
        BY <3>1, <4>1
    <3>6. ASSUME key \notin pub.alive PROVE kept = Empty
      <4>1. \A k \in Holders : kept[k] = Empty[k]
        BY <3>2, <3>3, <3>4, <3>6
      <4> QED
        BY <3>1, <3>4, <4>1
    <3> QED
      BY <3>1, <3>5, <3>6 DEF Attachments
  <2> HIDE DEF kept
  <2>3. ~Applies(pub.note, kept)
    <3>1. Modest(d, kept)
      BY <2>1, <2>2, EmptyModest
    <3> SUFFICES ASSUME Applies(pub.note, kept) PROVE FALSE
      OBVIOUS
    <3>2. kept[pub.note.key].on /\ pub.note.key \in Holders
      BY <1>1 DEF Applies, Publishing, Notes
    <3>3. pub.note.key = key
      BY <1>0, <3>1, <3>2 DEF Modest, NoSubscription
    <3>4. pub.note.event = "topicRemoved" /\ pub.note.topic = Library
      BY <3>1, <3>3 DEF Applies, Modest
    <3> QED
      BY <1>1, <3>4, HubAssumption DEF AboutGroups
  <2>4. UNCHANGED told /\ (attachment' = attachment \/
          (kept # pub.copy /\ attachment' = [attachment EXCEPT ![d] = Empty]))
    BY <1>5, <2>2, <2>3 DEF Deliver, kept, Applied
  <2>5. CASE attachment' = attachment
    BY <1>1, <1>2, <1>3, <2>4, <2>5, StaysServed DEF server
  <2>6. CASE kept # pub.copy /\ attachment' = [attachment EXCEPT ![d] = Empty]
    <3>1. key \notin pub.alive /\ pub.copy[key].on
      <4>1. key \notin pub.alive /\ kept = Empty
        BY <2>2, <2>6
      <4>2. pub.copy[key].on \/ pub.copy[key] = NoSubscription
        BY <1>0, <1>1 DEF Typed, PublicationsTyped, Clean
      <4>3. ASSUME pub.copy[key] = NoSubscription PROVE FALSE
        <5>1. pub.copy \in [Holders -> Subscriptions]
          BY <1>1 DEF Publishing, Attachments
        <5>2. \A k \in Holders : pub.copy[k] = NoSubscription
          BY <2>1, <4>3 DEF Modest
        <5>3. pub.copy = Empty
          BY <5>1, <5>2 DEF Empty
        <5> QED
          BY <2>6, <4>1, <5>3
      <4> QED
        BY <4>1, <4>2, <4>3
    <3>2. key \notin valid
      BY <1>0, <1>1, <3>1 DEF Checking
    <3>3. attachment'[d] = Empty
      BY <1>1, <2>6
    <3>4. Modest(d, Empty)
      BY EmptyModest
    <3>5. UNCHANGED <<valid, told, handler>>
      BY <1>1, <2>4 DEF server
    <3>6. Unsubscribed(d) => Unsubscribed(d)'
      BY <3>3, <3>5 DEF Unsubscribed
    <3> QED
      BY <1>1, <1>2, <1>3, <3>2, <3>3, <3>4, <3>5, <3>6 DEF Served
  <2> QED
    BY <2>4, <2>5, <2>6
<1> QED
  BY <1>4, <1>5

LEMMA ProceedServed ==
  ASSUME IInv, NEW d \in Devices, NEW p \in Publications, Proceed(p) \/ FailPublication(p)
  PROVE  Served(d)'
<1>1. CASE Deliver(p)
  BY <1>1, DeliverServed
<1>2. CASE ~Deliver(p)
  <2>1. /\ Typed /\ Served(d) /\ publication \in [Publications -> Publishing]
        /\ d \in Sockets /\ d \notin {"ended", "queued", "between"}
    BY HubAssumption DEF IInv, Typed, PublicationsTyped, Sockets
  <2>2. UNCHANGED <<server, attachment, told, handler, device>>
    BY <1>2 DEF Proceed, Begin, Look, CheckKey, EndPublication, FailPublication
  <2>3. ASSUME NEW q \in Publications, publication'[q].at = d
        PROVE  \/ publication[q].at = d /\ publication'[q].copy = publication[q].copy
               \/ publication'[q].copy = attachment[d]
    <3>1. CASE q # p
      <4>1. publication'[q] = publication[q]
        BY <1>2, <2>1, <3>1 DEF Proceed, Begin, Look, CheckKey, EndPublication, FailPublication
      <4> QED
        BY <2>3, <4>1
    <3>2. CASE q = p /\ Begin(p)
      BY <2>1, <2>3, <3>2 DEF Begin, Publishing
    <3>3. CASE q = p /\ Look(p)
      BY <2>1, <2>3, <3>3 DEF Look, Publishing
    <3>4. CASE q = p /\ CheckKey(p)
      BY <2>1, <2>3, <3>4 DEF CheckKey, Publishing
    <3>5. CASE q = p /\ (EndPublication(p) \/ FailPublication(p))
      BY <2>1, <2>3, <3>5, NothingTyped DEF EndPublication, FailPublication
    <3> QED
      BY <1>2, <3>1, <3>2, <3>3, <3>4, <3>5 DEF Proceed
  <2> QED
    BY <2>1, <2>2, <2>3, StaysServed DEF server
<1> QED
  BY <1>1, <1>2

(* A device that connects is subscribed to nothing, and asks once.         *)
LEMMA ListenServed ==
  ASSUME Typed, NEW d \in Devices, Served(d), NEW e \in Devices, Listen(e) \/ Drop(e)
  PROVE  Served(d)'
<1>1. /\ UNCHANGED <<server, publication, lost>> /\ d \in Sockets /\ e \in Sockets
      /\ handler \in [Sockets -> Handlers]
      /\ attachment \in [Sockets -> Attachments]
      /\ told \in [Sockets -> [Holders -> SUBSET Topics]]
      /\ device \in [Devices -> Listeners]
  BY DEF Listen, Connect, Subscribe, Receive, Pull, Notice, Drop, Sockets, Typed, DevicesTyped,
         SocketsTyped, HandlersTyped
<1>2. CASE d # e
  <2>1. /\ attachment'[d] = attachment[d] /\ told'[d] = told[d] /\ handler'[d] = handler[d]
        /\ device'[d] = device[d]
    BY <1>1, <1>2 DEF Listen, Connect, Opened, Subscribe, Asks, Receive, Pull, Notice, Drop, Leave
  <2> QED
    BY <1>1, <2>1, StaysServed DEF server
<1>3. CASE d = e /\ Connect(d)
  <2>1. /\ attachment'[d] = Empty /\ told'[d] = NoTopics
        /\ handler' = handler /\ handler[d].at = "idle"
    BY <1>1, <1>3 DEF Connect, Opened, Forgotten, NoTopics
  <2>2. \A k \in Holders : told'[d][k] = {} /\ attachment'[d][k] = NoSubscription
    BY <2>1 DEF NoTopics, Empty
  <2>3. Modest(d, attachment'[d]) /\ Unsubscribed(d)' /\ KeyOf[d] \in Holders
    BY <2>1, EmptyModest DEF Unsubscribed
  <2>4. NoSubscription.topics = {}
    BY DEF NoSubscription
  <2>5. attachment'[d][KeyOf[d]].topics = told'[d][KeyOf[d]]
    BY <2>2, <2>3, <2>4
  <2>6. \A k \in Holders \ {KeyOf[d]} : told'[d][k] = {}
    BY <2>2
  <2> QED
    BY <1>1, <2>1, <2>3, <2>5, <2>6 DEF Served, server
<1>4. CASE d = e /\ Subscribe(d)
  <2>1. /\ Unsubscribed(d) /\ UNCHANGED <<attachment, told>>
        /\ handler'[d] = [NoHandler EXCEPT !.at = "key", !.requests = <<OwnRequest(d)>>,
                                           !.copy = attachment[d]]
        /\ device'[d].at = "subscribed"
    BY <1>1, <1>4 DEF Subscribe, Asks, Served, OwnRequest, Listeners
  <2>2. /\ handler'[d].at = "key" /\ handler'[d].requests = <<OwnRequest(d)>>
        /\ handler'[d].copy = Empty /\ handler'[d].answer = NoTopics
    BY <2>1 DEF Unsubscribed, NoHandler, NoTopics
  <2> QED
    BY <1>1, <2>1, <2>2 DEF Served, Unsubscribed, server
<1>5. CASE d = e /\ ~Connect(d) /\ ~Subscribe(d)
  <2>1. /\ UNCHANGED <<attachment, told, handler>>
        /\ device'[d].at = "subscribing" => device[d].at = "subscribing"
    BY <1>1, <1>5
       DEF Listen, Receive, Pull, Notice, Drop, Leave, Initially, Listeners
  <2> QED
    BY <1>1, <2>1, StaysServed DEF server
<1> QED
  BY <1>2, <1>3, <1>4, <1>5 DEF Listen

(* A device is subscribed to what it was told, as long as its key is not   *)
(* revoked, whatever handlers, publications and its own connections do     *)
(* meanwhile.                                                              *)
THEOREM DevicesAreServed == Spec => []DevicesStaySubscribed
<1>1. Init => IInv
  <2> SUFFICES ASSUME Init, NEW d \in Devices PROVE Served(d)
    BY InitTyped, NothingTyped, HubAssumption DEF Init, IInv, Checked, Checking, AboutGroups
  <2>1. /\ d \in Sockets /\ Modest(d, Empty) /\ KeyOf[d] \in Holders
        /\ d \notin {"ended", "queued", "between"}
    BY EmptyModest, HubAssumption DEF Sockets
  <2>2. /\ attachment[d] = Empty /\ told[d] = NoTopics /\ handler[d].at = "idle"
        /\ device[d].at = "away" /\ \A p \in Publications : publication[p].at = "ended"
    BY <2>1, NothingTyped DEF Init, NoTopics, Away
  <2>3. \A k \in Holders : told[d][k] = {} /\ attachment[d][k] = NoSubscription
    BY <2>2 DEF NoTopics, Empty
  <2>4. NoSubscription.topics = {}
    BY DEF NoSubscription
  <2>5. attachment[d][KeyOf[d]].topics = told[d][KeyOf[d]]
    BY <2>1, <2>3, <2>4
  <2> QED
    BY <2>1, <2>2, <2>3, <2>5 DEF Served
<1>2. IInv /\ [Next]_vars => IInv'
  <2> SUFFICES ASSUME IInv, [Next]_vars, NEW d \in Devices PROVE Served(d)'
    BY NextTyped, NextChecked DEF IInv
  <2>1. CASE UNCHANGED vars
    BY <2>1 DEF vars, server, IInv, Served, Unsubscribed
  <2> QED
    BY <2>1, ChangesServed, OthersServed, HandleServed, ProceedServed, ListenServed
       DEF Next, IInv
<1>3. IInv => DevicesStaySubscribed
  <2> SUFFICES ASSUME IInv, NEW d \in Devices, NEW k \in valid \cup {NoKey}
               PROVE  attachment[d][k].topics = told[d][k]
    BY DEF DevicesStaySubscribed, Subscribed
  <2>1. Served(d) /\ k \in Holders /\ KeyOf[d] \in Keys /\ NoKey \notin Keys
    BY HubAssumption DEF IInv, Typed, ServerTyped, Holders
  <2>2. CASE k = KeyOf[d]
    BY <2>1, <2>2 DEF Served
  <2>3. CASE k # KeyOf[d]
    <3>1. attachment[d][k] = NoSubscription /\ told[d][k] = {}
      BY <2>1, <2>3 DEF Served, Modest
    <3> QED
      BY <3>1 DEF NoSubscription
  <2> QED
    BY <2>2, <2>3
<1> QED
  BY <1>1, <1>2, <1>3, PTL DEF Spec

=============================================================================
