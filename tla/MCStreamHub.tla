---------------------------- MODULE MCStreamHub ----------------------------
(* Small instances of StreamHub for TLC. *)
EXTENDS StreamHub, TLC

CONSTANTS a, b, k1, k2, none, library, group, p1, p2

OwnKey == [d \in Devices |-> k1]
(* The keys read the library, one also the group; the group is public. *)
Readable == (k1 :> {library, group}) @@ (k2 :> {library}) @@ (none :> {group})
Ask(key, topics) == [key |-> key, topics |-> topics, automatic |-> FALSE]
Follow(key) == [key |-> key, topics |-> {}, automatic |-> TRUE]
(* Everything a key may read, or topics under two keys. *)
Subscribing ==
  [c \in Clients |-> {<<Follow(k1)>>, <<Ask(k2, {library, group}), Ask(none, {group})>>}]
Bound(commits, revocations, accesses, messages, opens, closes, faults) ==
  ("commits" :> commits) @@ ("revocations" :> revocations) @@ ("accesses" :> accesses)
    @@ ("messages" :> messages) @@ ("opens" :> opens) @@ ("closes" :> closes)
    @@ ("faults" :> faults)
(* What may come between a device and a version; and what clients do with  *)
(* their subscriptions while access to the group changes.                  *)
Eventful ==
  {Bound(2, 0, 0, 1, 1, 0, 0), Bound(2, 0, 0, 0, 0, 1, 1), Bound(1, 1, 0, 1, 1, 1, 0),
   Bound(0, 0, 1, 2, 1, 0, 0), Bound(0, 1, 1, 1, 1, 0, 0)}
TwoMessages == {Bound(1, 1, 1, 2, 1, 0, 0)}
===========================================================================
