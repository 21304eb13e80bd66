------------------------------ MODULE EventBus ------------------------------
(***************************************************************************)
(* The in-memory event bus as the application services use it: a call of a *)
(* service publishes one event and waits until each handler has returned.  *)
(* publish() collects the handlers into the list registered for the type   *)
(* of the event itself, so that list grows with every event; what each     *)
(* handler hears is decided by dropping the repetitions, by identity.      *)
(* Handlers are withdrawn by equality: a bound method is another object    *)
(* each time it is taken from its owner, equal to all the others.          *)
(***************************************************************************)
EXTENDS Naturals, FiniteSets

CONSTANTS
    Calls,          \* calls of the services, each of which publishes at most once
    Handlers,
    Methods,        \* handlers that are bound methods; the others are one object each
    Copies,         \* bound: objects that are made of a bound method
    EventTypes,
    DomainEvent,    \* the type all the others derive from
    Publishers,     \* calls of which only the event is of interest
    Observed,       \* bound: the types handlers subscribe to
    MaxChanges      \* bound: subscriptions and their withdrawals

ASSUME ObjectsAssumption == Methods \subseteq Handlers /\ Copies \in Nat \ {0}
ASSUME BusAssumption ==
    /\ DomainEvent \notin EventTypes /\ Observed \subseteq EventTypes \union {DomainEvent}
    /\ Publishers \subseteq Calls /\ MaxChanges \in Nat

VARIABLES
    at,             \* what each call does next
    registered,     \* _handlers: how often each object is listed for a type
    subscribed,     \* history: subscriptions of each object less withdrawals
    calling,        \* the objects a publication has yet to call
    heard,          \* history: how often an object was called with a call's event
    audience,       \* history: the subscribers when the call's event was published
    changes         \* only for the bound

bus == <<registered, subscribed, calling, heard, audience, changes>>

Types == EventTypes \union {DomainEvent}
Objects == {o \in Handlers \X (1..Copies) : o[1] \in Methods \/ o[2] = 1}
ObjectsOf(h) == {o \in Objects : o[1] = h}
None == [o \in Objects |-> 0]
Listed(type) == IF type \in DOMAIN registered THEN registered[type] ELSE None

BusTypeOK ==
    /\ DOMAIN registered \subseteq Types
    /\ \A type \in DOMAIN registered : registered[type] \in [Objects -> Nat]
    /\ subscribed \in [Types -> [Objects -> 0..MaxChanges]]
    /\ calling \in [Calls -> [Objects -> Nat]]
    /\ heard \in [Calls -> [Objects -> Nat]]
    /\ audience \in [Calls -> SUBSET Objects]

BusInit ==
    /\ registered = [type \in {} |-> None]
    /\ subscribed = [type \in Types |-> None]
    /\ calling = [c \in Calls |-> None]
    /\ heard = [c \in Calls |-> None]
    /\ audience = [c \in Calls |-> {}]
    /\ changes = 0

Subscribe(o, type) ==
    /\ changes < MaxChanges
    /\ changes' = changes + 1
    /\ registered' =
         [t \in DOMAIN registered \union {type} |->
            IF t = type THEN [Listed(t) EXCEPT ![o] = @ + 1] ELSE registered[t]]
    /\ subscribed' = [subscribed EXCEPT ![type][o] = @ + 1]
    /\ UNCHANGED <<at, calling, heard, audience>>

\* list.remove() takes the first place whose object equals the handler, which
\* may be that of another object of it; its own subscription goes, if it has one.
Unsubscribe(h, type) ==
    /\ changes < MaxChanges
    /\ changes' = changes + 1
    /\ \E o, own \in ObjectsOf(h) :
          /\ Listed(type)[o] > 0 /\ subscribed[type][own] > 0
          /\ subscribed[type][o] > 0 => own = o
          /\ registered' = [registered EXCEPT ![type][o] = @ - 1]
          /\ subscribed' = [subscribed EXCEPT ![type][own] = @ - 1]
    /\ UNCHANGED <<at, calling, heard, audience>>

\* Mutant of OncePerHandler: the repetitions stay.
PerEntry(list) == list

\* By id(), not by equality.
OncePerHandler(list) == [o \in Objects |-> IF list[o] > 0 THEN 1 ELSE 0]

\* The list of the type is extended by itself and by that of DomainEvent.
Publish(c, type) ==
    LET collected ==
          [o \in Objects |-> 2 * Listed(type)[o] + Listed(DomainEvent)[o]]
    IN  /\ registered' =
             [t \in DOMAIN registered |-> IF t = type THEN collected ELSE registered[t]]
        /\ calling' = [calling EXCEPT ![c] = OncePerHandler(collected)]
        /\ audience' =
             [audience EXCEPT ![c] =
                {o \in Objects : subscribed[type][o] + subscribed[DomainEvent][o] > 0}]
        /\ UNCHANGED <<subscribed, heard, changes>>

\* A caller of which nothing else matters.
Announce(c) ==
    /\ c \in Publishers /\ at[c] = "idle"
    /\ \E type \in EventTypes \intersect Observed : Publish(c, type)
    /\ at' = [at EXCEPT ![c] = "publishing"]

\* What a handler raises is dropped, so each is called whatever the others do.
CallHandler(c) ==
    /\ at[c] = "publishing"
    /\ \E o \in Objects :
         /\ calling[c][o] > 0
         /\ calling' = [calling EXCEPT ![c][o] = @ - 1]
         /\ heard' = [heard EXCEPT ![c][o] = @ + 1]
    /\ UNCHANGED <<at, registered, subscribed, audience, changes>>

Published(c) ==
    /\ at[c] = "publishing"
    /\ calling[c] = None
    /\ at' = [at EXCEPT ![c] = "done"]
    /\ UNCHANGED bus

Subscription ==
    \E type \in Observed :
        (\E o \in Objects : Subscribe(o, type)) \/ (\E h \in Handlers : Unsubscribe(h, type))
Delivery == \E c \in Calls : CallHandler(c) \/ Published(c)

-----------------------------------------------------------------------------
(* No object is called twice with an event, and whatever was subscribed to *)
(* its type or to DomainEvent when it was published has been called once   *)
(* by the time publish() returns: however often the lists were extended    *)
(* with themselves, whatever was withdrawn in between, and whatever was    *)
(* subscribed while the handlers were being called.  A function hears an   *)
(* event once, a bound method once for each object it was subscribed as.   *)
SubscriberHearsOnce ==
    \A c \in Calls, o \in Objects :
        /\ heard[c][o] <= 1
        /\ at[c] = "done" /\ o \in audience[c] => heard[c][o] = 1
=============================================================================
