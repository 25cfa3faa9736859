--------------------------- MODULE CartConnection ---------------------------
(***************************************************************************)
(* How the cart service keeps its connection to Valkey: concurrent calls   *)
(* that find the flag _isRedisConnectionOpened down make a multiplexer     *)
(* under a lock, and the events of every multiplexer ever opened move the  *)
(* flag, for none is disposed of.                                          *)
(*                                                                         *)
(* A multiplexer reconnects by itself, also when its first attempt failed. *)
(* Its events reach the service later and in any order.                    *)
(***************************************************************************)
EXTENDS Naturals

CONSTANTS Calls,     \* calls of AddItem, GetCart or EmptyCart
          MaxDrops   \* bound on the connections that fail

ASSUME CartConnectionAssumption == MaxDrops \in Nat

VARIABLES host,     \* where the store connects to
          pc,       \* pc[c]: where call c is
          lock,     \* the holders of _locker: at most one call
          opened,   \* _isRedisConnectionOpened
          redis,    \* _redis: a multiplexer, 0 for null
          made,     \* multiplexers made so far; they are numbered
          live,     \* the multiplexers that are connected
          hooked,   \* the multiplexers whose events the service listens to
          events,   \* events on their way: <<kind, multiplexer, drops so far>>
          drops,    \* connections that failed so far
          causes    \* history: failures the service was told of

vars == <<host, pc, lock, opened, redis, made, live, hooked, events, drops, causes>>
network == <<host, live, hooked, events, drops>>

Multiplexers == 1 .. made
PCs == {"new", "lock", "recheck", "connect", "test", "subscribe", "open", "use", "ok", "failed"}

\* The store of the carts is initialized before the first call, and the
\* service does not start when that fails.  The store the flag cartFailure
\* selects is not initialized, and its host does not exist.
Init ==
    /\ host \in {"valkey", "badhost"}
    /\ pc = [c \in Calls |-> "new"]
    /\ lock = {}
    /\ opened = (host = "valkey")
    /\ made = IF host = "valkey" THEN 1 ELSE 0
    /\ redis = made
    /\ live = Multiplexers
    /\ hooked = Multiplexers
    /\ events = {}
    /\ drops = 0
    /\ causes = 0

Go(c, at) == pc' = [pc EXCEPT ![c] = at]
Leave(c) == lock' = lock \ {c}

-----------------------------------------------------------------------------
\* EnsureRedisConnected.

Check(c) ==
    /\ pc[c] = "new"
    /\ Go(c, IF opened THEN "use" ELSE "lock")
    /\ UNCHANGED <<lock, opened, redis, made, network, causes>>

Lock(c) ==
    /\ pc[c] = "lock"
    /\ lock = {}
    /\ lock' = {c}
    /\ Go(c, "recheck")
    /\ UNCHANGED <<opened, redis, made, network, causes>>

\* A mutant of Recheck: the flag is not read again under the lock.
NoRecheck(c) ==
    /\ pc[c] = "recheck"
    /\ Go(c, "connect")
    /\ UNCHANGED <<lock, opened, redis, made, network, causes>>

Recheck(c) ==
    /\ pc[c] = "recheck"
    /\ IF opened THEN Go(c, "use") /\ Leave(c)
                 ELSE Go(c, "connect") /\ UNCHANGED lock
    /\ UNCHANGED <<opened, redis, made, network, causes>>

\* A first attempt to connect succeeds or not, and at a bad host never.
Attempt(i) ==
    \/ host = "valkey" /\ live' = live \cup {i} /\ UNCHANGED drops
    \/ host = "valkey" /\ drops < MaxDrops /\ drops' = drops + 1 /\ UNCHANGED live
    \/ host = "badhost" /\ UNCHANGED <<live, drops>>

\* A mutant of Connect: the lock is left before the slow attempt.
ConnectUnlocked(c) ==
    /\ pc[c] = "connect"
    /\ made' = made + 1
    /\ redis' = made'
    /\ Attempt(made')
    /\ Go(c, "test")
    /\ Leave(c)
    /\ UNCHANGED <<host, opened, hooked, events, causes>>

\* ConnectionMultiplexer.Connect: it returns a multiplexer, connected or not.
Connect(c) ==
    /\ pc[c] = "connect"
    /\ made' = made + 1
    /\ redis' = made'
    /\ Attempt(made')
    /\ Go(c, "test")
    /\ UNCHANGED <<host, lock, opened, hooked, events, causes>>

\* IsConnected and the small test.
Test(c) ==
    /\ pc[c] = "test"
    /\ redis \in live
    /\ Go(c, "subscribe")
    /\ UNCHANGED <<lock, opened, redis, made, network, causes>>

\* A mutant of TestFails: the exception leaves the lock held.
TestFailsLocked(c) ==
    /\ pc[c] = "test"
    /\ redis \notin live
    /\ Go(c, "failed")
    /\ causes' = causes + 1
    /\ UNCHANGED <<lock, opened, redis, made, network>>

\* An exception leaves the lock; the multiplexer stays in the field.
TestFails(c) ==
    /\ pc[c] = "test"
    /\ redis \notin live
    /\ Go(c, "failed")
    /\ Leave(c)
    /\ causes' = causes + 1
    /\ UNCHANGED <<opened, redis, made, network>>

Subscribe(c) ==
    /\ pc[c] = "subscribe"
    /\ hooked' = hooked \cup {redis}
    /\ Go(c, "open")
    /\ UNCHANGED <<host, lock, opened, redis, made, live, events, drops, causes>>

Open(c) ==
    /\ pc[c] = "open"
    /\ opened' = TRUE
    /\ Leave(c)
    /\ Go(c, "use")
    /\ UNCHANGED <<redis, made, network, causes>>

\* The commands on whatever multiplexer the field holds by now.
Use(c) ==
    /\ pc[c] = "use"
    /\ Go(c, IF redis \in live THEN "ok" ELSE "failed")
    /\ UNCHANGED <<lock, opened, redis, made, network, causes>>

-----------------------------------------------------------------------------
\* The multiplexers and their events.

Raise(kind, i) == events' = IF i \in hooked THEN events \cup {<<kind, i, drops'>>} ELSE events

Drop(i) ==
    /\ i \in live
    /\ drops < MaxDrops
    /\ drops' = drops + 1
    /\ live' = live \ {i}
    /\ Raise("failed", i)
    /\ UNCHANGED <<host, pc, lock, opened, redis, made, hooked, causes>>

Reconnect(i) ==
    /\ host = "valkey"
    /\ i \in Multiplexers \ live
    /\ live' = live \cup {i}
    /\ UNCHANGED drops
    /\ Raise("restored", i)
    /\ UNCHANGED <<host, pc, lock, opened, redis, made, hooked, causes>>

ConnectionFailed(e) ==
    /\ e[1] = "failed"
    /\ events' = events \ {e}
    /\ opened' = FALSE
    /\ causes' = causes + 1
    /\ UNCHANGED <<host, pc, lock, redis, made, live, hooked, drops>>

ConnectionRestored(e) ==
    /\ e[1] = "restored"
    /\ events' = events \ {e}
    /\ opened' = TRUE
    /\ UNCHANGED <<host, pc, lock, redis, made, live, hooked, drops, causes>>

-----------------------------------------------------------------------------
EnsureRedisConnected(c) ==
    Check(c) \/ Lock(c) \/ Recheck(c) \/ Connect(c) \/ Test(c) \/ TestFails(c)
        \/ Subscribe(c) \/ Open(c)

Call(c) == EnsureRedisConnected(c) \/ Use(c)

Handler == \E e \in events : ConnectionFailed(e) \/ ConnectionRestored(e)

Next ==
    \/ \E c \in Calls : Call(c)
    \/ \E i \in Multiplexers : Drop(i) \/ Reconnect(i)
    \/ Handler

Spec == Init /\ [][Next]_vars

\* Threads run, multiplexers go on trying to reconnect, and their
\* events are delivered.
FairSpec ==
    /\ Spec
    /\ \A c \in Calls : WF_vars(Call(c))
    /\ WF_vars(\E i \in Multiplexers : Reconnect(i))
    /\ WF_vars(Handler)

-----------------------------------------------------------------------------
\* Properties.

\* Type invariant; the calls between Lock and Leave hold the lock.
TypeOK ==
    /\ host \in {"valkey", "badhost"}
    /\ pc \in [Calls -> PCs]
    /\ lock = {c \in Calls : pc[c] \in {"recheck", "connect", "test", "subscribe", "open"}}
    /\ opened \in BOOLEAN
    /\ made \in Nat
    /\ redis \in 0 .. made
    /\ live \subseteq Multiplexers
    /\ hooked \subseteq Multiplexers
    /\ events \subseteq {"failed", "restored"} \X hooked \X (0 .. MaxDrops)
    /\ drops \in 0 .. MaxDrops
    /\ causes \in Nat

\* "Only at the first thread": however many calls find the connection closed,
\* one new multiplexer is made for one reported failure.
OneThreadConnects == made <= 1 + causes

\* The lock is left on every path: each call comes to an end.
EveryCallEnds == \A c \in Calls : pc[c] # "new" ~> pc[c] \in {"ok", "failed"}

\* No connection will fail any more, all are back, and all events are handled.
AtRest == host = "valkey" /\ drops = MaxDrops /\ live = Multiplexers /\ events = {}

\* Whatever the events of old and new multiplexers did to the flag, the calls
\* that come when the network is at rest are served.
ServedAgain == \A c \in Calls : pc[c] = "new" /\ AtRest ~> pc[c] = "ok"
=============================================================================
