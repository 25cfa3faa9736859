------------------------------ MODULE Session ------------------------------
\* The shopper's session in the browser's storage, shared by the tabs of one
\* browser (frontend/gateways/Session.gateway.ts).  Every module that needs it
\* reads it once, when its code is loaded, and keeps what it read: the API
\* gateway, by whose user the cart is shown and filled; the cart page, by whose
\* user the order is placed; the footer, the tracer and the currency provider.
\* The cart page's code is loaded later than the rest.  A read and the write that
\* follows it are two steps, and another tab may act between them.
EXTENDS Integers, FiniteSets

CONSTANTS
  Tabs,         \* browser tabs showing the shop
  Modules,      \* the modules that read the session when they are loaded
  Currencies,
  USD,          \* the currency of the default session
  None,         \* no session
  MaxLoads,     \* bound: how often the tabs load the shop
  MaxClears     \* bound: how often the storage is cleared

ASSUME ConstantsAssumption ==
  /\ USD \in Currencies
  /\ MaxLoads \in Nat /\ MaxClears \in Nat

\* v4() gives every load of the shop a user id no other has: the number of the load.
Users == 1..MaxLoads
Sessions == [userId : Users, currencyCode : Currencies]
ASSUME NoneAssumption == None \notin Sessions

VARIABLES
  stored,       \* localStorage's item "session"
  own,          \* own[t]: the tab's defaultSession.userId, 0 when it is closed
  captured,     \* captured[t][m]: the session the module m of the tab keeps
  doing,        \* doing[t]: what the tab does between a read and a write
  loads,
  clears,
  overlapped    \* two tabs found no session, neither having written its own

sessionVars == <<stored, own, captured, doing, loads, clears, overlapped>>

Idle == [step |-> "idle"]
Doing ==
  {Idle}
  \cup [step : {"first"}, module : Modules]                       \* getSession, on loading
  \cup [step : {"firstThenSet"}, currencyCode : Currencies]       \* getSession, in setSessionValue
  \cup [step : {"set"}, session : Sessions, currencyCode : Currencies]

\* The session a tab writes when it finds none.
Default(t) == [userId |-> own[t], currencyCode |-> USD]

\* Tabs that found no session and are about to write theirs.
Founding(t) == doing[t].step \in {"first", "firstThenSet"}

TypeOK ==
  /\ stored \in Sessions \cup {None}
  /\ own \in [Tabs -> 0..MaxLoads]
  /\ captured \in [Tabs -> [Modules -> Sessions \cup {None}]]
  /\ doing \in [Tabs -> Doing]
  /\ loads \in 0..MaxLoads
  /\ clears \in 0..MaxClears
  /\ overlapped \in BOOLEAN
  /\ \A t \in Tabs : own[t] = 0 => doing[t] = Idle /\ captured[t] = [m \in Modules |-> None]

SessionInit ==
  /\ stored = None
  /\ own = [t \in Tabs |-> 0]
  /\ captured = [t \in Tabs |-> [m \in Modules |-> None]]
  /\ doing = [t \in Tabs |-> Idle]
  /\ loads = 0 /\ clears = 0 /\ overlapped = FALSE

--------------------------------------------------------------------------

\* The shop is loaded in a tab.
Load(t) ==
  /\ own[t] = 0
  /\ loads < MaxLoads
  /\ loads' = loads + 1
  /\ own' = [own EXCEPT ![t] = loads + 1]
  /\ UNCHANGED <<stored, captured, doing, clears, overlapped>>

\* getItem found nothing: the tab goes on to write its default session.
FoundNone(t, next) ==
  /\ stored = None
  /\ doing' = [doing EXCEPT ![t] = next]
  /\ overlapped' = (overlapped \/ \E u \in Tabs \ {t} : Founding(u))
  /\ UNCHANGED <<stored, captured>>

\* A mutant of LoadModule: the first to read keeps its default whatever is stored.
LoadModuleDefault(t, m) ==
  /\ own[t] # 0 /\ doing[t] = Idle /\ captured[t][m] = None
  /\ captured' = [captured EXCEPT ![t][m] = Default(t)]
  /\ stored' = IF stored = None THEN Default(t) ELSE stored
  /\ UNCHANGED <<doing, own, loads, clears, overlapped>>

\* A module is loaded: const {...} = SessionGateway.getSession().
LoadModule(t, m) ==
  /\ own[t] # 0 /\ doing[t] = Idle /\ captured[t][m] = None
  /\ \/ FoundNone(t, [step |-> "first", module |-> m])
     \/ /\ stored # None
        /\ captured' = [captured EXCEPT ![t][m] = stored]
        /\ UNCHANGED <<stored, doing, overlapped>>
  /\ UNCHANGED <<own, loads, clears>>

\* The shopper chooses a currency: setSessionValue reads the session first.
SelectCurrency(t, c) ==
  /\ own[t] # 0 /\ doing[t] = Idle
  /\ \/ FoundNone(t, [step |-> "firstThenSet", currencyCode |-> c])
     \/ /\ stored # None
        /\ doing' = [doing EXCEPT ![t] = [step |-> "set", session |-> stored, currencyCode |-> c]]
        /\ UNCHANGED <<stored, captured, overlapped>>
  /\ UNCHANGED <<own, loads, clears>>

\* getSession's setItem; it returns what it wrote.
WriteDefault(t) ==
  /\ Founding(t)
  /\ stored' = Default(t)
  /\ \/ /\ doing[t].step = "first"
        /\ captured' = [captured EXCEPT ![t][doing[t].module] = Default(t)]
        /\ doing' = [doing EXCEPT ![t] = Idle]
     \/ /\ doing[t].step = "firstThenSet"
        /\ doing' = [doing EXCEPT ![t] = [step |-> "set", session |-> Default(t),
                                          currencyCode |-> doing[t].currencyCode]]
        /\ UNCHANGED captured
  /\ UNCHANGED <<own, loads, clears, overlapped>>

\* A mutant of WriteValue: it writes the tab's default session with the value.
WriteValueOwn(t) ==
  /\ doing[t].step = "set"
  /\ stored' = [Default(t) EXCEPT !.currencyCode = doing[t].currencyCode]
  /\ doing' = [doing EXCEPT ![t] = Idle]
  /\ UNCHANGED <<own, captured, loads, clears, overlapped>>

\* setSessionValue's setItem: the whole session as it was read, but for the value.
WriteValue(t) ==
  /\ doing[t].step = "set"
  /\ stored' = [doing[t].session EXCEPT !.currencyCode = doing[t].currencyCode]
  /\ doing' = [doing EXCEPT ![t] = Idle]
  /\ UNCHANGED <<own, captured, loads, clears, overlapped>>

\* The tab is closed or goes elsewhere, at any moment.
Close(t) ==
  /\ own[t] # 0
  /\ own' = [own EXCEPT ![t] = 0]
  /\ captured' = [captured EXCEPT ![t] = [m \in Modules |-> None]]
  /\ doing' = [doing EXCEPT ![t] = Idle]
  /\ UNCHANGED <<stored, loads, clears, overlapped>>

\* The browser or the shopper clears the site's storage.
Clear ==
  /\ clears < MaxClears
  /\ stored # None
  /\ stored' = None
  /\ clears' = clears + 1
  /\ UNCHANGED <<own, captured, doing, loads, overlapped>>

TabStep(t) ==
  \/ Load(t) \/ WriteDefault(t) \/ WriteValue(t) \/ Close(t)
  \/ \E m \in Modules : LoadModule(t, m)
  \/ \E c \in Currencies : SelectCurrency(t, c)

SessionNext == Clear \/ \E t \in Tabs : TabStep(t)

SessionSpec == SessionInit /\ [][SessionNext]_sessionVars

--------------------------------------------------------------------------

Undisturbed == clears = 0 /\ ~overlapped

\* All modules of all tabs work for one shopper: the order the cart page places is
\* of the cart the gateway shows.  Excepted are a storage cleared under open tabs
\* and two tabs that both found no session before either wrote one.
SameUser ==
  Undisturbed =>
    \A t, u \in Tabs : \A m, n \in Modules :
      captured[t][m] # None /\ captured[u][n] # None
        => captured[t][m].userId = captured[u][n].userId

\* Unless it is disturbed, no write changes whose session is stored: a currency
\* chosen in one tab never brings back, or puts in, another shopper.
UserKept == [][Undisturbed' /\ stored # None => stored'.userId = stored.userId]_sessionVars
==========================================================================
