# A verification project for the TechX Corp storefront

TLA+ models of the storefront in `src/techx-corp-platform`, TLC configurations that check them
on small instances, and TLAPS proofs of what matters most for every instance. Every definition
is translated from the source; `PROJECT.json` ("map") names the lines each one stands for.
Paths below are relative to `src/techx-corp-platform/src` unless they start with `src/`.

## 1. The system

A shop of some eighteen services in a dozen languages, called over gRPC or HTTP, with
PostgreSQL, Valkey, Kafka and flagd behind them (`src/onboarding/ARCHITECTURE.md`).

| Component | State it keeps | Operations | Talks to |
|---|---|---|---|
| checkout (`checkout/main.go`, Go) | none but the handlers running and one Kafka producer | `PlaceOrder` | cart, product-catalog, currency, shipping, payment, email, Kafka, flagd |
| Kafka producer (`checkout/kafka/producer.go`) | messages in the library, two answer channels shared by everyone | `sendToPostProcessor`, overload goroutines, error logger | Kafka |
| cart (`cart/src`, C#) | carts in Valkey; the connection, its flag and its lock | `AddItem`, `GetCart`, `EmptyCart`, connection events | Valkey, flagd |
| accounting (`accounting`, C#) | one EF context for the life of the process; the tables; the group's offset | `Consume`, `ProcessMessage`, background commit | Kafka, PostgreSQL |
| fraud-detection (`fraud-detection`, Kotlin) | a counter | consume, log | Kafka, flagd |
| money (`checkout/money`), currency (C++), shipping (Rust), quote (PHP) | the table of rates; otherwise none | `Sum`, `MultiplySlow`, `Convert`, `get_quote`, `ship_order` | each other |
| payment (JS), email (Ruby) | none (a leak under a flag) | `charge`, `send_order_confirmation` | flagd |
| frontend's server (Next.js) | none | API routes, services, gateways over the gRPC stubs of `protos/demo.ts` | every service |
| frontend in the browser (React) | the session in `localStorage`, shared by the tabs; per tab what its modules keep of it, react-query's cache, the forms, the question put to the assistant | pages, providers, mutations | its API routes |
| flagd-ui (`flagd-ui`, Elixir) | the flag document in a GenServer and in a file | `read`, `write`, `replace`; pages | the file flagd watches |
| product-catalog, product-reviews, llm, recommendation, ad | tables that are only read; a recommendation cache; a CPU-load singleton | reads, tool-call conversation | PostgreSQL, flagd |
| load-generator, proxies, telemetry, charts, Terraform | - | - | - |

What is hard in it:

- **Checkout is a saga without compensation.** Six services act one after the other; any call
  may fail, time out or be answered after the handler left; the process may stop between any
  two (`Serve` blocks before the signal handler is installed, `main.go:255`). What was charged
  or shipped stays so.
- **Carts are read, changed and written back** without a transaction, by several calls of one
  customer at once, and emptied by checkout after it charged for a copy read earlier.
- **Accounting commits offsets in the background**, before or after the order is saved, and
  keeps one change tracker forever: what failed to be saved is saved again with every later
  message, and a row that conflicts blocks all of them.
- **The producer's answers go to whoever reads first**, and some are read by nobody.
- **The connection to Valkey is kept by a flag** that late events of several multiplexers move.
- **The flag document has two writers of the whole**: pages opened at different times, and a
  file that is truncated before it is written.
- **Money** is converted through doubles and added up in 32-bit nanos.
- **The browser shows copies.** Each tab reads the session once per module and keeps it; the cart
  is a cached query that loads, changes and answers that come late may leave old; the page of a
  product stays mounted while its product changes.
- **The stubs are read by other versions.** Fields that are unknown, in another order, zero,
  absent or too large must do no harm, in any of fifty messages nested in each other.

`PROJECT.json` lists every hazard at its line with the properties that cover it, or why none
does.

## 2. The modules

| Module | Models | Shown to implement |
|---|---|---|
| `OrderSaga` | what a caller of `PlaceOrder` may rely on (abstract) | |
| `Checkout` | concurrent `PlaceOrder` and `AddItem` handlers, calls in flight, services, carts, crashes | `OrderSaga` |
| `Ledger` | what a reader of the accounting tables may rely on (abstract) | |
| `Accounting` | the consumer loop, offsets, EF context, tables, restarts, database failures | `Ledger` |
| `FlagDocument` | the flags as one document changed by operations in order (abstract) | |
| `FlagStorage` | the Storage server, its mailbox and file, pages, failures, restarts | `FlagDocument` |
| `OrderProducer` | handlers, overload goroutines and error logger on the shared channels | |
| `CartConnection` | `EnsureRedisConnected`, its lock and flag, multiplexers and their events | |
| `Money` | `money.Sum` and what it is built of; the total the pages compute | |
| `Pricing` | one order from the cart page to the charged total | uses `Money` |
| `DemoProto` | the messages and methods of `frontend/protos/demo.ts`, as lists of fields | |
| `Wire` | what the generated functions of any message do with its fields | any lists of fields (`Schema`) |
| `Calls` | one gRPC call through them, between versions | uses `Wire`; `MCCalls` gives it `DemoProto`'s lists |
| `Session` | the shopper's session in `localStorage`, read and written by several tabs | |
| `Storefront` | a tab's cached cart, its changes with their handlers, the checkout form | |
| `Reviews` | ratings and percents of a list of reviews | |
| `ProductPage` | questions, reviews and recommendations on a page that changes its product | uses `Reviews` |
| `CheckoutProofs`, `AccountingProofs`, `FlagStorageProofs`, `OrderProducerProofs`, `CartConnectionProofs`, `CallsProofs`, `StorefrontProofs`, `PagesProofs` | theorems (`PagesProofs`: of `Pricing`, `ProductPage` and `Session`) | |
| `MC...` | instances for TLC | |

Operators described as mutants stand before the definition they corrupt. They are plausible
bugs, used by nothing: replacing the definition by its mutant must break the property
`PROJECT.json` pairs them with, which shows that the property depends on that piece of code.

### Checkout

`pc[r]` is the statement of `PlaceOrder` the handler of `r` is at, or the service it waits for.
A call is a message in `wire`; the service acts (`Acts`, appended to `did[r][s]`) or not
(`Refuse`); the answer in `replies` reaches the handler only if it still waits. `GiveUp` covers
error answers, broken connections and ended contexts alike, for the code treats them alike. So
an effect may happen for a handler that has gone, or that was killed. `Prepared` and
`PrepareFails` stand for the read-only calls (products, conversion, quote): they change nothing,
and any of them failing ends the order with `internal`. An empty cart is refused by the quote
service and not by checkout. `CartNotEmptied` and `Mailed` go on after an error as the code
does. `Published` waits for an acknowledgement or the end of the context and may then send
`Overload` copies; `producer` is `"off"` (no `KAFKA_ADDR`), `"nil"` (Kafka could not be reached
at start: the first publish panics) or `"up"`. `AddItemRead`/`AddItemWrite` are the two awaits of
`AddItemAsync`. `added` and `clean` are history: what each customer added, and which customers
never had overlapping or broken calls.

Abstracted: what is charged is a function of the cart read, so effects are recorded by cart;
amounts are `Pricing`'s; cards are good or refused.

### Accounting

`position` is the offset stored when `Consume` hands a message over, `committed` the one the
background commit sent. `known` and `pending` are the change tracker: orders it tracks, and rows
still to insert. `AlreadyTracked` is `Add` throwing on a tracked key; `NoAddress` the null
address dereferenced after the order and its items were added; `SaveConflicts` a duplicate
primary key rolling back the transaction with everything pending; `SaveUnanswered` a commit whose
answer is lost. Every stop is `Crash`, as `host.Run` is reached only after `StartListening`.
Messages that cannot be parsed are left out (the only producer is checkout).

### FlagStorage

`mailbox` and `work` are the GenServer's mailbox and the operation whose result is being written;
a read (`Mount`, `Client`) waits there like a write, so `FlagDocument` has it as an operation too.
Between `Handle` and `Written` the file is `Broken`, since `File.write!` truncates first. A cast to
a server that is down is lost without notice (`Cast`). JSON of another shape makes `Map.update`
raise (`WriteRaises`) and the supervisor start the server again from the file. Documents are
reduced to their shape and the default variant of each flag. The supervisor's limit on restarts
is left out: a server that may not start again is covered by `Restart` not being fair.

### OrderProducer and CartConnection

In `Checkout` a publish is one call that is answered or given up. `OrderProducer` opens it: the
producer's input, `Successes` and `Errors` are shared, and the states of a handler are those of
`sendToPostProcessor`'s two `select`s. sarama is external: it has room for `Capacity` messages, a
written message keeps its place until its success is read, and errors are always read (by the
logging goroutine of `producer.go:54` if by no one else). All overload goroutines of a handler
send the same `*ProducerMessage`, which the library writes to: that data race is not modelled.

In `Checkout` a cart operation succeeds or fails; `CartConnection` shows when. Program points are
those of `EnsureRedisConnected`; multiplexers are numbered as they are made; `live` are the
connected ones; an event is delivered later, in any order, and moves the one flag whichever
multiplexer it is of. StackExchange.Redis is external: with `abortConnect=false` a first attempt
may return unconnected, and multiplexers reconnect by themselves. `host = "badhost"` is the store
`cartFailure` selects. `InternalError` only prints, and `Ping` changes nothing.

### Money and Pricing

`Normal` is the branchy half of `Sum`; `Int32` wraps as Go's `int32` does. `Convert` is exact
arithmetic on nanos except where the code is not: the fraction drops the zeros in front of the
nanos (`getDouble`), a code the table lacks has rate 0, and a quotient that is a whole number of
nanos may come out one nano short, as a double may. `ShortPrices` and `ShortCounts` name the cases
in which it does, so an instance decides them; this holds for amounts a double has 10 digits to
spare for (below some four million units). The instances use amounts of two decimals
(`NanosMod = 100`); prices in the catalogue have no more.

### DemoProto, Wire and Calls

`demo.ts` has, for each of fifty messages, the same seven functions, generated from the list of the
message's fields. `DemoProto` is those lists and the methods of the eleven services; `Wire` is the
seven functions, once, for any such lists (its line numbers are those of `Product`). A message is a
function of property names, a name outside its domain is a property the object lacks; bytes are a
sequence of tags with their values. The functions of a message call those of the messages inside:
`MessageFns(fns)` are the tables of the functions of every message that holds only messages of `fns`,
and `Levels` builds them from the innermost out, four times, as deep as `demo.ts` nests
(`PlaceOrderResponse`, `OrderResult`, `OrderItem`, `Money`). Numbers have two limits, what fits an
`int32` (`MaxInt32`, refused by the writer) and what a double can hold (`MaxSafe`, refused by
`longToNumber`). The writer and reader of `@bufbuild/protobuf` are external.

`Calls` sends a request and an answer through them. The other side may be of a newer version, whose
messages end with a field unknown here, at every depth (`NewField`), and fields may have changed places
(`Reorder`). `Settle` is the gateways' promise. Negative numbers, repeated tags of a field that is not a
list, and tags that end a group are left out: no caller has the first, no writer makes the others.

### Session

`stored` is `localStorage`'s item, `captured[t][m]` what module `m` of tab `t` keeps of it from
`const {...} = SessionGateway.getSession()`. The two `localStorage` calls of `getSession`, and the
read and the write of `setSessionValue`, are separate steps (`doing`), since tabs are processes of
their own and storage has no lock; a tab may be closed between any two. `v4()` is the number of the
load. `overlapped` and `clears` are history.

### Storefront

`data`, `fetch` and `got` are react-query's cache: one entry per currency, its data, the load in
flight and what that has read. React-query is external and modelled by what the code relies on: one
load of a key at a time; `invalidateQueries` loads only the entry on the page anew, giving up a load
in flight if the entry has data (`Invalidated`); a load that fails is tried again while it is shown;
data stays until a load succeeds or the entry is unused for `gcTime`. `server`, `waiting` and `basket`
are the three mutations and where their handlers are. The work of the services behind a handler is
split where it can be overtaken: `ItemRead` and `ItemAdded` are the read and the write of
`AddItemAsync`, with an await between them (`ValkeyCartStore.cs:148` and `173`); `CartRead`, `CardCharged`
and `OrderedCartEmptied` are `Checkout`'s order. `elsewhere` is an addition of another tab between its
read and its write. `Fail` is an error before the change or after it (the cart read back in
`POST /api/cart`, the products looked up in `POST /api/checkout`), `GivenUp` a broken connection while the
handler goes on, `ChargedInVain` an order that fails once the card is, or will be, charged (the charge is
not answered in time, the shipment fails), `CartNotEmptied` the dropped error of `EmptyCart`. `paid` is
what each order of this tab has charged the card for, orders that failed included; `spoilt` are the
orders `PaidOnce` excuses. Other tabs add items and empty the cart; what orders of theirs charge is
not counted. `Mounted`: the
form exists while the cart shown has items, and `typed` goes with it. Items are named by the request
that added them; quantities and prices are `Checkout`'s and `Pricing`'s.

### ProductPage and Reviews

The providers of the page stay mounted when `productId` changes. `asked`, `flight`, `tracked`, `answer`
are the assistant's mutation: a later `mutate` makes the observer follow the new one, the others go
on. Only the text field is blocked while an answer is awaited, not the quick prompts. A `Navigate` to
the same product is leaving and coming back. `Reviews` counts scores in tenths: `Math.round`, the
clamp, then largest remainders; `Short` lists the shares (up to 100 reviews) whose double falls below
the whole percent it should be. Recommendations follow the ids all the way: the list becomes one
string in the URL (`Query`), the route hands the string on as a list, of which the stub writes one
character per element (`Characters`), and `get_product_list` joins and splits them (`RequestedIds`).

## 3. The runs

| Run | Instance and bounds | Shows |
|---|---|---|
| `checkout` | 2 `PlaceOrder` and 2 `AddItem` calls of any of 2 customers, 1 product, at most 2 units, 1 copy, 1 crash or lost cart | `ImplementsSaga`, `FlightInv`, `NothingBoughtWhenEmpty`, `BoughtWasAdded`, `UnitsConserved` |
| `accounting` | 3 orders (one without an address), 4 messages, 2 restarts, 1 database failure | `ImplementsLedger`, `NothingForgotten`, `RecordedUnlessFaulty`, `PoisonedUntilRestart`, `NeverStuck` |
| `accounting_loss` | 3 messages, 1 restart | violation of `EveryOrderRecorded` |
| `flags` | 1 flag of 2 variants, a dashboard, 2 editors, 3 operations, 1 failure | `ImplementsDocument`, `FileIsState`, `NoPageWaitsForever` |
| `pricing` | carts of up to 2 of 4 products, quantities 1 to 3, USD, EUR, GBP and an unlisted code | `NeverPanics`, `TotalIsExact`, `OrderPageAgrees`, `ChargedAsShown` |
| `pricing_convert` | the same | violation of `ConversionKeepsPrice` |
| `order_producer` | 3 orders with a copy each, room for 2, 1 failing message | `AnswersAddUp`, `AnsweredUnlessLogged`, `AcceptedUnlessFull` |
| `cart_connection` | 3 calls, 2 failing connections, either host | `OneThreadConnects`, `EveryCallEnds`, `ServedAgain` |
| `calls` | every method; requests and answers with all fields or none, but for one; at most 2 swaps of fields | `OnlyUnfitRefused`, `RequestArrives`, `AnswerArrives`, `JsonKeepsMessage` |
| `session` | 2 tabs, 2 modules, 2 currencies, 3 loads of the shop, 1 clearing of the storage | `SameUser`, `UserKept` |
| `storefront` | 2 currencies, 2 changes, 1 failure or change in another tab, a cart with an item | `ShownIsCart`, `PaidOnce`, `FormKept` |
| `product_page` | 3 products whose ids share characters, 2 questions, 41 lists of reviews | `AnswersThePage`, `SuggestsOthers`, `PercentsAddUp` |

`checkout`, `accounting`, `order_producer`, `cart_connection` and `storefront` also check their module's
`TypeOK`. `CHECK_DEADLOCK FALSE` is set in the back-end runs and `session`, because the calls,
messages, operations and loads of an instance are finitely many: the system stops when they are
done. `calls`, `storefront` and `product_page` never stop and are checked for deadlock.

Why the bounds are enough to be of interest: two orders and two additions give every overlap of a
pair (two orders of one cart, an addition between `GetCart` and `EmptyCart`, a stale write after
it), and customers share nothing else. Four messages with two restarts allow an order to be sent
twice, redelivered, saved without an answer and then poison the context before another arrives.
Three operations let a malformed document be saved, raise, restart and raise again. Room for two
with three orders lets answers nobody reads fill the producer. Two failing connections allow an
old and a new multiplexer to send events that cross. Three loads of the shop by two tabs let a tab
close and come back between the read and the write of the other. Two changes and one trouble let an
order be reported as failed and be placed again, a load overlap a change, and a change be made by a
handler nobody waits for. The cart has an item at first, so both changes may be orders of it while the
other tab's addition is between its read and its write: an addition and two orders, of which a stale
write makes the second charge the item again. Dropping that case from `spoilt` makes TLC find it. A
third change of the tab is beyond TLC with two currencies; the theorem has any number. Ids such as 1,
12 and 21 make an id out of characters of others, and 3, 6, 7 and 50 reviews have remainders that are equal,
different, and lost in a double. The bounds are constants of the modules:
`MaxQuantity`, `MaxFaults`, `Overload`; `MaxLog`, `MaxCrashes`; `MaxSent`; `MaxLines`; `Capacity`,
`MaxFailed`; `MaxDrops`; `MaxSwaps`; `MaxLoads`, `MaxClears`; `MaxRequests`, `MaxTroubles`; `MaxQuestions`.
Symmetry is used in `checkout`, `session` and `storefront`, which check no liveness.

### Fairness

The modules of the frontend assume none: their properties are about what is shown, at any time.

- `Accounting!FairSpec`: the consumer loop takes the next message, processes the one in hand, and
  the client's commit timer fires. `Crash` and the failures of the database are not fair.
- `FlagStorage!FairSpec`: a GenServer that runs handles its messages. Restarts, pages and failures
  are not fair; a page is answered or, when the server stops, told (its call exits).
- `OrderProducer!FairSpec`: sarama takes and answers messages, and a goroutine whose channel
  operation stays possible performs it. Contexts need not end.
- `CartConnection!FairSpec`: threads run, multiplexers go on reconnecting and their events are
  delivered. Connections need not fail. The lock needs no more than weak fairness, as the calls
  are finitely many.

### What the violations say

1. `EveryOrderRecorded` (`accounting/Consumer.cs:148`): an order on the topic may never be booked.
   Its offset is committed though `SaveChanges` has not run or has failed; or a redelivered order
   makes every later save conflict until the next restart, which then starts behind them.
2. `ConversionKeepsPrice` (`currency/src/server.cpp:144`): 57.08 is converted as 57.80; the cart
   page, which does not convert US dollars, shows 57.08 and the card is charged 57.80.

Some passing properties state their exception in the formula, and the exception is what to know:
`AnsweredUnlessLogged` (a handler without a deadline may wait for good once the logging goroutine
has taken an error meant for it or for an overload goroutine) and `AcceptedUnlessFull` (when as
many handlers as the producer has room for gave up, it may take no message any more);
`NeverPanics` (prices below half a unit are excepted, for 0.2 + 0.2 becomes (1, -0.6) in `Sum`, which
the next `Sum` refuses); `SameUser` (two tabs that find no session at once each keep their own user,
so a cart page may order the cart of a user whose cart it does not show); `ShownIsCart` (after a change
that was reported as failed but was made, or one confirmed while the first load is in flight, the
page shows the old cart until it is loaded again); `PaidOnce` (an item may be charged twice by two
orders that overlap, as neither button is disabled while one is under way; when the cart stays full
after a charge, because the shipment or the emptying failed; or when an addition read the cart before
an order emptied it and writes it back after); `UnitsConserved` (the same cases, as calls of a customer
that overlap or break, and so lost additions too). `ChargedAsShown` states what a price in dollars is
read as: without the zeros in front of its nanos, so that 57.08 on the page is charged as 57.80.

## 4. The proofs

All theorems hold for every value of the constants that the modules' named assumptions allow:
bounds are naturals, `Addressed \subseteq Orders`, the orders of an instance of checkout or of the
producer are finite and the producer has room for one message, `USD \in Currencies`, `None` is no session and
no cart. `PricingAssumption`: the catalogue is in dollars (`init.sql` has no other prices) and rates are
positive. `QuoteAssumption`: shipping an item costs more than a unit of every listed currency, as 8.99
dollars do at the rates of `server.cpp`. `PageAssumption`: catalogue and lists of reviews are finite, ids
hold no comma. `SchemaAssumption`: two fields of a message differ in number and in name, and messages
nest at most four deep; `ObjectsAssumption`: what an object has for a field is of the field's kind, and
no number is negative; `LimitsAssumption`: the largest `int32` is below the largest safe integer.

- **`CheckoutProofs`.** `TypeCorrect`; `Flight`: with `TypeOK`, `FlightInv` is inductive. It ties
  each message in flight to its handler and to the effects so far, which is what is missing from the
  bare statement "charged at most once": a charge that is still on the wire has not happened and no
  second one can be sent. `OrderContract` (`ImplementsSaga`) maps every step to a step of
  `OrderSaga` or a stutter using that invariant. `NothingForNothing` and `NothingInvented` need that
  copies of a cart (`prep`, `base`) never hold more than was added. `UnitsAddUp` (`UnitsConserved`)
  is a balance for the customers whose calls never overlapped and never broke: what was added is in
  the cart or was shipped. Its invariant, `CleanInv`, says that such a customer has one call served
  and no message of an earlier one left (`Alone`), that no effect is to come that nobody waits for
  (`Awaited`), that the call's copy of the cart is the cart (`Current`), that what is paid is
  shipped and what is shipped has left the cart but at these very statements (`SettledCalls`), and
  the balance itself, in which the units of an order that is leaving are in both (`Balanced`); units
  shipped are a sum over the finite set of orders.
- **`AccountingProofs`.** `IInv` is `TypeOK` with: an order is in the tables or in the context whole
  or not at all (`Whole`), what is held was published (`FromTopic`), the message in hand is the last
  one taken (`HandIsLast`), what is tracked is recorded or pending (`Kept`), and what more is true
  before the first fault (`Faultless`). From it follow `NoneForgotten`, `AllRecorded`, `Poisoning`
  (an action property) and `KeepsLedger` (`ImplementsLedger`).
- **`OrderProducerProofs`.** `AddUp`: the sizes of the sets on both sides move together with each
  step (library facts on cardinality). It needs that the goroutines of an order are idle until its
  handler is done, and for the type of `logged` that errors are counted once. `AnswerIsDue`: until
  an error is logged away, whoever waits has an answer due or unread.
- **`CartConnectionProofs`.** `OneConnects`: `made <= 1 + causes` is not inductive; `OneIsDue` says
  that while the flag is down, and no call is between `Connect` and `Open`, a failure is left that
  no multiplexer was made for. Mutual exclusion (`OneHolder`) carries it over `Recheck`.
- **`FlagStorageProofs`.** `FileShowsState` with `TypeCorrect`: `TypeOK` and `FileIsState` are
  inductive together; the one hard step is `Written`, and a restart reads the state back from the
  file. `KeepsDocument` (`ImplementsDocument`): each step of the server, its mailbox and its pages
  is an operation of `FlagDocument` sent or taking effect, the loss of those waiting, or a stutter.
  The document's queue is the operation being written with the mailbox behind it; `Writing` says
  that an operation is being written only by a server that runs and only if it applies, and that a
  file that is not half written holds the state.
- **`PagesProofs`, of `Session`.** `OneShopper` (`SameUser`) and `ShopperKept` (`UserKept`, an action property):
  while no two tabs founded a session at once and nothing was cleared, every session a tab keeps or
  is about to write has the stored user, and a tab about to write the first one is alone in that
  (`SingleUser`).
- **`StorefrontProofs`.** `ShownCart`: `Fresh` says that while no change is waited for, a load that
  has read the cart has read what it is, and the entry shown is the cart unless it is being loaded,
  but for the excused entries. `NothingPaidTwice` (`PaidOnce`): `Added` (what is in carts, about to be
  written, in baskets and in orders was added, or read to be written with its addition) and `Apart` (an
  order that is not spoilt is the only one in the making, and once it has emptied the cart what it
  charged is `Gone`: not in the cart, in no cart that an addition will write, in no basket). The hard step
  is `OrderedCartEmptied`: with no addition between its read and its write and no other order in the
  making, there is no copy of the old cart left. `FormIsKept` needs that
  loads that fail and changes that are confirmed leave the data.
- **`PagesProofs`, of `Pricing`.** `OrderInv` follows one order: the cart is a list of lines, not an
  empty one (`CartSound`); each cost, and the shipping, is what `Convert` made of the price, in the
  order's currency and with nanos in range, and what was shown is kept (`Converted`); the running
  total is, in nanos, the exact sum of the lines behind, and the line's own of the turns of
  `MultiplySlow` behind (`Added`); and if every cost is half a unit or more, all of them are amounts
  the next `Sum` takes (`Adds`). From it: `MustNeverPanics` (`NeverPanics`), `AddsExactly`
  (`TotalIsExact`), `OrderPageShowsCharge` (`OrderPageAgrees`) and `CartPageShowsCharge`
  (`ChargedAsShown`): a price that is converted has the value of the price as it was read (`Double`), or a
  nano less.
- **`PagesProofs`, of `ProductPage`.** `AnswersTheQuestion` (`AnswersThePage`): questions under way
  have been asked, and the page follows the last one or none. `BarsShowReviews` (`PercentsAddUp`):
  the shares cut off come to as many whole percents as the largest of them are raised by, so no share
  with nothing cut off is raised and none that a double made a whole percent too small is left.
  `OthersSuggested` (`SuggestsOthers`): every id of the query lies in the string between ends or commas
  (`Piece`), the characters joined again are the string, so splitting it gives the id back; what is
  recommended has none of them.
- **`CallsProofs`.** `RefusalIsJust` (`OnlyUnfitRefused`), `RequestsArrive` (`RequestArrives`),
  `AnswersArrive` (`AnswerArrives`) and `JsonLosesNothing` (`JsonKeepsMessage`), for any messages that
  meet the assumptions. Reading bytes that were put together is reading one part after the other
  (`ReadConcat`, `ReadFlattened`). `FieldWritten`: reading what was written of one field sets that
  property of the message read so far and no other; `MessageWritten` goes through the fields in order,
  so what is read at the end is the message with its gaps filled, or the error of a number that a
  double cannot hold. Both speak of the messages inside through `Good`, which says that the functions in
  a table are each other's inverses in this sense; `GoodAbove` lifts it by one level, from the empty
  table to `Fns` (`AllGood`). `SwapRead`: two neighbouring tags of different numbers may change places,
  since a turn of the loop changes one property only (`TurnsCommute`; it needs that lists are there to
  be added to). `CallInv` is the inductive invariant: the bytes in flight read as what the given
  message reads as, whatever was swapped.

**Induction over data.** The library's induction theorems take a predicate, which the provers cannot
instantiate. `PagesProofs` states induction of *sets* instead (`LeastNatural`, `LeastSubset`,
`SubsetInduction`: a set of finite subsets that holds the empty one and is closed under adding an
element holds all), gives the set of counterexamples for it, and proves that way what the folds of
the community modules compute: that `SumFunctionOnSet`'s recursive function exists, that it is
additive and monotone; the same for `Fraction`, and for `FlattenSeq`. `CallsProofs` does so by index
(`IndexInduction`) for the loop of `decode` (`RunExists`, `RunEnds`) and `FlattenSeq`, and once per level
for the tables (`LevelsAre`).

**Only model-checked:** the liveness properties (`NeverStuck`, `NoPageWaitsForever`,
`AnsweredUnlessLogged`, `AcceptedUnlessFull`, `EveryCallEnds`, `ServedAgain`), which need fairness and
`ENABLED`. Every safety property, action property and refinement that a passing run checks is stated by a
theorem. That the lists of `DemoProto` meet `SchemaAssumption` is checked by TLC, as are all assumptions
for the values of an instance.

## 5. What is not modelled

- **Reads without state:** product-catalog, choosing ads, the queries of product-reviews, the mock
  language model, image-provider. What they return is a constant or an outcome of the models.
- **A conversation inside one request:** the tool calls between product-reviews and the model keep
  nothing between requests; the answer or the error is what the page sees (`Settled`).
- **Presentation:** layout and styles, the average score and the ads (shown as they come), cypress tests.
- **Things that only burn or log:** fraud-detection's counter, the ad service's CPU load behind
  `adHighCpu` (an unsynchronized singleton: two threads may make two, and the workers of one are
  never stopped), the flags that leak memory.
- **Undefined behaviour without listed outcomes:** `operator[]` inserting into the currency table
  while other threads read it; the shared `*ProducerMessage` of the overload goroutines.
- **Configuration:** charts, Terraform, Envoy, collector, Grafana, Prometheus, Jaeger, OpenSearch.
- **Inside one step:** card validation, e-mail templates, tracing and metrics.
- **Known and not checked by a run:** a replace of the flag document undoes what was saved since the
  page was opened, though `storage.ex:6` names last-writer-wins as what the server prevents; a
  handler of checkout logs the offset of whichever success it took (`main.go:632`); a connection to
  Valkey that came back by itself may be replaced after its late event (`ValkeyCartStore.cs:94`).

## 6. What could follow

The plan of this project was: the checkout saga, the books, the flags, prices, the shared producer
and the cart's connection; then the stubs, the session, the cart page and the product page; then
their proofs. It is built. What would extend it is one module with the topic between `OrderSaga`
and `Ledger` (an order answered "ok" is booked at most once, which today follows from the two
contracts read together).
