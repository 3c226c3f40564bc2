# A TLA+ model of PySIBS

PySIBS is a Python client for the SIBS payment gateway. This directory holds TLA+
modules that model it, the TLC configurations that check them on small instances, and
proofs checked by TLAPS. `PROJECT.json` is the index: the components, the runs, for each
property a mutation of the code that breaks it, the lines each definition stands for, the
findings, the hazards, the theorems.

    tlc -workers 2 -config HTTPClient_unkeyed.cfg MCHTTPClient.tla
    tlapm HTTPClient_proofs.tla

## The system

| part | source (`pysibs/`) | state | operations | talks to |
| --- | --- | --- | --- | --- |
| clients | `client.py`, `async_client.py` | a configuration, one HTTP client | create, MB WAY, card, token, 3DS, status, refund, capture, cancel, close | payloads, HTTP client |
| HTTP clients | `_http.py` | the httpx pool; per call: attempt counter | request, close | gateway (external), retry policy |
| retry policy | `_retry.py` | none (frozen dataclass) | should_retry_status, should_retry_exception, backoff, retry_after_seconds | – |
| idempotency | `idempotency.py` | none | build_idempotency_headers | – |
| payloads, models | `_payloads.py`, `models.py` | none | build and parse bodies | status normalization, money |
| status normalization | `enums.py` | two tables | normalize_payment_status | – |
| money | `money.py` | none | normalize_amount | – |
| 3D-Secure | `threeds.py` | none | redirect, resubmit body | the shopper's browser |
| webhooks | `webhooks.py` | none | decrypt, parse, acknowledge | SIBS (external) |
| deduplicator | `webhooks.py` | a dict of notification ids | seen, is_duplicate | the application's handler |
| handlers | `examples/` | a module-level client | the webhook endpoint | webhooks, the order store |
| validators, configuration, redaction | same names | none | checks of one text, a lookup | – |

What is hard in it:

* A POST moves money. Retrying one whose outcome is unknown charges twice; not retrying
  one that was refused loses a sale; reporting an unknown outcome as a refusal makes the
  merchant charge again. Requests that were given up on are still handled later.
* A call sleeps between attempts, for a time the gateway has a say in; it must end all the
  same, and nothing in that arithmetic may raise after the money has moved.
* One client is shared by threads or tasks, may be closed under them, and tasks may be
  cancelled anywhere.
* Notifications are redelivered until acknowledged, also while the first delivery is
  still being handled; the memory of them is bounded, unlocked, and dies with the process.
  A notification may be refused for many reasons, not all of them foreseen.
* Answers and notifications about one payment overtake one another, are put into one
  vocabulary from several, and are parsed after the gateway has done what it answers.
* Amounts are rounded operation by operation and travel as floats.

What makes each part correct: the request loop charges an order once and says "refused"
only when nothing was or will be charged, within its budget of attempts and of time, and
always ends; the deduplicator lets an id through once per window of `maxlen` ids, never
rejects a new one and never raises; a receiver acts on each notification, and only once; a
status shown to the merchant is one the payment has been in, and the outcome is in the end
known; the merchant's books and the gateway's do not drift apart.

## Modules

| module | models |
| --- | --- |
| `RetryPolicy` | the retry decisions, as operators on a configuration record |
| `HTTPClient` | the request loop with gateway and network; extends `RetryPolicy` |
| `ChargeLedger` | abstract: what a merchant may rely on, without HTTP; `HTTPClient` implements it |
| `Pacing` | one call against the clock: exchanges, sleeps, Retry-After; extends `RetryPolicy` |
| `RecentIds` | the deduplicator's dict as the sequence of its keys |
| `NotificationDeduplicator` | `seen()`, statement by statement; extends `RecentIds` |
| `DuplicateWindow` | abstract: one indivisible question, answered from the `maxlen` ids recorded last; `NotificationDeduplicator` implements it when calls do not overlap |
| `LeastRecentlyUsed` | `NotificationDeduplicator` beside the LRU set its docstring calls it |
| `Json` | decoded JSON values and the Python idioms that read them |
| `StatusNormalization` | from a text to a `PaymentStatus` |
| `Parsers` | from a body to the object a merchant is given, or to pydantic's exception; extends both |
| `Webhooks` | from a webhook request to an event or an exception; extends `Parsers` |
| `WebhookReceiver` | deliveries, handlers, deduplicator, acknowledgements, restarts; extends `Webhooks`, `RecentIds` |
| `PaymentFlow` | one payment from creation to its end; extends `Parsers` |
| `Money` | from an amount to the number the gateway reads |
| `Refunds` | the two sets of books of one payment refunded in parts; extends `Money` |
| `*_proofs` | theorems about the module they are named after; `RecentIds_proofs` holds the lemmas two of them share |
| `MC*` | instances for TLC |

### HTTPClient

`pc[c]` is where call `c` stands in `HTTPClient.request`: `ready` at the top of the loop
(`Send`), `await` inside `self._client.request`, `sleep` in the backoff, `done`.
`ExchangeFails` is the two `except` branches, `Receive` what follows an answer, `Wake` the
end of the sleep with `attempt += 1`. `requests` holds what was sent and is not handled;
nothing is taken out when a call gives up, so `Handle` may carry a request out at any
later time, or never. Several calls may be made for one order (`OrderOf`). The merchant's
part (`MaySubmit`) is the least that makes sense of the question: it submits an order
again when every earlier call was *refused*, or under a key the gateway honours. What
counts as refused (`Refused`) is a validation or authentication error, a rate limit, a
closed client, and an API error with a status in `Unprocessed`.

The retry policy rests on a promise of the gateway that `_retry.py` states: a 429 or 503
was not processed. `HonestGateway` is that promise, extended to 401 and 403, and the
properties that need it name it. `PostsNotIdempotent` says that the application did not
add POST to `idempotent_methods`, which the configuration allows. Without either, only a
key that the gateway honours protects an order (`KeyedOnce`, run `keyed`). "Carried out"
means answered with a 2xx; whether the payment is then accepted or declined is a matter of
`PaymentFlow`.

A call ends with a result, an exception of the library, or one that nothing translates
(`Types`). The latter are: what httpx raises while it builds a request (`BuildFails`: a key
that is not ASCII, which `idempotency.py` lets through, a URL it cannot encode), the
`RuntimeError` of a closed client, httpx's `DecodingError` (`BadEncoding`), the
`ValueError` or `OverflowError` of a Retry-After (`BadRetryAfter`), the `OverflowError` of
the exponential (`Backoff`), the `RecursionError` of a body nested too deep (`BadBody`),
and the cancellation of a task. Which of them may be read as a refusal is what
`RefusalIsFinal` is about: only the closed client's. What ends a program rather than a
call (no memory, an interrupt) is left out.

The synchronous client has no cancellation (`IsAsync = FALSE`); all else is the same code
twice, so the runs take the asynchronous one. Logging, default headers and the text of
errors are left out.

### Pacing

The same loop seen by one call with a clock: `TimesOut`, `ConnectionFails` and `Answered`
are an exchange, `Wake` the end of a sleep. `Backoff` is the set of times `backoff()` may
return (the jitter draws any tick), `RetryAfterSeconds` what a header says; `Pause` takes
both, and computes `2 ** attempt` before the cap as the code does. `since`, `until` and
`asked` say when the sleep began, when it ends and when the answer asked the client back.
A header may make `retry_after_seconds` raise (`HeaderErrors`): digits that `isdigit()`
takes and `float()` does not, a `ValueError`, and a date with an enormous year, hour or
offset, an `OverflowError` that `_retry.py:101` does not catch. It is parsed of answers to
be retried and, by `_map_status_error`, of any other 429 (`HeaderRaises`); an
`OverflowError` may also be that of the exponential. `NoOverflow` tells the two apart,
`BadHeaderIsHarmless` says that none of them hides an effect of a POST. A `max_backoff`
above 292 years, which `time.sleep` refuses, is outside the configurations.
An exchange lasts at most `Waits * Timeout`: httpx applies the timeout to each wait (for
the connection, for each piece of the answer) and not to the exchange, although the
comment at `config.py:95` calls it "total-seconds". A gateway that drips a body for ever
is therefore outside the bound, and outside the fairness of `HTTPClient`.

### NotificationDeduplicator and WebhookReceiver

Each statement of `seen()` is an action, since CPython threads may switch between any two.
`serial` is an event loop or one thread. The dict is the sequence of its keys in insertion
order, which is all the code uses of it. `recorded` and `raised` are history.

The docstring speaks of a bounded LRU set (`webhooks.py:247`, a comment at 256 again), the
comment at 274 of evicting "the oldest inserted id", which is what the code does.
`DuplicateWindow` is the window that results. `LeastRecentlyUsed` adds the history `used`,
the ids asked for last, and the run `lru` shows where the two part: an id that has just
been asked for again is evicted before one that was not.

What threads leave of the window is bounded both ways. An id more than its capacity stays
in the dict for good each time a call raises (a `KeyError` where two took the same oldest
id, a `RuntimeError` where the dict changed under the iterator), and for no other reason
(`MemoryBounded`); there is no other bound, since nothing later evicts more than one id.
Calls that evict at once for one id too many can take it below its capacity, but by less
than their number (`WindowKept`).

`WebhookReceiver` takes `seen()` as one step (`Remember`), as it is on an event loop, and
adds what the deduplicator is for: SIBS keeps sending, in up to `Slots` deliveries of a
notification at once, what it does not hold to be acknowledged; the body is decrypted with
the configured key and parsed, or the handler raises and answers 400 or 500 (`Reject`);
acting on an event may fail; answers may be lost; the worker may restart, with a corrected
key. The repository's handlers do not call the deduplicator; its docstring says where the
call goes. With `usage` "record_first" it is `seen()` before acting, with "check_first"
`is_duplicate()` before and `seen()` after. Neither is right in every respect, and the
runs show which promise each keeps: `ActedOnOnce` the first, `AckedIsProcessed` the
second. `Requests` lists the ways a request may come; what each leads to (`Outcomes`) is
computed by `Webhooks!Event` once, since it depends on the body and the key alone.

### Parsers and PaymentFlow

A body is a value of `Json`. The parsers look fields up in the order the code does, keep
the difference between "not None" and "not falsy", and reject what pydantic rejects
(`Rejected`): a number where a model declares a text. Of an object only what a merchant
acts on is kept.

In `PaymentFlow` the request and the gateway's handling of it are one step; the answer
then travels, may be lost, may be rejected by its parser, and may be overtaken by
notifications. `todo` is where the merchant stands in the flow that `docs/payments.md` and
`docs/cards.md` describe, `order` the status it has last seen, from a response or a
notification. The gateway's phases and the texts it uses are not in the repository:
`Bodies`, `Creations`, `Challenges` and `Cards` give the bodies it may describe each phase
with, and each run says what it assumes. An `action` object that holds nothing but a
redirect is taken for a 3D-Secure action by the code, and here.

### Money and Refunds

Amounts are integers in units of 10^-`Scale`. `RoundHalfUp` is `quantize`, `Accepts` what
`normalize_amount` does not raise on, `Float` the conversion of a `Decimal` to the nearest
float, and `Written` the shortest decimals that read as the same float (those divisible by
every power of ten that any of them is), of which one is sent. The width of a float and of the decimal context are constants, and the run scales
them down together (`Mantissa` 53 to 11, `Precision` 28 to 4, `Exact` 15 to 3): then TLC's
integers suffice and the amounts where a float stops being exact are few enough to try.
`ExactAssumption` (`10^Exact < 2^(Mantissa - 1)`) is the relation between them that the
real numbers have too, so that the theorems hold of 53, 28 and 15.

## Runs

| run | shows | bounds |
| --- | --- | --- |
| `unkeyed` | each order charged once, refusals final, answers true, no overlap, budget, ledger implemented; `IInv` is an invariant | two calls for one order, two for another of which one has an invalid key; 0 or 2 retries, and one configuration that also retries 408 and 500; one status for each branch of the error mapping; tasks cancelled at any time; an exponential that overflows at the second retry |
| `keyed` | one charge per keyed order; every call that begins ends | two calls under one key at the same time, and a GET; a gateway that answers 503 after the fact; no retries, or one with POST idempotent; close and cancellation at any time |
| `pacing` | a call ends in time; it is not back before it was asked; what the header and the exponential can raise is confined | three configurations, every form of header, dates in the past, near, far and beyond a C integer; a float of three exponents for 1024 |
| `dedup` | one call at a time: window, no exception, `DuplicateWindow` implemented; by threads: no new id is taken for a duplicate, and how far the memory departs from its capacity | 4 ids, capacity 2, 5 recordings, 2 workers: ids are evicted and come back |
| `dedup_twice` | *violation*: two threads both get "fresh" | 3 ids, capacity 2, 4 recordings |
| `lru` | *violation*: an id asked for again is evicted before one that was not | one worker, 3 ids, capacity 2, 4 recordings |
| `webhooks` | `seen()` first: acted on once between restarts; `is_duplicate()` first: what is acknowledged was processed; either way a good notification is in the end acknowledged | one good notification, two deliveries of it at once, beside one of each of ten kinds, good or refused; each key; capacity 1 or 2; one failure, loss and restart |
| `lost` | *violation*: `seen()` first loses an event when acting fails | 2 notifications, one failure |
| `flow` | no status is seen that the payment was never in; a challenge only when raised; the outcome of a purchase is learned by a merchant that holds the id | every transaction type, method, operation and shape of action; unknown, blank and missing texts; answers that a parser rejects |
| `authorized` | *violation*: an authorization is shown as captured | the texts of `docs/internal-notes.md` for cards |
| `mistyped` | *violation*: `create_payment` raises what is no `SIBSError` | one numeric signature |
| `amounts` | the books differ by half a minor unit an operation at most; up to 15 digits arrive as they were normalized | currencies of 2, 0 and 3 decimals; 14 amounts around ties and limits, and one of a wrong type; 5 operations |

The bounds are enough in this sense: two calls for one order and two requests of one call
are what a double charge takes, and the calls for the other order tell the order apart
from the client; two retries let a second retry follow a late first one; a capacity of two
has an oldest and a newest id; two deliveries of one notification and a capacity of one
are what the two usages of the deduplicator stumble over. Calls, deliveries in flight,
recorded ids and operations are bounded by the constants, retries by the configuration;
every bound is a named constant. `MaxEffects` caps a counter one above what the property
allows. Where a cfg switches the deadlock check off, everything has ended: no call is
left, nothing is left to deliver.

## Fairness

* `HTTPClient`: weak fairness of each call's own progress. A thread that can run does; a
  wait ends because httpx is given a finite timeout (30 s by default), so `ExchangeFails`
  counts as progress; a sleep ends (`Pacing` says when). The untranslated exceptions are no
  part of that progress: they may happen, and the call ends without them. Nothing is assumed of the
  gateway but that a body comes to an end, nor that a call is ever begun, cancelled or
  the client closed.
* `WebhookReceiver`: SIBS keeps sending (the docstring: "SIBS retries notifications until
  acknowledged"), the event loop runs its tasks, an answer that is not lost arrives.
* `PaymentFlow`: the merchant goes through the flow and polls until it has an outcome;
  notifications arrive; strong fairness of `Receive`, since any answer may be lost but not
  those of all polls for ever. Nothing is assumed of the shopper.

## Proofs

The theorems hold for every value of the constants that satisfies the named `ASSUME`s of
the modules, which TLC evaluates in every run.

**`HTTPClient_proofs`**: for every set of calls, orders, keys, statuses and
configurations, the type invariant, the seven properties the `unkeyed` run checks besides
it, and `KeyedOnce`, with every way in which a call can end. The properties are not inductive: that an order is charged once says
nothing of requests still in flight. `IInv` adds that: every request of a POST that is in
flight or was carried out is the call's *present* attempt, and its call waits or has ended
without a refusal (`OneLiveAttempt`); an answer in `Unprocessed` that a call has received
leaves no such request (`QuietRefusal`); a request is not handled twice (`HandledOnce`);
of two calls for one order one is refused, not begun, or shares its key (`OneOpenCall`);
one charge per key (`OneChargePerKey`). A step of a call either ends it or puts it to
sleep; one lemma for each (`FinishStep`, `SleepStep`) carries most of the work. A POST is
put to sleep only by a 429 or 503, and an exception that nothing translates is no refusal
(`UnknownStep`), so `QuietRefusal` clears the way for the next attempt.
That is the argument for the retry policy. `LedgerImplemented` maps every charge to
`ChargeLedger!Charge`, every end of a call to `Answer`, all else to a stutter; it assumes
`HonestGateway`, and that no configuration declares POST idempotent.

**`Pacing_proofs`**: that a call ends in time, is never early, and what it can raise, for
every configuration, header and timeout. `IInv` adds to the properties that the call
sleeps only while it has retries left, which is what keeps the exponent below
`FloatExponent` (an `OverflowError` is then a header's), and that the end of a sleep is no earlier than it was asked for
(`Advised`). `PowersAssumption` (a power of two is a natural
number) is plain arithmetic for which the prover has no axiom.

**`NotificationDeduplicator_proofs`**: for every capacity and set of ids, the types and
`NoFalseDuplicate` with any number of threads; with one call at a time the window
property, that no id is fresh twice within it, that `seen()` never raises, and that it
implements `DuplicateWindow`, the code's window and not the docstring's LRU set. The
invariant says that the memory is a suffix of the
history without repetition, and what each statement of a call finds in it; the refinement
maps the statement at which a call makes up its mind to `Decide`, the others to `Ask` or
to a stutter. `MemoryBounded` and `WindowKept` hold with any number of threads, and are
inductive once the types are known: `LengthStep` says of each statement what it does to
the length of the dict, to the sets of calls that have inserted their id and that evict,
and to the number that raised, and the rest is counting (`SetsStep`, `CountStep`).

**`WebhookReceiver_proofs`**: for any notifications, keys, capacities, overlapping
deliveries, failures, losses and restarts, the types and the promise of either usage.
`AckedIsProcessed` needs that what is in the memory, or about to be recorded or
acknowledged, was acted on (`Processed`), which is why the order "act, record,
acknowledge" matters. `ActedOnOnce` needs that of one notification at most one delivery is
about to be acted on, that its id is remembered meanwhile, and that neither then nor while
the id is unknown has the present process acted on it (`OnceAtMost`); a memory with room
for every id forgets none (`RememberRoom`, by counting).

**`PaymentFlow_proofs`**: for any bodies, operations and orders of arrival, that a status
seen is one the payment was in and that a challenge was raised, provided the gateway is
`Truthful`: what it describes a phase with is parsed into a status that names that phase
or commits to none. That is the one thing the repository cannot decide; the vocabulary of
`flow` is truthful (TLC evaluates it with `IInv`), that of `authorized` is not, and breaks
the property. The invariant (`Told`) says the same of every answer and notification on its
way. `TypeCorrect` needs no such promise: whatever the bodies hold, every object the
merchant is given has the types its model declares, and every text in it is one the
gateway wrote, `None` or a text of the code. It is stated for a set `Values` of JSON
values that holds, with an object or an array, what is in it, and in which the fields of
every body are (`ValuesAssumption`); the runs take what occurs in their bodies. The lemmas
go through the parsers one by one. `StatusType`: no text is normalized to anything but a
status. `PollAgreesWithNotification`: the parser of an answer and the parser of a
notification choose a body's text in code of their own, and yet normalize one text to one
status; the return code only counts where there is no text. `StatusTableUnambiguous`: the
status table, which the model turns round, gives each text one status.

**`Money_proofs`** and **`Refunds_proofs`**: for any amounts, any currency, any number of
operations and any width of a float. Two facts carry `BooksAgree`. Rounding is off by half
a minor unit at most (`RoundingError`). And an amount of at most `Exact` digits is read as
it was sent: a float is at least as dense as the minor units as long as they fit its
mantissa (`Dense`), so that two neighbouring amounts are different floats (`FloatsApart`),
no other decimal of that many digits reads as the same float, and the amount is what is
written (`WrittenExact`). Each operation then adds half a minor unit to the difference at
most, by the triangle inequality, and a full refund brings both books to nothing. That
`Float` finds an exponent at all would be an induction; the proof takes the least element
of the set of exponents that are large enough instead (`Least`). `PowersAssumption` is
arithmetic, as far as it is needed: the provers have no axioms of powers.

Only model-checked: liveness (`Terminates`, `EventuallySettled`, `OutcomeLearned`), since
fairness and ENABLED are beyond the prover. Every other property of a passing run is a
theorem. The violations are TLC's counterexamples.

## Findings

1. The deduplicator is no LRU set: a hit does not refresh an id (`lru`).
2. The deduplicator is not safe for the threads of one worker (`dedup_twice`).
3. Used as documented, `seen()` loses an event when acting on it fails (`lost`).
4. An authorization answered "Success" is CAPTURED (`authorized`).
5. A field of an unexpected type makes a parser raise pydantic's own exception, after the
   operation was carried out; the id of a payment just created is lost with it
   (`mistyped`).

`PROJECT.json` quotes the text each of them contradicts. Smaller disagreements, without a
run of their own:

* "All exceptions inherit from `SIBSError`" (`docs/errors.md:3`, `README.md:198`) and "raw
  `httpx` exceptions are always translated" (`docs/errors.md:30`, `README.md:27`): not
  those `HTTPClient` lists as untranslated. An answer whose Content-Encoding is broken
  raises `httpx.DecodingError`, which is no `TransportError`; a Retry-After date with an
  enormous year or offset raises `OverflowError`, whatever the configuration; both after
  the gateway has answered.
* `_parse_json` "never raises" (`_http.py:62`), but lets the `RecursionError` of a deeply
  nested body through.
* Between threads `seen()` may also raise a `KeyError` or `RuntimeError`, after which the
  dict may stay above its capacity for good (`MemoryBounded` says by how much).
* "`Retry-After` is honoured" (`README.md:239`, `docs/configuration.md:37`) up to
  `max_backoff` only, and for the answers that are retried; `NotEarly` is stated so.
* A timeout given as a number is not a total (`config.py:95`).

Hazards no text denies: `is_duplicate()` asked first lets two deliveries that overlap both
through; a body without a text but with a `returnStatus` that only tells how the call went
is CAPTURED; a late notification moves an order back when it is applied as it comes; the
payment behind a `create_payment` that timed out cannot be found again; a notification
with a numeric id or currency is answered 500 and redelivered for ever; a refund or
capture that names no currency is in EUR, whatever the payment was made in.

## Not modelled

* Base64, keys and AES-GCM themselves: `Webhooks` keeps the ways they fail. The legacy
  HMAC verifiers and `parse=False` are not used by the documented flow.
* `from_env` and the constructors, `config.py`, `validators.py`: checks of one value and a
  lookup, without state, whose failure raises before anything exists to go wrong.
* Addresses, descriptions and card data in the bodies of requests: passed through.
* `redaction.py`: a recursive rewrite of what is logged; no payment depends on it.
* The HTML of the redirect, `format_amount`, the default headers: formatting.
* The package surface, the examples' wiring: re-exports.

The asynchronous client is the synchronous one with `await`; where that matters
(cancellation) the models have it.

## Plan

1. Done: the request loop with its ledger, its clock and their proofs; the deduplicator,
   its window and their proofs; parsers, webhooks and the receiver with its proofs; the
   payment flow with its proofs; money and refunds.
2. Done: the types of `PaymentFlow` for any bodies, `Refunds` from lemmas on rounding and
   on floats, and what overlapping threads leave of the deduplicator's window.
3. Proofs: the safety half of the liveness properties, such as what a step may never undo
   in `PaymentFlow`; that the retry loop of `HTTPClient` and that of `Pacing` decide alike.
4. Handlers in threads (the Django example): `WebhookReceiver` over
   `NotificationDeduplicator` instead of the indivisible `Remember`.
