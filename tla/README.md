# Keyfinix: TLA+ models, model checking and proofs

This directory specifies the parts of Keyfinix whose correctness depends on the
order in which things happen: who is let in, who is told to stop, which key is
stored, when a request times out, when a session ends. Paths below are relative
to `src/crates/keyfinix-server/src/` unless they start with `crates/`.

Every definition that stands for code is listed in `PROJECT.json` under `map`
with the lines it stands for; runs, mutants, findings, hazards and theorems are
listed there too.

To reproduce: `tlc -config <run>.cfg <MC module>` for each run, `tlapm` on the
eight modules whose names end in `Proofs`.

## 1. The system

Keyfinix is a server for key directories and e-mail address proofs. At this
commit it is a set of services and the HTTP front of them; the command line
parses its arguments and starts nothing yet, the API has no routes, and the
keep-alive loop has no caller. Where a model needs one of these, it says so.

| Component | State | Operations | Acts with | What is hard | Correct when |
|---|---|---|---|---|---|
| Backpressure (`abstraction/backpressure.rs`) | atomic `in_use`, semaphore `soft` | `acquire`, the future, the guard's drop | every request | burst of add/undo, cancellation in the queue, drop order | count exact, limits held, permits conserved, nobody waits for ever |
| Concurrency limit (`service/concurrency_limit.rs`, `http/identify.rs`) | one locked map per shard | `get`, `gc` | Backpressure (clones of one template) | `gc` against requests in flight | eviction loses no count; the limit is per key |
| Shutdown manager (`abstraction/shutdown.rs`) | level, pending count, handlers, error map, one-shot sender | `add_handler`, `trigger`, `wait` | handlers, two signal loops | racing signals, last-one-out, forced against graceful | `wait` returns exactly when it should, and never Ok after a failure |
| HTTP server (`server/mod.rs`) | axum handle, one-shot `done` | `listen`, `signal`, `wait` | shutdown manager, clients | clients that do not let go, `serve` failing | first interrupt drains, second closes, third gives up |
| Key store (`service/key_store/`) | table `meta_blob` | `initialize`, `reencrypt_dek`, `insert_dek`, `destroy_dek`, `list_key_selectors` | other processes on the same database | statements outside a transaction, crashes | one data key, destroyed only on purpose |
| Key wrapping (`crates/keyfinix-crypto/src/wrapping.rs`) | none | `wrap`, `unwrap`, `rekey` | key store | which part of a buffer is which | what is wrapped opens with its key and in its context only, before and after rekeying |
| Encoder (`crates/keyfinix-crypto/src/auth.rs`, `auth/abstracted.rs`) | hash state | `push_assoc`, `finish` | every encryption | chains that run into one another | different chains write different things, but for the keys of maps |
| Request timeout (`abstraction/timeout.rs`, `http/limit.rs`) | Sleep, atomic renewal | `poll`, `renew` | executor, handlers | renewal against deadline, late polls, lost wake-ups | ends in time, renewals honoured, answers noticed |
| Session tokens (`service/token.rs`) | none: claims travel | `generate_token`, `renew_token`, `verify_token` | wall clock | renewal from any token, boundaries, clock set back | a session is bounded and cannot be revived |
| Keep-alive (`abstraction/mod.rs`) | resource under a lock, health flag | `new`, `get`, `keepalive_loop` | tasks, the resource | a lock held while it is asked for | who has to wait can tell, what has failed is renewed |
| Database pool (`database/pool.rs`) | password in a once-lock, environment | `get_db_url`, `tcp_probe`, `initialize` | keep-alive, probes, child processes | one-time read and erasure, restarts | the caller's own password, and nowhere else |
| Router and middleware (`server/router.rs`, `http/`) | none: extensions travel | layers, `ClientAddress`, `IdentifyRequester`, `add_common_response_header` | all of the above, proxies, clients | forwarded addresses, several credentials, header conflicts, early responses | not counted under what its client made up, taken for its user, dressed whoever answers |
| TLS router (`server/tls.rs`) | two tables of names | `new`, `add_sni`, `resolve` | rustls, start-up | wildcards, overlap, precedence | each name gets its certificate |
| Errors (`api/result.rs`), user interface (`src/frontend/src/lib.rs`) | none | `into_response`, `ui_router` | router | headers that others set too | see the router |
| Sandboxing, metrics, logging, e-mail, derive macro, key derivation, clocks | | | | | out of scope: kernel calls, observation, text, generated code |

## 2. Modules

| Module | Role |
|---|---|
| `Admission` | abstract: an admission gate with a hard and a soft limit and no starvation |
| `Backpressure` | the counter and the semaphore; implements `Admission` |
| `ConcurrencyLimit` | EXTENDS `Backpressure`: the sharded map in front of it |
| `BackpressureProofs` | the gate's inductive invariant and its refinement, carried over to the map, and the map's locks (TLAPS) |
| `Shutdown` | the shutdown manager with abstract handlers |
| `HttpServer` | EXTENDS `Shutdown`: the server as one of the handlers |
| `ShutdownProofs` | the manager's invariants, and that the server is a handler like any other (TLAPS) |
| `DekVault` | abstract: a vault holding one key, chosen once |
| `KeyStore` | the `meta_blob` table and the operations on it; implements `DekVault` |
| `AssocEncoder`, `Wrapping` | pure: associated data, and sealed buffers |
| `SealedStore` | EXTENDS `KeyStore`: its blobs as the bytes that the two modules above make |
| `KeyStoreProofs` | one key, its destruction, the refinement (TLAPS) |
| `SealedStoreProofs` | EXTENDS `KeyStoreProofs`: the bytes of it, and what a chain's hash tells of the chain (TLAPS) |
| `KeepAlive` | a resource, the tasks that use it and the loop that should renew it |
| `Database` | EXTENDS `KeepAlive`: the connection, its password, restarts |
| `DatabaseProofs` | passwords, and what becomes of the keep-alive loop (TLAPS) |
| `ServerKeyRouter`, `Requester`, `Responses` | pure: certificates, requesters, responses |
| `RequestPath` | EXTENDS these: start-up, a connection, and requests on their way through the layers |
| `RequestPathProofs` | certificates, requesters and responses (TLAPS) |
| `ResettableTimeout` | one request, its timeout and the executor |
| `TimeoutProofs` | the end of a request is neither late nor early (TLAPS) |
| `Token` | the token service and the clock |
| `TokenProofs` | its inductive invariant and its properties (TLAPS) |
| `MC*` | instances for TLC |

Each component module has its constants with a named assumption, one action per
operation or per atomic part of it, and, before the actions, the faulty variants
that the mutants put in their place; nothing else uses those.

### Backpressure, Admission

A request is `out`, `over` (its `fetch_add` passed the hard limit and is about
to be undone), `admitted`, `queued`, `granted`, `held` or `leaving`. The steps
are the atomics: `FetchAdd` and `Reject` are the two halves of a refused
`acquire`; `DropPermit` and `Uncount` are the two fields of the guard in the
order in which they drop. tokio's semaphore is external: a FIFO whose released
permit goes to the oldest waiter. `Cancel` drops a waiter, `DropPermit` from
`granted` drops one that has its permit and does not know it yet.

### ConcurrencyLimit

`get` inserts `template.clone()`, and `Backpressure` is an `Arc`: all entries
share the state of module `Backpressure`, so the map is just the set of keys with
an entry. `get` is `Call`, `LockShard`, `Acquire` (entry and `fetch_add`, under
the lock) and, if refused, `GetReject`; `Await`, `GiveUp` and `Done` are the life
of the future outside the lock; `gc` visits a locked shard entry by entry. The
gate is checked here, under its only caller, and proved for itself.

### Shutdown, HttpServer

`trigger` is `TryForce` (the `compare_exchange`), then either `ForceStore` and
`ForceSend`, or `Bump` (the `fetch_add`), `SelfTrigger` for the first signal,
`ReadHandlers` and one `Signal` per handler. A task spawned by `add_handler` goes
through `HandlerEnds`, `RecordError`, `Decrement` and `SendDone`. The level wraps
as the `u32` does; in a debug build the overflow kills the signal loop (`dead`).
The error map has a place for each name, not for each handler: `NameOf` may give two
handlers one name, and then `RecordError` replaces what is there.
`HttpServer` gives one handler its code: `listen` with its connections, `signal`
(graceful, at once, give up) and `wait` on the one-shot `done`. axum_server is
external: a handle remembers what it was told.

### KeyStore, DekVault

Each SQL statement is a step; what an operation has read is in its job. A blob is
a pair of KEK and DEK, or `Garbage` after `destroy_dek` has overwritten it.
`backups` holds every base64 copy an operator has seen, and `insert_dek` may
bring back any of them, garbled ones included. A process may crash between any
two statements. `MayOverlap` says which jobs operators let run at the same time;
`Careful`, what most properties need, asks two things of them: servers that start
together use one selector, and nothing is stored (by `initialize`, `insert_dek` or
`reencrypt_dek`) under a selector while it is being destroyed. All else may overlap:
a destroy with a re-encryption that stores elsewhere, with restores elsewhere, and
with other destroys.

### AssocEncoder, Wrapping, SealedStore

`KeyStore` takes it for granted that a blob opens with one key in one context.
`SealedStore` states that of the code below it, at the steps of `KeyStore` that
unwrap or rekey. `AssocEncoder` writes down what `push_assoc` feeds the hasher,
with an ideal hash: length of the chain, type and digest so far, row, digest
again. The row of a map is the fold of its entries as the code computes it,
without the bytes of the keys, so maps collide in the model as they do in the
code; `Imprint` is what its row leaves of an element. `Wrapping` is ciphertext,
nonce and tag in one buffer, with an ideal AEAD; a byte of ciphertext stands for
its key, nonce and plain byte, so a nonce or a tag that is left over, or swapped,
shows.

### KeepAlive, Database

The lock is tokio's fair RwLock: holders and a queue. The read guard that
`keepalive_loop` takes in its if-let stays among the holders while the loop is at
`write`. `Implementors` says what `health_check` may answer: a connection never
answers with an error (`abstraction/mod.rs:101`), another resource may.
`get_db_url` is two steps, `GetPassword` (the once-lock) and `Match`, taken by
the initializing task and by any number of `tcp_probe`s, each with a configuration; the
lock and the environment are one for the process. The program builds one pool, whose
configuration all share; the run also gives the probes one of their own. `Restart`
gives a new process the environment that the first one got.

### RequestPath, ServerKeyRouter, Requester, Responses

Start-up loads the certificates one by one. A request is then at one layer after
the other, outermost first: headers, (dispatch), request id and body limit, span,
timeout, `IdentifyRequester`, permit, handler; a response made at any of them
goes out through the layers it has passed. The user interface and the fallback meet
only the outermost. What the environment adds is in the request: who sent it,
how many proxies appended to its header, and what it claims. A cookie or a query
parameter that cannot be parsed is passed over (`Readable`), as the cookie jar and
`Err(_) => None` do; a malformed Authorization header, or address header, is answered
with an error. Certificates,
addresses and responses are records; names are sequences of labels.

### ResettableTimeout

The state is the Sleep's deadline, whether it is registered with the timer, the
renewal in the atomic, and whether the task has been woken. The four polls are
the four paths of `poll()`. The executor polls within `MaxLag` ticks of a wake-up.

### Token

The service keeps nothing, so the state is the set of tokens ever issued, and the
clock. `Renewable` and `Verifies` are the checks of `renew_token` and
`verify_token`, `Capped` the absolute end, `Expiry` the saturating addition. The
two checks are separate definitions because they are separate code.

## 3. Runs

| Run | Instance | Shows |
|---|---|---|
| `limit_map` | 4 requests, 2 keys in 2 shards, soft 1, hard 3 | `CountExact`, `HardLimitHeld`, `PermitsConserved`, `QueueExact`, `RejectJustified`; the refinement of `Admission` with its liveness; `get` returns (`GetReturns`) |
| `shutdown` | 2 handlers of one name, 2 signal loops, 3 signals | `PendingExact`, `LastIsLast`, `ErrorsReported`, `GracefulCompletes` |
| `server` | the server, 2 connections, 2 signal loops, 4 signals | `ServerStoppedFirst`, `ForcedReturns`, `SecondInterruptStops`, `FirstInterruptStops` |
| `key_store` | 2 processes, 2 selectors, 2 KEKs, 2 DEKs, careful operators, 53 chains of associated data | `OneDek`, `DestroyErases`, `CheckedDestroyMatches`, `RekeyedAsStored`, `OpensInItsContext`, the refinement of `DekVault` |
| `timeout` | initial 3, renewals of 1, 2 or 4, delay 1, 3 renewals | `EndsInTime`, `LastRenewalHonoured`, `ReadyIsNoticed` |
| `token` | 1 session, lifetimes -1 to 4, max_lifetime 5, clock to 8, set back twice | `SessionBounded`, `NewTokenWorks`, `DeadStaysDead` |
| `database` | 2 tasks, 1 probe, 1 restart, 144 pairs of configurations, 4 environments | `RightCredential`, `SecretErased`, `FirstDecides`, `WaitersAreFlagged`, `WatchedOrFlagged` |
| `request` | 204 deployments, 4 server names, 165 requests | `CertificateChosen`, `KeyNotForged`, `FirstCredentialDecides`, `ResponseDressed` |
| `limit_per_key` | as `limit_map` | violates `PerKeyLimit` (section 5, 1) |
| `shutdown_hang` | 1 handler, 1 signal | violates `WaitCompletes` (2) |
| `destroy_race` | as `key_store`, nothing kept apart | violates `CheckedDestroyMatches` (3) |
| `keepalive_renewal` | a resource whose check may fail | violates `Renewed` (4) |

Why the bounds are enough. *limit_map*: two requests contend for each lock, two
calls of `acquire` run at once, one more request than the hard limit lets in, and
two that wait in the queue for one permit. *shutdown*: both loops racing, twice;
two handlers, so that there is a last one, of one name, so that their errors meet.
*server*: four signals are one past the forced level, so the wrap is seen.
*key_store*: two processes race, two selectors are what reencryption needs, a
second DEK is what must not come in; nonce and tag have two bytes each, so that
one can be cut; chains of an element of every kind, and some of two, differ in
each of the ways two chains can, and the maps are all those from some of three
keys, two of which have one length. *timeout*: renewals shorter than, near to and
longer than the delay; three, so that one replaces another pending one. *token*: a
chain of renewals through the whole of a session and past its end. *database*: the
loop, a task that uses the connection, one that waits, and a probe beside the
initialization; one restart shows what survives it; the pairs are all those of one
URL scheme that agree on whether they name a variable, which the properties need
(section 5). *request*: two alternative certificates with every set of an exact
name, the wildcard that matches it, and a wildcard one level down, so that they
overlap and overwrite; every kind of address, up to two proxies more than trusted,
headers with none, one, three, malformed and doubled lines; every combination of
credentials, good, refused and malformed, in three places.

`CHECK_DEADLOCK FALSE` is set where the system comes to rest: after a shutdown
(or when no signal is left), when the request has ended, when the clock has
reached its bound, when a process has failed to start for the last time.

### Fairness

* *Backpressure*: a task that runs is polled, its destructors finish, a handler
  returns or is dropped by the timeouts of `server/router.rs:127`. None on
  arrivals or disconnects.
* *ConcurrencyLimit*: strong fairness on a shard's lock, which parking_lot hands
  over in the end; none on `gc`, which a timer starts.
* *Shutdown*: spawned tasks run; a signalled handler ends, as
  `ShutdownHandler::signal` asks. None on signals or on handlers nobody told.
* *HttpServer*: the `listen` task runs. Nothing makes a client let go: only
  `FirstInterruptStops` assumes that connections of a draining server close, and
  says so.
* *Database*: the loop, once there is a resource to check, goes on; a task drops
  its guard. None on initialization, failures or tasks that come.
* *ResettableTimeout*: time passes, the timer fires, a woken task is polled. None
  on the handler's answer.

## 4. Proofs

Every invariant and every safety property that a passing run checks is proved, for
all values of the constants that the named assumptions allow. Each argument is an
inductive invariant with one lemma per action; what it needs beyond the property
itself is this. No proof uses fairness: where a module states some, its
theorems are about `SafeSpec`, which `Spec` implies, or ignore that conjunct.

`BackpressureProofs`: `CountExact`, `HardLimitHeld`, `PermitsConserved` and
`QueueExact` are inductive only together: a request that takes its permit must be
known to be at the queue's head and nowhere else, so `QueueExact` says that the
queue is the set of waiting requests, each once; and `HardLimitHeld` needs
`CountExact`, because the code compares `in_use` and not the number of requests.
The work is in `Cancel` (removal from the middle of a sequence, `RemoveAtFacts`)
and in the cardinalities. `RejectTheorem` and `Refinement` (every step is a step
of `Admission` or a stutter) follow.

In the same module, every step of the map is a step of the gate or leaves it
alone (`MapImplementsBackpressure`), so the gate's theorems hold behind `get` and
`gc`. What the locks are for is an invariant of the map: who is in `get` holds the
lock of its key's shard until its increment is undone or stays, and `gc` visits the
entries of the one shard it has locked.

`KeyStoreProofs`: `OneDek` is not inductive. A process about to insert a new key has
looked at the table some steps ago; `Fresh` says that whatever was stored since
stands in the way of its INSERT, and this needs that two initializations use one
selector (section 5 says what happens otherwise). Everything else that a
job carries came from the table or a backup (`KnownBlobs`), and once there is such a
blob the table is never empty again. The hypothesis of these theorems is
`OperatorsCareful`: `MayOverlap` allows no jobs to run at once that `Careful` keeps
apart. For `CheckedDestroyMatches` the step that matters is that of anybody else while
a destroy is between its two statements: the invariant `DestroyHolds` says that its
entry still opens, was garbled or is gone, and only a job that stores under that
selector can break it; with such a job the code does break it (`destroy_race`). The
refinement of `DekVault` (`VaultTheorem`) follows.

`SealedStoreProofs`: what `wrap` puts into a buffer is what `unwrap` and `rekey`
take out of it for every length of secret, nonce and tag (`WrappedPortions`), a
tag binds key and associated data, and a buffer that was cut, or is random, does
not end as a tag does (`NotSealed`, `CutFacts`), whence `RekeyedTheorem`. The
other half is the encoder (`EncoderTheorem`): the last word that `push_assoc`
writes holds the type, the count and all that was written before, so it tells the
encoder it was called on (`PushBinds`), what is left is the row, and `RowsBind`
tells what it can of the element; by induction along the chain, from its end, all
of it can be read back. For a map that is its imprint: the fold holds of each
entry the length of the key and the value, an odd number of times (`FoldShows`,
`OddAlike`), and no more. `Encode` is unfolded, and the induction done, with the
least element of a set of numbers (`LeastOf`), since the library's induction rules
take an operator. So chains hash alike exactly when they have one imprint
(`HashTells`, `HashesAlike`), for every finite set of chains of any length
(`AllHashesBind`), chains without maps are then one chain, and nothing but the key
store's own chain has its hash (`DekHashBinds`); `ContextTheorem` says both. What
the encoder needs of its users is `ContextsAssumption`: a type identifier belongs
to one kind of element. Nothing is assumed of maps.

`ShutdownProofs`: everything said of the count ends with a forced shutdown. Until
then the level only grows, so it leaves 0 once, and at most one signal loop is on
its way to take the manager's own count back (`SelfOnce`); that is what
`PendingExact` needs, and `LastIsLast` and `ErrorsReported` follow from it and from
`Filed` (an error is in the map, under its handler's name, before that handler's task
lowers `pending`; a later error of the name may have replaced it).
`ServerImplementsShutdown` says that the server is a handler as `Shutdown` has them,
so all of this holds of the composition, and `ServerStoppedFirst` on top of it.

`TimeoutProofs`: the clock is at most `lag` ticks past the deadline, which is
inductive together with the fact that the task is woken or the Sleep is armed; a
timer as short as the executor's delay breaks both, and that is what `hasty`
excludes.

`DatabaseProofs`: two independent invariants. For the password: nobody is past the
once-lock before it is set, and what it holds is what the configuration names. The
hypothesis `OneEnv`, that the configurations of a process agree on whether they name a
variable, is what the process-wide lock needs (section 5); the program, which builds
one pool, meets it. For
the loop: it keeps its read guard while it asks for the write lock, everybody who
waits is behind it, and the flag is down. So no resource is ever renewed
(`NeverRenewedTheorem`, the safety half of `keepalive_renewal`), once the loop asks
it asks until the process ends, and for a connection, whose check gives no error,
nobody waits.

`RequestPathProofs`: three arguments. A table of names holds for each name the
last of the certificates loaded so far that lists it (`LatestOf`). Where
more proxies appended to the header than are skipped from its right, or none and the
client wrote nothing, the address taken stands on the request's path (an address by
address argument over the proxies). The credential is the first that can be read, and
what cannot be read is an error in the Authorization header only.
A response on its way out has what the layers it has passed were to set.

`TokenProofs`: every token's `nbf` is the time its session was born and its `exp`
does not pass the absolute end unless it is that of the first token;
`DeadStaysDead` also needs that a token that can be renewed verifies. It holds for
every `max_lifetime` including none, which is how `service_init` configures it,
and every course of the clock.

Assumptions, each named in the module that declares the constants and evaluated by
TLC on the instances: limits, numbers and durations are numbers and sets of tasks
are finite; special values (`NoBlob`, `Garbage`, `Idle`, `Absent`, `Malformed`,
`Nobody`) are none of the ordinary ones; `SizesAssumption`, that a tag is not
empty; `ContextsAssumption`, above; and in `RequestPath`, that certificates list
names of one label or more (`San`: rustls' `DnsName` admits no empty one), that
addresses and header lines are what the parsers give, and that whoever shows a
token shows one that `UserOf` knows, or a malformed one.

Only model-checked:

* liveness (`GetReturns`, the liveness of `GateSpec`, `GracefulCompletes`,
  `ForcedReturns`, `SecondInterruptStops`, `FirstInterruptStops`, `ReadyIsNoticed`,
  `WatchedOrFlagged`): fairness and ENABLED are beyond the proof system;
* the four violations of section 5, which are about instances.

## 5. What the models show about the code

Violated properties, each with a run (details under `findings`):

1. `limit_per_key`: the limit is not per requester; all keys share one counter
   (`service/concurrency_limit.rs:71`).
2. `shutdown_hang`: when every handler has confirmed by the time the first
   trigger's own `fetch_sub` runs (`abstraction/shutdown.rs:192`), whether they
   confirmed before the signal or, as in TLC's trace, between its arrival and that
   statement, the `fetch_sub` is the last and does not look; `wait()` never
   returns.
3. `destroy_race`: a checked `destroy_dek` beside a `reencrypt_dek` under the same
   selector overwrites an entry that its key does not open
   (`service/key_store/kiyoka.rs:162`), which `service/key_store/mod.rs:156`
   excludes.
4. `keepalive_renewal`: `keepalive_loop` asks for the write lock while the guard
   of its own check is alive, so no failed check leads to a renewal, and every
   later `get` waits (`abstraction/mod.rs:181`). `WaitersAreFlagged` shows the
   good side: it waits only while the health flag is down.

Conditions in the properties that hold point at further limits of the code, for
which there is no run of their own:

* `everForced`, `level <= LAST_WARNING`: two racing signals may both pass the
  comparison of `trigger()` and raise the level to an undocumented third one, and
  a signal after the forced level wraps it to zero
  (`abstraction/shutdown.rs:182`).
* `Careful`: two servers that start with different selectors on an empty table
  store two keys (`service/key_store/kiyoka.rs:256`). `service_init` gives all the
  same selector.
* `ErrorsReported`: the error map is keyed by `name()`, which is "for tracing and
  logging purposes", and `insert` replaces; of two handlers with one name that
  fail, one error is lost (`abstraction/shutdown.rs:117`), though `wait` does not
  answer Ok. The repository's two handlers have different names.
* `GracefulCompletes`: a handler added after the signals is never told, and `wait`
  waits for it (`abstraction/shutdown.rs:106`); no document says when handlers may
  be added.
* `RekeyedAsStored`: `rekey` panics on a blob shorter than nonce and tag, where
  `unwrap` gives an error (`crates/keyfinix-crypto/src/wrapping.rs:130`).
* `shredded`: after a destroy, a backup restored by `insert_dek`, or the garbled
  row of a destroy that crashed, may stand beside a new key; `OneDek` speaks of
  the time before.
* `HashesBind`: of a map's keys only the lengths are bound
  (`crates/keyfinix-crypto/src/auth/abstracted.rs:129`), and equal entries cancel,
  so maps hash alike that `auth.rs:243` promises apart; which ones is what the
  property says. `push_map` has no caller, and `OpensInItsContext` shows that the
  key store's own context is not touched.
* `KeyNotForged`: `max_forwarded_for`, "the maximum number of forwarded addresses
  to follow", is the number of entries skipped from the right, so one more is
  followed, and with 0, the default, still the last, also when there is no proxy
  and the client wrote it (`http/mod.rs:178`, `config.rs:88`). The property says
  what holds: with more proxies than that number, or with none and no header, the
  address is one on the request's path.
* `OneEnv`: the lock of the environment's password is one for the process
  (`database/pool.rs:142`): a caller whose configuration names no variable leaves
  it empty for one whose configuration does. The program builds one pool
  (`service/mod.rs:159`), so this takes another user of `get_db_url`.
* `insert_dek` does create an entry, whatever `service/key_store/mod.rs:144` says.
* `renew` replaces a pending renewal, it does not add to it
  (`abstraction/timeout.rs:45`).
* `setBacks`: an expired token is good again when the clock is set back.
* `retain` in `gc` is given `fresh`, so it keeps the unused entries and drops
  those in use (`service/concurrency_limit.rs:50`). Because of 1 this loses no
  count; repairing only 1 would make it lose counts.
* `hasty`: a renewal no longer than the delay of a poll, the initial one that
  `http/limit.rs` gives the handle included, leaves the request without a timer
  (`abstraction/timeout.rs:77`), until something else wakes it (`NeverTooLate`).
* `MakeSpan`: a request id that is no visible text panics (`server/router.rs:99`).
* `Identify`: a malformed address header is answered 500 and not 400, and
  `TokenExpired` (403) is never built (`http/identify.rs:47`).
* `ErrorResponse`: `RateLimited` says milliseconds and puts the same number into
  Retry-After, which counts seconds (`api/result.rs:273`, `:301`).
* `DbAnswers`: a failed ping is taken for a healthy connection
  (`abstraction/mod.rs:103`).

## 6. Plan

Done: the components of sections 2 and 3, and the proofs of section 4. Next, in
this order:

1. The conditions in the properties that section 5 lists, as theorems of their own
   where they are safety: what two racing signals can do to the level, and what a
   set back clock can do to a token.
2. Refinements for the components that have none: the timeout as one timer, the
   token service as a set of sessions that end once.

## 7. Not modelled, and why

Sandboxing and protected memory are calls to the kernel, whose effect is not in
this repository. Metrics and logs only observe. The derive macro runs in the
compiler; what it makes for `ApiError` is in `Responses`. E-mail is not connected
to the server at this commit. Key derivation, certificate parsing, cryptographic
primitives, CORS, compression and axum itself are external. Of the configuration
only what a module reads is modelled, and deserialization is not. The retry
schedule of `api/result.rs` beyond its first step, and the body timeouts of
`server/router.rs`, have no caller with state here. IsHttps is used nowhere.
`only_raw_public_keys()` of the TLS router is the constant true
(`server/tls.rs:184`); what rustls makes of that, and so which clients are asked
for a certificate at all, is not modelled: `Connect` is a client that got as far
as `resolve()`.
