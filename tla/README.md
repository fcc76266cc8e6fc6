# DVLM in TLA+

DVLM (`dvlm/`) runs inference of vision-language models over a swarm of peers.
Span servers each hold a contiguous range of decoder layers and a KV cache per
session; encoder servers are stateless; a client keeps embeddings, LM head and
sampling, routes hidden states through a chain of span servers, and when one of
them fails replays that hop's inputs to replacements. A DreamerV3 agent uses the
same swarm with a recurrent state on `rssm` servers and a log of operations.

This directory models the part of the program that is hard to test: what the
client, the servers and the registry do to each other when calls are slow, lost,
refused or late and servers come and go.

## Inventory

| Part | State | Operations | Interacts with | What makes it correct |
|---|---|---|---|---|
| `InferenceSession`, `generate` (`client.py`) | route, `history`, `exclude`, `failures`, `_hop_sid`, `_opened`, position `past` | `step`, `_plan`, `_forward`, `_record_failure`, `_recover`, `close` | registry (list), span servers (forward, close) | every step returns the unsharded decoder's output; the route tiles the layers; history and caches agree; other hops are untouched; sessions are closed; it ends |
| `SpanWorker` (`server.py`) | `sessions`: key -> cache, range, length, last use | `forward` (awaits the executor), `close`, `gc`; capacity | RPC server, heartbeat loop | one writer per cache; nothing in use is lost; length equals what the cache absorbed |
| `Server` (`server.py`), `serve` (`cli.py`) | process, heartbeat, peer id, span | choose a span, `start`, heartbeat, `crash`, `stop` | registry | a live server stays listed, a dead one does not; who joins takes layers that need it |
| `Registry` (`registry.py`) | peer -> info, expiry | `announce`, `remove`, `list` | servers, clients | lists exactly the entries whose ttl has not run out |
| `find_route`, `choose_span` (`routing.py`) | none | pure | client, CLI | the route is a cheapest chain; placement covers the least served layers |
| `RpcServer`, `RpcClient`, `ConnectionPool` (`rpc.py`) | connections, pending futures, tasks | call, receive loop, reconnect, cancel | everything | a reply reaches its own call; every call ends; one connection per peer |
| `encode_on_pool`, `encode_images` (`client.py`), `EncoderWorker` | LRU cache of embeddings | encode, insert, evict | encoder servers | every image of a request is answered with its own embedding |
| `StatefulSession`, `SwarmBackend`, `Policy` (`dreamer/client.py`) | op log, pinned peer, failures | `call`, `_attach`, `_fail`, `fork`, `close`; `act`, `imagine` | `RSSMWorker` | acting and imagining give what `LocalBackend` gives |
| `RSSMWorker` (`dreamer/server.py`) | sid -> (h, z), last use | `observe`, `imagine`, `fork`, `close`, `gc` | RPC server | state equals the log of the operations applied |
| `parts.py`, `adapters/`, `checkpoint.py`, `dreamer/model.py`, `tiny.py`, `wire.py`, the rest of `cli.py` | tensors, files, frames | arithmetic, input/output, process set-up | | tested against the monolithic model |

The behaviours that are hard: every `await` of the client is a point where servers
crash, restart, expire or collect sessions; a call that timed out may still be
executed; a recovery can fail halfway; a peer can serve several hops of several
plans; a worker's handlers interleave at their executor await; callers share a
connection, its lock and its table of futures; an announcement races the ttl it is to
renew. `PROJECT.json` lists each hazard at its line with the properties that cover it.

## Modules

A tensor is never a tensor here. `Activations` keeps what correctness can tell
apart: which decoder layer it enters, which positions it carries, and whether every
value in it is the one the unsharded model computes. A latent state of the Dreamer is
the sequence of operations that led to it; an image embedding is the image it is of.

| Module | Models | How it corresponds to the code |
|---|---|---|
| `Activations` | `DecoderSpan.forward`, KV caches, histories | `Cat` is a `torch.cat` or a cache that absorbs new keys; it stays exact only if the new block continues where the old one stops. `Forwarded` runs the layers; it needs the cache and `past` to agree. |
| `Routing` | `find_route` | A route is the set of its hops. Throughputs are measured and may be anything, so any chain that could be the cheapest is a possible result: any peer that covers the entry layer, run to the end of its span or of the range. |
| `SpanWorker` | `SpanWorker`, its `Server`, the task per request of `RpcServer` | `forward` is two atomic steps, because it awaits the executor: `ForwardKnown`/`ForwardNew` find or open the session (and collect when full), `ForwardDone` runs the layers and adds to `length`. `ForwardDoneOrphan` and `ForwardCancelled` are what may become of a request whose caller has gone. `Crash` empties the process, `Start` begins a new one with a new peer id at the same address. |
| `InferenceSession` | `generate`, `step`, `_plan`, `_forward`, `_record_failure`, `_recover`, `close`; the registry's list | `pc` is the await the client is at. One action per stretch between two awaits: `Send`, `HopDone`, `CallFailed` and `CallAbandoned` (a timeout or a broken connection: the request stays at the server), `Recover`, `ReplayDone`, `CloseHop`... |
| `SessionProperties` | | What makes a generation correct, the fairness, and the refinement mapping. |
| `Generation` | | The abstract specification: submit, be answered with the unsharded decoder's output, or fail; then end. |
| `SessionInvariant` | | The inductive invariants the proofs use. |
| `SessionProofs` | | The theorems about a generation that hold whatever servers do. |
| `ContentProofs` | | The theorems about what a generation computes, and the refinement of `Generation`. |
| `RSSMWorker` | `RSSMWorker` | `observe` and `imagine` are three steps: the handler up to the executor, the computation on the state it finds there, the handler's write-back. `fork` and `close` never await. |
| `StatefulSession` | `StatefulSession`, `SwarmBackend`, `Policy` | One policy, its acting session and the fork of an imagination. A session that is not attached picks a peer and replays its log (`Attach`, `SendReplay`, `ReplayDone`) before it sends the operation. |
| `LocalBackend` | `LocalBackend` | The abstract specification the code itself names as the reference. |
| `DreamerProperties` | | Properties, fairness and refinement mapping of a policy. |
| `DreamerInvariant` | | The inductive invariants of a policy. |
| `DreamerProofs` | | The theorems about a policy, and the refinement of `LocalBackend`. |
| `EncoderCache` | `encode_images`, `encode_on_pool`, the `OrderedDict`; `SwarmBackend.encode` | A cache shared by concurrent requests; a step lasts from await to await, so deciding what is missing and inserting the results are two steps, with calls to encoders in between. `Observe` enters a batch of frames, which `Split` cuts into one chunk per listed encoder and which passes the cache by. |
| `EncoderProofs` | | The theorems about the cache, the requests and the batches. |
| `Rpc` | `RpcClient`, `RpcServer`, `ConnectionPool` | The tasks of one process over the connections to one address. `pending` is all the `_pending` dicts, `frames` what is on the wire or being handled, `conn[c].line` the queue of the write lock. `Begin` and `Connected` are the two halves of `get()`, on either side of its await; `Write`, `Drained`, `WriteFails`, `Return`, `Timeout`, `Cancel` the rest of `call()`; `Receive...` the receive loop; `Serve`, `Dispatch`, `ServeEnd` the server's end. |
| `Calls` | | The abstract specification: calls that know nothing of each other, each executed at most once, answered by its own result or failed. |
| `RpcProofs` | | The theorems about `Rpc`. |
| `Placement` | `choose_span` | A pure operator: coverage of each layer, the order of the keys (minimum, sum, start), the least. |
| `PlacementProofs` | | Lemmas: sums and minima over finite sets, and what `ChooseSpan` returns. |
| `FindRoute` | `find_route` | The two loops step by step: `Pop` and `Relax` are Dijkstra over layer boundaries, `WalkBack` follows `prev`. Costs are whole units, with the rounding of an integer division where the code has a float. |
| `FindRouteProofs` | | The theorems about `FindRoute`. |
| `Membership` | `Registry`; `start`, `_heartbeat_loop`, `_announce`, `stop` of `Server`; the join of `dvlm serve` | `expires` is the registry's dict, with the time that is left in place of the time of expiry; `wire[p]` what a server has sent on its connection to the registry. `Tick` lets time pass unless something is due. |
| `MembershipProofs` | | The theorems about the registry and its servers. |
| `MCSession`, `MCDreamer`, `MCEncoder`, `MCRpc`, `MCFindRoute`, `MCMembership` | | Model values for TLC. |

Composition: `InferenceSession` extends `SpanWorker`, which extends `Routing` and
`Activations`: client, servers and registry share one state, and requests in flight
are the set `rpcs`. `StatefulSession` extends `RSSMWorker` in the same way. A request
stays in `rpcs` with `live = FALSE` when its caller has given it up and the server does
not know. The two halves of the program, decoder and Dreamer, share no state.

The other modules stand behind what these two assume. `FindRoute` instantiates `Routing`
and shows that what the search returns is a member of `Routes`, which is all
`InferenceSession` knows of it (`FindsRoute`), and that there is none when it raises.
`Rpc` implements `Calls`: a request is executed at most once, perhaps after its caller
has given up, and answers nobody else, which is what the sets `rpcs` of the session
models do. `Membership` and `FindRoute` share `Placement`. The listings of the session
models are wider than those of `Membership`: an unreliable server may be missing from
them at any time.

Definitions called a *mutant* in their comment are wrong on purpose and used by
nothing. Each stands before the definition it is a variant of; put in its place it
makes the property named in `PROJECT.json` fail, so the property does depend on it.

## Bounds and parameters

Every bound is a constant. `MaxSessions`, `MaxFailures`, `PromptLen`, `MaxSteps`,
`CacheSize` are the program's own parameters. The rest limit or shape the environment:

- `Addrs`, `SpanOf`: `Overlapping` has three layers and four servers, so that a chain
  enters a span midway, a recovery caps a longer span, and a peer can serve two hops.
  `Halves` is the smallest swarm with routes of one and of two hops.
- `Founders` run from the start; the others may start at any time.
- `Reliable` servers never crash, expire, stop reading or keep a caller waiting. In runs of safety
  they only keep the state space small: the faults are on the other servers, and which
  ones these are varies from run to run. In runs of survival and liveness
  they are the premise.
- `MaxInc` is the number of processes that may run at one address one after the other.
  With 1, a crashed server does not come back at its address.
- `LongIdle` says whether a session in use may look idle to `gc()`, that is, whether the
  caller may pause for longer than `session_timeout`.
- `MaxLoad` is how many sessions of other clients may come and go at a server.
- `RegistryFaults` lets any lookup fail.
- `Persistent` lets the caller of a policy go on after "too many failures".
- `MaxActs`, `MaxDreams`, `Horizon`, `MaxAsked`, `MaxImages`, `Batches` bound what is
  asked for.
- `Limit`, `MaxConns`: three calls of two callers over two connections. A call can meet
  the late reply of the one before it, a lost connection can be followed by a second one
  while the first still has frames, and two callers can connect at once. With
  `HighWater` at 0 every write that finds an unread frame waits for the drain.
- `BadFrames`, `Stalls`, `Cancels`, `Closes` switch the environment of a connection on:
  replies that cannot be decoded (on the first connection), a peer that stops reading,
  callers that are cancelled (the one that calls twice), `pool.close()`.
- `Offers`, `Scale`: every span of four layers, on a near and slow or on a far and fast
  server. That is enough for a costlier first way to a boundary, for spans entered midway
  or cut at the end, and for ranges nobody covers.
- `Ttl`, `MaxDelay`, `MaxMisses`: `(MaxMisses + 1) * (Ttl / 3 + MaxDelay) + MaxDelay` is
  the longest time between two announcements that get through. 9, 1 and 1 make that 9, so
  an entry expires exactly when it is renewed at the latest, and a tick less would show.
- `MaxRestarts` limits the restarts of the registry.

Two steps of generation, two failures and three layers suffice for the interesting
cases: a failure in the first step with and without something to replay, one in a
later step, a failure during a recovery (the second replacement of a plan after the
first has replayed), and a call that is abandoned in each of these. The Dreamer runs
reach a log of three operations, replays that are interrupted and begun again, and a
fork whose reply is lost.

## Runs

| Run | Distinct states | What it shows |
|---|---|---|
| `Crashes` | 423 344 | Over the overlapping swarm, with crashes, late starts, timeouts and registry failures: every output is exact; routes tile; replays are exactly the prefix; caches and histories agree; no two requests share a cache; sessions are accounted for; a recovery leaves the other hops alone; the session implements `Generation`; and as two servers that cover the decoder never fail, no generation is lost but by a failed lookup. |
| `Ending` | 78 728 | Room for one session per server, one server shared with other clients, one reliable server: refusals and collection do no harm; every generation ends and every submission is answered or fails, unless a peer that stopped reading holds the client up for ever. |
| `Evicted` | violation | See below. |
| `DreamCrashes` | 251 522 | Three rssm servers with room for one session: a policy that acts and imagines gets what `LocalBackend` gives; states match the logs; no session has two operations under way; dreaming leaves the acting session alone. |
| `DreamTwice` | 421 776 | Three steps acted while two servers fail in turn and the reliable one may be listed too late; every call ends, with the same exception. |
| `DreamPinned` | violation | See below. |
| `EncoderShared` | 557 463 | Two concurrent requests over a cache of two entries, and a batch of three frames: answers are the request's own embeddings in order; the cache is bounded; no request is lost to the failing encoder. |
| `EncoderEvicts` | violation | See below. |
| `Calling` | 433 378 | Two callers over two connections to a peer that stops, restarts, stalls and answers late or with an undecodable reply, with timeouts, cancellations and `pool.close()`: the pool implements `Calls`; nobody waits for a reply that no loop will hand out; no entry is left behind; a broken connection fails its own calls only; every call ends unless it waits for the lock or the drain for ever while the peer stops reading again and again, or for good. |
| `PoolLeaks` | violation | See below. |
| `Shortest` | 644 724 | All swarms of up to three servers, ranges and orders: `find_route` returns a cheapest chain, gives up only if there is none and never changes a settled cost; `choose_span` fills a gap. |
| `Heartbeats` | 881 531 | Two servers that join, beat, miss, crash and leave over slow calls and a restart of the registry: who serves is listed, who died is not once its ttl and the time of a call have passed, who left stays out, and who joins takes the layers least served by a swarm with everybody who serves and nobody who is long gone. |

Deadlock is not checked: a generation, a policy, a search, a server's life and the
bounded requests and calls end. What holds with restarts at the same address and with
sessions in use collected, which no run covers, is proved: see below.

### Where the code does not keep its promise

- `Evicted`: `SpanWorker.forward` takes a session id it does not know for a new
  session. When the caller pauses for longer than `session_timeout`, `gc()` drops a
  session in use, the next step silently starts an empty cache, and the output is wrong.
  The client has the history to repair it but never learns. The same happens when a
  server is restarted at its address between two steps (`MaxInc = 2` with `LongIdle =
  FALSE` in the same configuration), since the pool reconnects silently, and to a
  policy whose session is collected (`LongIdle = TRUE` in `DreamTwice`), since `observe`
  starts afresh what it does not know. `CachesCaughtUp`, `StateMatchesLog` and all that
  depends on them therefore hold only when sessions are kept; the runs that check them
  set `MaxInc = 1` and `LongIdle = FALSE`.
- `DreamPinned`: `_fail` raises over the budget *before* it detaches the session. A
  caller that acts again repeats the operation in a session that may have applied it.
  The other Dreamer runs stop calling `act` and `imagine` after this exception.
- `EncoderEvicts`: the entries a request finds in the cache are not touched before its
  missing ones are inserted, so an insertion can evict one of them: `KeyError`, for a
  request that fits the cache.
- `PoolLeaks`: `ConnectionPool.get` awaits the connection between its look into the dict
  and its assignment. Two calls that find none both connect; the connection assigned
  first is overwritten, stays open with its receive task, and `close()` does not know it.
  The calls on it are answered all the same, as `ImplementsCalls` shows.

## Fairness

A call is under a timeout only while it waits for its reply: `RpcClient.call` puts
`wait_for` around the future (`rpc.py:128`), but takes the write lock and drains
(`rpc.py:122-123`) outside it. A peer that is up and has stopped reading can hold a
sender for ever. `Stalled` says when this may happen to a client: it is about to send to
a server that is up and not reliable, or to ask a registry that may fail. (A peer that
dies ends the wait, since its connection breaks.)

`FairSpec` of a generation and of a policy therefore assumes weak fairness of the client
only while it is not `Stalled` (`~Stalled /\ ClientStep`: the event loop runs what is
ready, `wait_for` ends every wait for a reply, and a broken connection fails the pending
calls), and of what reliable servers do with live requests (`Serve`). Nothing is assumed
of other servers, of the registry's listings, of `gc()`, or of restarts. The client's own
choices (which route, which failure) are not fair: liveness holds for each of them.
`Terminates`, `CallsEnd` and `ImplementsLiveGeneration` except exactly the behaviours that
stay `Stalled` for ever (`<>[]Stalled`); a client held up in any other place, or that goes
round in circles, violates them. That every submission is answered *or fails* leaves open
how much fails: this is what `Survives` is for.

`FairSpec` of `Rpc` assumes weak fairness of each caller's own steps (`CallerStep`: the
event loop runs a task that is ready, and a timer fires) and of reading requests
(`Serve`: the peer's event loop, while it is up and reads). Nothing is assumed of
handlers, replies or the network. There the exception of the send can be stated exactly:
`CallsEnd` allows a call not to end only if from some point on it waits for the lock or the
drain (`HeldUp`) and the peer is found not reading infinitely often. Whether such a call
should be under the timeout is a question to the code; no property promises it.

## Proofs

A theorem holds for every value of the constants that the modules' assumptions allow;
some have a premise besides, which is named here with the reason the code relies on it.
Every safety invariant is proved from an inductive one that TLC found invariant on the
runs first.

### A generation

For every decoder length, swarm, placement of spans, capacity, failure budget and
generation length, with restarts and collected sessions (`SessionProofs`):

- `TypesCorrect`: `Spec => []TypeOK`.
- `PlumbingCorrect`: `Spec => []Plumbing`, and from it `RouteAlwaysTiles`
  (`[]RouteTiles`), `CachesNeverShared` (`[]CachesNotShared`) and `ReplacementsAlwaysFresh`
  (`[]ReplacementsFresh`).
- `SessionsAlwaysAccountedFor`: `Spec => []SessionsAccountedFor`.
- `GenerationSurvives`: `Spec => Survives`, with the premise `Enough` (below).

No safety property but `TypeOK` is inductive. Two requests can only meet in a cache
if a hop that is still to be called has the session id of a request the client gave
up on; `Fenced` excludes this, but only because a failed hop leaves the route before
the client calls anything else of it, which needs `RouteInv` and `PlanInv` (the client
is always at the entry of exactly one hop of the route, and the plan tiles the layers
of that hop), and because the ids of a new plan were never drawn before (`SidInv`).
Hence `Plumbing` is the conjunction

    TypeOK /\ RouteInv /\ PlanInv /\ CallInv /\ SidInv /\ FenceInv

and each of its parts is proved to be preserved from all of them. The geometry comes
first: a chain has one hop at its entry, a hop is followed by another or ends the range,
and replacing a hop by a chain over its layers gives a chain again (`ChainSplice`).
Session ids are pairs of the plan's number and the entry layer; `uuid4` is taken to be
collision-free. `Accounts` is inductive given `Plumbing`: while the client is at work
every hop of the route and of the plan is on its list, and a worker can only get a session
from a request whose hop is on that list or whose server the client has counted as failed.

`GenerationSurvives` says when the failure budget and the capacity suffice. `Enough` asks that
the reliable servers run from the start and cover every layer; that `MaxFailures` is at
least the number of `FailurePoints`, pairs of another server's process and a layer it serves;
and that at each reliable server `MaxFailures` plus what other clients hold is below
`MaxSessions`. Defaults of 8 failures and 64 sessions meet it in small swarms. Then:

- no server fails twice at one layer: it is never planned for again, and the hop at
  which it failed leaves the route. It may still fail at other hops it had before
  (`Suspect`), so the failures so far are counted by a set of failure points that contains
  none of these (`BudgetInv`), and the budget is never exceeded;
- every plan opens one session at a server at most, since its hops tile (`OncePerPlan`,
  `OpenedInv`), and there are at most `failures + 1` plans, so a reliable server is never
  full and refuses nothing (`NeverFull`, `ServedInv`);
- servers that cover every layer can be chained over any range (`AlwaysRoute`), so a lookup
  that succeeds finds a route.

The invariant is `Surviving`. It needs `Accounts`, not `SessionsKept`: restarts and collected
sessions cost exactness, not survival. `Crashes` checks `Survives` with a budget of 2 and
room for 2 sessions, tighter than `Enough`; with the 6 and 7 that `Enough` asks for there TLC
finds as many states, and `Surviving` invariant.

What is computed (`ContentProofs`) has the premise `SessionsKept`, `MaxInc = 1 /\ ~LongIdle`:
no server comes back at the address of a crashed one, and no session in use looks idle.
The code relies on both without checking either (`Evicted` above is what happens without):

- `ContentsCorrect`: `Spec => []Contents`, and from it `OutputAlwaysExact` (`[]OutputExact`),
  `ReplayAlwaysExact` (`[]ReplayExact`) and `CachesAlwaysCaughtUp` (`[]CachesCaughtUp`);
- `GenerationImplemented`: `Spec => ImplementsGeneration`, the refinement;
- `OtherHopsAlwaysUntouched`: `Spec => OtherHopsUntouched`, with `~LongIdle` alone: a
  restart empties a whole process, which the property takes for what it is.

`Contents` says of every hop where it stands in the step in progress: a hop behind the
client has absorbed the whole of it, a hop ahead only what came before (`Seen`), a hop of
a plan that has been replayed exactly the prefix (`HistoryInv`, `SettledInv`). It is
inductive only together with how far the one live call has come (`CalledInv`), whose
request was computed on the cache of that hop and no other, which is what `Fenced` and
`CachesNotShared` are for: the steps of requests whose callers have gone write to caches
that no hop uses. The tensors that travel are then exact because each is computed from
a cache that ends where the tensor begins.

### A policy

For every number of servers, capacity, failure budget and length (`DreamerProofs`), with
restarts and collected sessions, and also for callers that go on after an exception:
`TypesCorrect` (`[]TypeOK`) and `SessionsAlwaysAccountedFor`, from `PlumbingCorrect`, whose
invariant is

    TypeOK /\ PolicyInv /\ CallInv /\ SidInv /\ Fenced /\ Accounts /\ WriterInv

A worker's handler reads a state, awaits the executor and writes back, so two operations
in one session would lose one. There are no two as long as a call the policy has given
up on is to a session it has given up (`Fenced`). This has one exception: over the budget,
`_fail` raises before it detaches (`dreamer/client.py:85`), and a caller that goes on then
calls a session in which the call given up may still be under way. There `OneWriter` is
false. Hence `WriterInv` promises it only while this has not happened, `raised` guards the
parts of `Contents`, and what follows has premises:

- `NeverTwoWriters` (`[]OneWriter`): the caller stops at "too many failures"
  (`~Persistent`).
- `ActingNeverDisturbed` (`ActingUndisturbed`): `~Persistent`, and no session in use
  looks idle (`~LongIdle`).
- `ContentsCorrect` (`[]Contents`) and `StateAlwaysMatchesLog` (`[]StateMatchesLog`):
  `SessionsKept`. `StateMatchesLog` says nothing of the time after the exception.
- `AnswersAlwaysExact` (`[]AnswersExact`) and `LocalBackendImplemented`
  (`ImplementsLocalBackend`): `SessionsKept /\ ~Persistent`.

`Contents` has the state of each session that nothing is being done to (`SettledInv`), and,
for the one call the policy waits for, the state it was made in (`Before`: the log, or
the part of it already replayed) and how far it has come (`Called`). In the refinement
the reply that the policy is handed is the step of `LocalBackend`; everything else is a
stutter.

### Calls over the pool

For any number of callers, calls and connections and any high-water mark
(`RpcProofs`): `NobodyIsForgotten`, `NothingIsLeft`, `CallsUndisturbed`, `TypesCorrect` and
`PoolImplementsCalls`, the refinement of `Calls`. The invariant is

    Kinds /\ Numbered /\ Once /\ Answers /\ Entries /\ NobodyForgotten

where `Numbered` says that a connection's numbers in use lie below its next one and are
each of one call, `Once` that a call has one frame at most, unread exactly
until the peer runs the call, `Answers` that a reply and a resolved future belong to calls that
were run, and `Entries` that a call inside the pool has its own entry only. A late reply
finds no entry because its number is never given again: a client that counted its entries
instead of its calls (`NumberPending`) breaks exactly this. The queue of a write lock is
an invariant of its own (`Lines`): it holds every call that waits for the lock or the drain
of this connection once, and a call that leaves takes out its own place only.

### The search for a route and the choice of a span

For every decoder length, listing and range (`FindRouteProofs`): `SearchTypeCorrect`,
`ReturnsRoute` (`[]FindsRoute`), `NoRouteIsRight` (`[]GivesUpRightly`), `PoppedStaysFinal`,
`RouteIsCheapest` (`[]FindsCheapest`) and `JoinerFillsGap` (`[]JoinFillsGap`). The invariant
adds to the types that the entry of `prev` for a
boundary is a hop that ends there (`PrevInv`), that settled costs are at most the one popped
last and that at most those in the heap (`FrontierInv`), that no candidate is a shorter way
out of a settled boundary (`NoShortcut`), and that what the walk has collected is a chain from
where it stands to the end (`WalkInv`). If the search gives up although there is a chain,
the chain has a hop that enters at a settled boundary and ends at one never reached,
which `NoShortcut` excludes.

That the route is a cheapest one compares sums over sets of hops. One half is `CostInv`:
what the walk has collected and the cost of the boundary where it stands make up
the cost of the end. The other is that along any chain from the start to the
end the cost so far is at least that of the boundary where it stands, or that of the end
already; `NoShortcut`, frozen when the end is popped (`Certified`), bounds each step
(`EveryRouteCosts`).
`PlacementProofs` has what sums need: adding or removing one element, and comparing
two sums term by term, each by the smallest set for which it fails, since the prover has no
induction over sets. It also has why
`choose_span` fills a gap: a span over a layer nobody serves has the minimum zero, every
other has a positive one, and the least key wins.

### Registry and servers

For any number of servers, any ttl, delay, number of missed beats and restarts of the
registry (`MembershipProofs`): `ServersSound`, and from it `TypesCorrect` (`[]TypeOK`),
`LeftAlwaysStaysOut` (`[]LeftStaysOut`) and `DeadAlwaysUnlisted` (`[]DeadIsUnlisted`);
and, with the premise `LongestGap <= Ttl /\ MaxDelay > 0`, the arithmetic that makes a
ttl of three periods right, `ServingAlwaysListed` (`[]ServingIsListed`),
`AlwaysJoinsLeastServed` (`JoinsLeastServed`) and `JoinsAlwaysWhereNeeded`, all three of a
registry that has been up for `LongestGap`. `Sound` says what a server can have on the wire
in each of its states, and how old its entry can be: nobody who has left has a word or an
entry, and who died while `a` of a call's time was used up is listed for `Ttl + MaxDelay`
at most. `Fresh` counts backwards from the ttl: after `m` missed beats, and so far into the
current sleep or call, at least the rest of `LongestGap` is left of the entry.

What a joiner is told lies between two sets it cannot see: whoever serves is listed
(`Serving`, by `ServingIsListed`), and whoever is listed has announced itself, has not
deregistered and has not been dead for longer than `Ttl + MaxDelay` (`MayBeListed`, by
`Sound`). The span it takes is the right one for some swarm between the two
(`JoinsLeastServed`, which `Heartbeats` checks). `JoinsAlwaysWhereNeeded` draws the
conclusion from `ChosenSpanFillsGap`: if some layer is held by nobody who may be listed, it
takes a layer that nobody serves. This takes three servers to go wrong and is proved
only. Nothing is promised of the time between the look (`cli.py:70`) and the announcement
after loading: two servers that look at the same time choose the same layers, and the code
has nothing against it.

### The encoder cache

For any number of images, encoders, concurrent requests and any size of the cache
(`EncoderProofs`): `CacheSound`, and from it `TypesCorrect` (`[]TypeOK`), `AnswersAlwaysOwn`
(`[]AnswersOwn`) and `AlwaysFailsOver` (`[]FailsOver`). The invariant is that of a cache
that anybody may change between two steps of a request (`Caches`: an image once, with its own
embedding, within the size), and for each request what it has to show for itself
(`Right`): an input was answered by itself, or has failed at `tries[k]` encoders one
after the other, none of which is reliable (`Trying`). As many turns as there are
encoders reach all of them (`TurnsReachAll`), so a request gives up only if none is
reliable. What a request reads back after a fold of insertions and moves is right because
each insertion keeps `Caches` and each move keeps the entries besides; a fold is a chain of
intermediate results (`FoldExists`, `FoldReaches`), and the step at which a
property would break first does not exist. `SplitJoins` shows for any batch and number of encoders that
the chunks put together are the batch, which is arithmetic about where `tensor_split` cuts.

### Assumptions and limits

The assumptions are those named in the modules: `LayersAssumption` (there is a
layer), `SpansAreValid` (a server's span is a non-empty range of layers, as
`DecoderSpan.__init__` checks), `WorkerBoundsAreValid`, `SessionParametersAreValid`,
`RpcParametersAreValid`, `MembershipParametersAreValid` and `CacheBoundsAreValid` (types of the
parameters, finitely many peers, positive throughputs, no empty batch) and `OffersAreValid` (an announced span is a
non-empty range of layers, its throughput positive, and the servers are finitely many).
TLC evaluates them in every run of the module.

What stays with TLC:

- liveness (`Terminates`, `ImplementsLiveGeneration`, both `CallsEnd`): fairness and
  enabledness are out of the prover's reach;
- the four counterexamples.

## Not modelled

- Adapters, checkpoint, the models' parts and the tiny models: arithmetic and files. They
  enter by what `DecoderSpan.forward` needs of its cache to be right, and by the seeded
  RSSM being a function of state and operation.
- What a frame carries (`wire.py`): packing and unpacking tensors is pure data. That a
  frame cannot be decoded is modelled (`ReceiveBad`, and `ServeEnd` at the server).
- The rest of the command line: argument parsing, printing, and straight-line calls of
  parts that are modelled.
- The filters of `Registry.list` by model and kind: the callers' models list the servers
  of their own kind.
- In `Membership` a registry call takes at most `MaxDelay`. In the code `_announce` passes
  no timeout, so the pool's 60 seconds apply, four times the ttl: a registry that stalls
  for that long lists nobody, and the model says nothing of it.
- A pool used after or during its `close()`: `PoolClose` happens to calls under way,
  nothing is said of the connection a `get()` then opens.
- `measure_throughput` and `info`: they change no session.

## Plan

1. *Done:* the models and runs of generation, Dreamer, encoder cache, `Rpc`, `Membership`,
   `Placement` and `FindRoute`.
2. *Done:* proofs of the invariants, action properties and refinements of generation, policy,
   pool, search and registry.
3. *Done:* the proof of `Survives`.
4. Next: the same for the failure budget of a policy's session (`StatefulSession`), once a
   property states when it suffices.
