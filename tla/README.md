# A TLA+ development for saas-reaper

saas-reaper is two programs and a generator. `internal/flags` and the packages
around it are a feature-flag service. `specimens/ingress-tunnel` is an ingress
tunnel: agents behind a firewall hold a link to a server, and the server routes
a subdomain's visitors over that link. `internal/factory` renders flag services
in several languages from templates. The tunnel carries most of the concurrency
and failure handling, so it is modelled first and in most detail.

## Inventory

| Component | State | Operations | What makes it correct |
|---|---|---|---|
| Lifecycle table (`tunnel/transition.go`) | none | `Transition` | total, never asked for the pair it panics on |
| Tunnel service, registry, claim store (`tunnel/tunnels.go`, `registry.go`, `store/sqlite`) | claims, audit rows; routing table, takeover marks, generation; one mutex | `Claim`, `Revoke`, `Authenticate`, `Attach`, `Lost` | audit, claims and routing table agree; a late loss detaches nobody else; a revoked claim is not served; takeovers are spaced |
| Accept handler (`link/accept.go`) | tracked sessions, closing channel, wait group | `ServeHTTP`, `serve`, `Shutdown` | no link writes to the store after `Shutdown`; `Shutdown` returns; every link it ended is recorded |
| Agent (`agent/agent.go`, `link/dial.go`) | failure count, current link | `Run`, `attempt`, `pause` | a lost link is retried; a beaten agent stays away; never everybody stops |
| Link session (`link/link.go`) | `closed`, multiplexer | `Open`, `Close`, `farewell`, `cut` | no stream leaks; a wedged agent cannot delay the cut |
| Edge proxy (`edge/proxy.go`, `observe.go`) | one recorder per request | `ServeHTTP`, `dialRoute`, `record` | a link closed before the request came gives it no stream; an evicted link ends its requests; what is observed is what was sent |
| Flag publication (`flags/publish.go`, `snapshot`, `store`) | flags and audit tables; in-process snapshot | `Publish`, `Open`, `List` | no lost update; the snapshot never goes back; a publication is shown |
| Evaluation API (`api/evaluate.go`) | client caches, by ETag | `evaluateAll` | a 304 never hides a change |
| Flag evaluation (`flags/evaluate.go`, `flag.go`, the generated policy) | the stored definition | `Validate`, `Decode`, `evaluate` | a readable definition always decides, by approved attributes only; a ramp keeps its subjects |
| Generated stores (`templates/languages/go/*/internal/store`) | flags, audit and sequence counter in SQLite, Postgres, MongoDB or Couchbase | `Publish`, `Load`, `Audit` | a publication takes effect once, at once and on the revision it names; conflicts are true; the audit keeps its order; everybody is answered |
| Factory (`internal/factory`) | destination directory and archive, staging and temporary files | `Generate` with its rendering, packing, publication and rollback | nothing is overwritten; what is there is whole; a failure leaves what the system refused to remove, and nothing else |
| Recipe front ends (`cmd/reaper`, `internal/configurator`, `factory/catalog.go`, `validate.go`) | the recipe being asked for | `configure`, `generate`, `Validate` | what is offered is accepted |
| Management API (`specimens/.../api`) | requests under way, answers given | claim, revoke, list | an answer stays true; a view is of one moment; everybody is answered |

Interaction: the accept handler calls the service from one goroutine per link;
operators call it through the management API; the edge reads the registry
without the service's lock; the agent only ever sees HTTP answers and close
frames. The flag service's publishers and evaluators share the snapshot under a
read-write lock, and publishers share the store's transactions. Generators share
nothing but the file system. A recipe's language, database and attribute list become
the code of a generated service; its replicas share nothing but the database.

What is hard: a claim is read before the WebSocket upgrade and used after it;
losses are reported long after they happened and out of order; the store commits
before volatile state changes, so a crash or a failed write falls between; the
close frame that decides whether an agent retries may be lost; the two ends of a
link disagree for up to a keep-alive; shutdown races requests that already passed
its gate; an `Open` abandoned by its visitor still gets its stream; generators
check a destination long before they publish to it, in two steps that a kill can
separate; an operator whose answer was lost retries what already happened; four
databases guard one publication in four different ways; a definition outlives the
build that accepted it. `PROJECT.json` lists these as hazards, each at its line with the
properties that cover it.

## Modules

* `TunnelLifecycle` is the transition table as operators. Where the code panics
  it answers `"panic"`, which `NeverPanics` shows unreachable.
* `TunnelService` is the core. `claims` and `audit` are the database; `live`,
  `superseded` and `generation` are process memory; `mu` is `Service.mu`. A
  critical section that commits and then changes memory (`Attach`, `Lost`,
  `Revoke`) is two actions that hold `mu` between them (`AttachCommit` and
  `AttachInstall`, `LostCommit` and `LostDetach`, `RevokeCommit` and
  `RevokeEvict`), so that a crash, a session's end and readers of the routing
  table can fall in the middle. `Authenticate` is its token lookup outside the lock
  (`Lookup`) and its cooldown check under it. Each refusal is an action of its
  own, and a failing store call is one where `StoreFails` allows it. `Restart`
  keeps the database and drops everything else. `boot` is a history variable: how
  many rows an audit had when the process started.
* `TunnelApi` puts the management and read routes in front of the service: each caller
  has one request under way and sends the next when it has an answer or lost the
  connection, so a retry is the same request again. Authorization and decoding are
  the status they reject with. It conjoins the service's own `Claim`, `RevokeCommit`
  and `RevokeEvict`; `ListTunnels` reads claims and routing table under `mu`.
* `LinkHandler` adds the handler's tracked set and `Shutdown` to the service. It
  extends the service and conjoins its actions, so each composed action is the
  whole handler step. `Served` says when a handler returns: after `Lost`, or, when
  `Attach` refused its session, once that session has ended, which the agent's
  acknowledgement, the grace of the farewell or the deadline brings about. A session
  that `track` refused is not counted by the wait group, so its own wait is left out.
* `TunnelAgents` puts agents and the network in front of that handler. `ServeDialled`
  takes any step of the handler for a dialled link: refusals, failing lookups, attaches
  and loss reports, failed upgrades, the close frame of a shutdown. `Disturb` is the
  operator, who revokes or stops the server, and `ServerDies` the death of the process.
  `deadAt` records when the first end of a link was gone; the other end must notice
  within `KeepAlive`. What is `Busy` takes no time on the model's clock (`Pass` waits for
  it), as milliseconds against seconds: handlers, handshakes, farewells, a shutdown, a
  pause that is over. The history variable `met` names the agents whose redial found
  another link of their own in the routing table (`MeetsItself`), half-open or left
  there by a loss report that failed.
* `FlagRegister` is the abstract promise of the flag service: a history per flag
  that only grows and a shown entry that only moves forward along it.
* `FlagService` is publication (`StorePublish`, then `Put`), conflicts and
  retries, bulk evaluation with ETags, and restarts.
  `Register == INSTANCE FlagRegister WITH ...` is the refinement mapping: the
  audit is the history, the snapshot is what is shown.
* `EdgeProxy` is a visitor's request against the sessions of one subdomain: the
  lookup, `Session.Open` with the goroutine it starts and the goroutine that drains
  a late stream, the answer, its failures and the observation. Sessions are attached,
  evicted, shut down and lost meanwhile, each through `Close`, `CloseFrame` and `Cut`
  as in `link.go`. The service's decisions are not repeated here: a session is
  replaced or evicted at any time. `Truncate` is an agent, or the origin behind it, that
  ends one stream while its link lives. `Stall` is a visitor who stops reading and stays:
  the edge has no write timeout (`cmd/reaper-tunnel/main.go` says why), so the copy is
  held in its `Write` whatever becomes of the stream; an upgraded connection whose
  visitor is silent counts as one. `body` is how much of an answer's body was sent; a
  body is taken to be framed, so that its reader can tell a whole one from a part.
* `Factory` is `Generate` as one process per generator, all for one destination: the
  checks, staging, rendering, the temporary archive and its packing, its link, the
  rename of the directory, the rollback and the cleanup. Every file operation may fail
  where `IOFails` allows it, the two deferred removals included, whose errors the code
  ignores (`CleanupFails`, `RemoveTemporaryFails`), and a process may be killed
  between any two where `Crashes` does. `directory` and `archive` say whose output is
  there; `leftStaging` and `leftTemporary` are what could not be removed. The
  destination's parent directories, which `Generate` makes and keeps, are not
  modelled.
* `FlagEvaluate` is `Validate`, `Decode` and `evaluate` as operators over an arbitrary
  but fixed hash; a flag's key is taken to be valid. Its actions publish a definition,
  ramp its rollout, and replace the running build by one that approves other
  attributes. `rereads` says whether the store validates what it reads: the Go packs
  do, the others only parse.
* `Configurator` is the catalog and `Validate`, and the three ways to a recipe: the
  questions of `reaper new`, a recipe file and a browser's request. A recipe's
  schema, capability and tenant are one Boolean, `identified`: the questions always
  fill them in, the other two ways may not.
* `GeneratedService` composes the two: an accepted recipe's language and attributes
  become the policy of the service it generates (`Deploy`).
* `FlagAuthority` is the abstract promise a generated service's store makes its API: a
  publication takes effect at one moment between call and answer, at most once, on
  the revision it names, and a conflict is true when it is decided.
* `GeneratedStores` is `Publish` of the four Go stores, one action per statement or
  call of the database, for requests of any number of replicas. `Read`, `Write`,
  `Advance` or `Draw`, and `Commit` are shared by the databases; what guards them
  differs: SQLite has one connection (`connection`), Postgres a row lock and the
  unique index (`owner`), MongoDB a snapshot (`basis`), write conflicts and a driver
  that starts over (`Transient`), Couchbase a CAS. `Fail` is a failing call, a lost
  answer or a dead replica, with its transaction rolled back; on MongoDB the driver
  starts over after a lost connection or a step-down too (`TransientFails`), which ends
  the transaction before. `LoseConnection` is the case in which `Publish` answers an
  error while the database still has the transaction, or the `Insert` or `Replace`:
  the request is `doubtful`, and either `CommitLate` lets it take effect after all or
  `Abandon` is the database giving it up. A Couchbase `Increment` that is lost the same
  way only skips a number, as `Draw` followed by `Fail` does. `Load` and `Audit` change
  nothing and are operators, so they do not compete for the one connection of SQLite.
  `Authority == INSTANCE FlagAuthority WITH ...` maps the audit to the history and the
  stored document to what `Load` returns, and `CommitLate` to `ApplyLate`.
* `MC*` modules add symmetry sets and values for TLC. `XProofs` holds the TLAPS proofs
  about module `X`: `TunnelServiceProofs`, `TunnelAgentsProofs`, `FlagServiceProofs`,
  `GeneratedStoresProofs`, `GeneratedServiceProofs`, `EdgeProxyProofs` and
  `FactoryProofs`; `TunnelFrontProofs` holds those about `LinkHandler` and
  `TunnelApi`. The inductive invariant of each proof stands at the end of the module
  it is about.

Definitions marked "Mutant" are deliberately wrong versions of a definition; with
the definition replaced, TLC must refute the property that `PROJECT.json` names.
No specification uses them.

## Runs

| Run | Instance | Shows |
|---|---|---|
| `tunnel_service` | 1 subdomain, 2 tokens, 3 links, cooldown 2, clock to 2, store may fail | the audit tells the status and is a legal lifecycle word; no panic; marks mean takeovers, and takeovers are spaced; only the holder is routed to, none is orphaned; reasons are true; service ends for a reason |
| `tunnel_api` | 2 callers, 1 link, handlers' writes succeed, calls may fail | answers of claim and revoke stay true across retries and restarts; views are of one moment; an ended link leaves the table; every request is answered |
| `link_shutdown` | 2 links, store may fail | `Shutdown` returns, leaves no loss unreported, and nothing is written by a link afterwards; routed links are tracked |
| `tunnel_agents` | 2 agents, 3 links, cooldown 2, keep-alive 1, pauses of 1, clock to 2, store may fail, revocation, shutdown and crashes | an agent stops only if beaten or revoked, or if its redial met a link of its own; where none did, some agent keeps running |
| `flag_service` | 2 flags, 2 definitions, 2 publishers, 1 client, 2 revisions | no lost update, read-your-write, safe ETags; refinement of `FlagRegister`; what is published is shown |
| `edge_proxy` | 2 sessions, 1 request, truncating agents, visitors who stop reading | no stream on a link closed before the request; observations are true; eviction ends requests even against a wedged agent, unless their own visitor holds them; no stream leaks |
| `factory` | 3 generators of any format, failures, failed removals, kills, older output | what is delivered is whole, winners keep theirs, a failure leaves only what could not be removed, nothing is overwritten |
| `generated_service` | names, replicas and attribute lists at the edges of the rules; then definitions of up to 2 rules, all contexts, 3 buckets, builds with other attributes | default answers are accepted; a readable definition decides; only approved attributes decide; a ramp only adds subjects, from nobody at 0 percent to everybody at 100 |
| `generated_stores` | 4 databases, 3 publications of 2 flags, failures at every call, calls lost on their way, 1 restarted transaction | each store implements `FlagAuthority`; the audit keeps its order; every publication is answered |

Three runs refute something the repository says:

* `half_open`: `agent.go` promises that a lost link never ends the agent. An agent
  alone on its claim loses its end of a link and redials before the server noticed:
  it supersedes its own stale link, which starts the cooldown. A second such loss
  within the cooldown is answered 409, which `RejectedError.Permanent` makes final.
  In the same way the winner of a takeover can be shut out by its own half-open link
  after the loser has stopped, which leaves the claim with no agent. The instance has a
  store that never fails; a loss report that fails leaves an ended link in the routing
  table and leads to the same end, without any half-open connection.
* `loser_returns`: the specimen's README says a loser that missed its 4001 stops on
  its next dial and that two agents can never flap. If the loser's dials fail until
  the cooldown has passed, it takes the claim back.
* `loss_unrecorded`: `registry.go` says a failed audit remains retryable. `serve`
  reports a loss once and logs the error, so the ended link stays in the routing
  table until another link attaches. `tunnel_api` checks the same property with a store
  that takes the handlers' writes.

Smaller things a reader of the models will notice and no run states:

* an `Open` that read the closed flag before `Close` set it still gets a stream,
  until `farewell` cuts the session;
* a directory generator and a zip generator for one destination look at different
  paths and may both succeed;
* a visitor who neither reads nor leaves holds his request, evicted link or not, until
  the operating system gives the connection up;
* a publication that was answered with an error may take effect after the answer, and
  its retry then conflicts;
* a `Generate` of both formats killed between the link and the rename leaves the
  archive, whole, alone;
* a 201 that is lost takes the only copy of the token with it: the claim stands, a
  retry is told 409, and only a revocation gets rid of it, for good;
* on Postgres and Couchbase the audit sequence is drawn before the commit, so across
  flags a later publication may carry the smaller number and a listing may later
  show a row below one it already showed;
* after a build that approves fewer attributes, a Go service refuses a stored
  definition that uses a withdrawn one until it is published again, while the
  TypeScript and Python services go on deciding by it.

Bounds. Three links are the least for a takeover, a second takeover within the first
one's cooldown, and a late loss of the first; two show races of one pair. One subdomain
is enough for the audit, whose properties speak of one at a time; routes of two
subdomains cannot cross in it, and that they never do is only proved, for every set of
them (`RoutingIsSafe`). Two publishers hold at most two results that are not shown yet,
so two revisions of a flag are enough for every order of them. Generations and revisions
are bounded by the links and by `MaxRevision`; claims reach revision 2 and no further
because a revoked claim is never claimed again. `MaxTime` is at least the cooldown where
links contend, so both sides of the comparison are reached. In `half_open` and
`loser_returns` keep-alive and cooldown keep the order of the code's 20s and 60s, with a
first delay no longer than either. In `tunnel_agents` every pause is 1, as long as the
keep-alive, so that a redial comes before or after the server notices a loss, and
shorter than the cooldown, so that it can be refused; a longer pause is one after which
the dial fails. Its state is seen through `VIEW Seen`: two states are the same to TLC if
they differ only in audit rows, which neither a guard nor its two invariants read, in
links that the handler, the table and their agents have all left, of which only the
owner and whether it was attached can still matter, in how long a pause or a cooldown
has been over or outlasts `MaxTime`, or in the numbers of generations. `CONSTRAINT
Contested` stops where neither invariant can fail any more: at a revocation that has
evicted, and where some redial met a link of its own and every agent has met one or was
beaten; neither is ever undone. `tunnel_api` leaves out the handlers' store failures,
for they make `EndedLinkLeaves` false; the lock's release on those paths is exercised by
`link_shutdown`. Requests share nothing but the sessions, which do not notice them, so
one request meets every interleaving with the session it looked up and its replacement.
Three generators allow one to win, one to fail halfway and one to roll back at the same
time. Buckets 0, 100 and 9999 with ramps to 0, 1, 50 and 100 percent lie at both sides
of every threshold: 0 is the first bucket, which 0 percent must not take, 100 the first
that 1 percent must not, and 9999 the last, which 100 percent must. Two callers and one
link are the least for a retry by somebody else while an agent connects. The clock
stands still in that run: it decides takeovers only, and one link makes none. Three
publications of two flags give a creation race, two updates from one basis, a chain of
revisions and two flags that meet on the counter; one restart per transaction shows what
a second attempt finds. Requests and flags are interchangeable there and the calls never
change, so `CONSTRAINT InOrder` keeps one of the initial states that differ in names
only. A client's context for evaluation does not vary in `flag_service`, so of the two
parts of an ETag only the definitions move. `CHECK_DEADLOCK FALSE` appears where the
modelled work ends: agents that used their dials, requests that were answered,
generators that returned, a recipe that was refused, publications that returned.

Fairness. `ServiceFairness`: a goroutine that can proceed does, a critical section
that began ends, and `sync.Mutex` starves nobody, which is strong fairness of the
calls that wait for it (Go's mutex hands over to a waiter after a millisecond).
`ApiFairSpec` adds the same for the calls of operators and readers. `LinkHandler`
needs weak fairness only, and a deadline of the context given to `Shutdown`, which
`cmd/reaper-tunnel` sets to 20 seconds. Nothing is assumed of agents, operators,
visitors or the clock. `FlagService` assumes that a handler whose transaction
committed reaches its `Put`, or the process dies and restarts. `EdgeProxy` assumes
that its goroutines run, that the farewell's timer fires, and that a copy whose stream
has ended ends, unless its visitor is stalled. Nobody has to answer, to read or to leave:
nothing is assumed of agents, visitors or operators, nor of the timeout for an answer's
header, which starts only when the visitor has sent the whole request.
`EvictionEndsRequests` therefore says "or stalled"; when the visitor reads on or
leaves, the same fairness ends the request. `GeneratedStores` assumes that a handler
whose statement can run runs it, and that a database does not keep the transaction of
a lost client for ever (`Abandon`; a server closes it when the connection is reset or
its own limit passes), and nothing of faults or retries. `Factory` has no fairness:
no property says that `Generate` ends, which is a straight line.

## Proofs

All the safety properties of the passing runs are proved, and so are the two
refinements. Every theorem holds for every value of the constants that meets the
assumptions of its module, and three theorems about agents have a hypothesis of their
own; each inductive invariant was first checked by TLC on the instance of the
component's run. Each proof has one step
or lemma per action, and under it one step per conjunct that the action can disturb.

### The tunnel service

`TunnelServiceProofs` proves, for every set of subdomains, tokens and links, every
cooldown and clock bound, and stores that fail or do not: `TypeOK`, `NeverPanics`,
`RoutesToHolder`, `NoOrphanedLink`, `ReasonsAreTrue`, `AuditTellsStatus`,
`AuditIsALifecycle`, `MarkMeansTakeover` and `TakeoversAreSpaced` as invariants of
`Spec`, and the action property `ServiceEndsForAReason`. The assumptions are that
`None` is no subdomain, token or link and that subdomains and links are different
values.

None of them is inductive alone; `IndInv` adds what the first ones rest on:

* `LockInv`: a handler is between its commit and its memory change exactly while it
  holds `mu`, and `mu` is held by a subdomain only while that claim is revoked.
* `HeldInv`: a handler's claim is the stored one with the same token (claims are
  never reissued), and a link that was not admitted has no generation or reason.
* `RouteInv`, `GenerationInv`: a routed link holds that subdomain under its own
  generation, and generations of links that can still report are distinct and at
  most the counter. This makes `Matches` mean "it is I who serve", which
  `ServiceEndsForAReason` needs.
* `RevokedInv`: outside `Revoke`'s own section a revoked claim has no link, and a
  link between commit and install holds an active claim.
* `OrphanInv`: a link whose loss is being recorded is the routed one, and an
  attached link is routed or was told a reason.

The properties of the audit hold when `mu` is free, or speak of all its rows. The
second invariant, `AuditIndInv`, is `AuditInv(s)` for each subdomain, and says what the
rows tell in the middle of a critical section too:

* `RowsTellClaim`: the last row tells whether the subdomain is claimed and revoked.
* `RowsTellPresence`: outside a section (`Settled`) the last row tells presence,
  generation and mark. `RowsTellSection`: between a commit and its memory change it
  tells what the change will be.
* `FollowsLegally`: every row follows its predecessor by the lifecycle table, or across
  a restart, whose rows are those up to `boot`.
* `MarkCoversTakeovers`: every takeover with no disconnection after it
  (`OpenTakeover`) is covered by the mark, at a time not before the row's, or by a
  link about to set it. The cooldown check compares with the mark only; this is why
  it spaces rows of the audit.

### In front of the service

`TunnelFrontProofs` first proves that a handler step is a step of the service for
these invariants (`HandlerKeepsService`), so that they need not be proved again. On
top of them `HandlerInv` says that a session between `Attach` and the return of `Lost`
is tracked and that `Shutdown` returned with nothing tracked and nothing was since.
From it follow `RoutedLinksAreTracked`, `ShutdownIsRecorded` and, as an action property,
`NoLinkWritesAfterShutdown`.

It then proves that every behaviour of the API is one of the service
(`RoutesDriveService`) and, with `ApiInv`, `AnswersStayTrue` and `ViewsAreConsistent`,
for any number of callers. An answer is true because of what happened before it was
given, so `CallInv` carries it through the call: `ClaimedBy` and `RevokedBy` say which
call made a claim or a revocation, so that no two of them can be answered success.

### Agents

`TunnelAgentsProofs` proves that every behaviour of the agents, the operator and the
network is, on the server, one of the accept handler over the service
(`AgentsDriveHandler`), so that claims, routes, audit and the spacing of takeovers are as
proved above (`AgentsKeepService`). What follows is about `Agent.Run`, which gives up for
good on some answers, and about its promise that "a lost link never does" end it. Three
theorems need no hypothesis on the keep-alive, the schedule, the store or the number of
agents, links and claims, and hold through shutdowns and crashes:

* `StopsAreExplained`: if an agent stopped, the audit of the claim has a `superseded`
  or a `revoked` row. A 409 comes from a mark, a mark from a takeover, and a takeover
  committed its row before anybody was told.
* `OnlyTakeoversStop` (`StopsOnlyByTakeover`): an agent that stopped while its claim is
  active and no other agent's link ever attached had met a link of its own in the routing
  table: a half-open one, as in `half_open`, or one whose loss report failed. These two
  are the only ways in which a lost link can end an agent.
* `ClaimKeepsAnAgent` (`SomeAgentSurvives`), if there is an agent at all: as long as the
  claim is active and nobody met a link of its own, not all have stopped. The condition
  is needed: a winner that is refused because of its own half-open link stops after the
  loser did.

Two more assume `LossNoticedFirst`, that every delay of the schedule is longer than
`KeepAlive`, and a store that does not fail. The program meets the first as long as a lost
connection is closed or reset and the server sees it at once; with a half-open
connection it does not, for the first delay is 1 second and the keep-alive takes up to
20, and `half_open` shows that this hypothesis cannot be dropped; `loss_unrecorded` shows
what happens to the routing table without the second. No passing run checks these two:

* `AloneInductive`: no agent has two links at once, the routing table holds none that has
  ended, and nobody meets a link of its own.
* `OnlyTheBeatenStop`: hence `StopsOnlyWhenBeaten`.

`AgentInv` is the unconditional invariant. `DialledInv` says who works on which link,
`CredentialInv` that at most one claim has the shared credential, `ToldInv` that a link
about to be routed has been told nothing and a refused one is through, `ExcusedInv` that
each permanent answer has its row, and `DeadInv` that half a link lasts no longer than
`KeepAlive`, because the clock waits for the other end. An agent is `Doomed` when it has
stopped or a close frame under way will stop it. `CauseInv` says why; `EarlyInv` that a
link not yet attached is the one its agent is on, or that agent pauses, so that a
second dial finds the first in the routing table or gone; `SurvivorInv` that whoever
holds the route is not doomed and somebody is not even when the route is free.
`AbandonedInv` is the core of the conditional part: a link that its agent has left is
gone before the agent's next dial.

### Flags

`FlagServiceProofs` proves `NoLostUpdate`, `AnsweredIsVisible`, `ETagNamesOneResponse`
and the refinement `Spec => ImplementsRegister`. `Published` says what it is to be an
entry of a flag's history; `StoreInv` that the stored definition is the last entry and
every row replaced the one before it; `ProjectionInv` that the snapshot and what
clients hold are entries of the history, which makes a revision name one definition;
`PublisherInv` that so are the result and the definition a publisher holds. The
refinement maps `StorePublish` to `Publish`, a `Put` that wins and the reload of a restart
to `Show`, and a `Put` that arrives late to a stutter.

`GeneratedStoresProofs` proves, for all four databases, any publications, flags and
retries, `AuditKeepsOrder` and the refinement `Spec => ImplementsAuthority`. `StoredInv`
ties the document to the last row; `HolderInv` says who can hold the connection, a
row or the counter; `BasisInv` that a flag never moves back behind what a publication
read; `GuardInv` that whoever holds its database's lock still has the flag as it was
read, while Couchbase compares the CAS when it commits; `NumberInv` and `RowsInv` that a
drawn sequence is new, and above the flag's rows as long as the flag has not moved.
`DoubtInv` says that only a publication that has begun can be in doubt, and keeps all
it held until it commits late or is abandoned; `PublishedInv` that what has not committed
stands in no audit, which makes a late commit the first of its publication. Only the
commit that passes its guard changes the abstract state, whether `Publish` still waits for
it or has answered an error; every other step stutters or decides a status, and the
proof goes through the databases at that one point.

`GeneratedServiceProofs` proves `OffersAreAccepted`, `DecisionsAreDefined`,
`OnlyApprovedDecide` and the action property `RampKeepsSubjects`, whose exact edges are
the lemma `EdgesAreExact`: 0 percent takes no bucket below 10000 and 100 percent every
one. The hash is any
function to buckets below 10000 and the drafts are any set of records of the fields of
`Flag`. `StoredInv` says that a stored definition is `Resolvable`: the part of `Validate`
that no later build can take back, which is all that `Evaluate` needs when a store only
parses what it reads. `AskedInv` says what the questions have settled so far. That a
matching rule has a first one is the well-foundedness of the naturals (`LeastExists`).

### The edge and the factory

`EdgeProxyProofs` proves `TypeOK`, `NeverOnAClosedLink` and `ObservationIsTrue` for any
number of requests and sessions. `StreamInv` says that a stream exists only after
`Open` saw the link not closed, hence not closed when the request arrived; `AnswerInv`
that the recorder has what the visitor was sent at every point of the handler, and that
a body begun is whole when the handler returns and only a part when it panics, which
gives "aborted exactly when cut short" in both directions.
`OthersKeep` shows that a request's step leaves the others' invariant alone.

`FactoryProofs` proves, for every set of generators, whatever formats they choose,
and with or without failures, kills and older output: `WinnersKeepTheirs`,
`FailureLeavesNothing` and `DeliveredIsWhole` as invariants and the action property
`NeverOverwritten`. The assumptions are that the two markers for "nothing" and "of
an earlier day" are no generators and that `IOFails` and `Crashes` are Booleans. The
properties say what a finished generator left; `IndInv` says it for each point of
`Generate`:

* `FilesInv`: which staging and temporary files a generator has at each step, and that
  one that has returned has only those whose removal failed.
* `ResultInv`: a success has its artifacts at the destination, whole; a generator that
  is rolling back has failed.
* `OwnerInv`: the archive is its own from its link on, unless it rolled it back, and
  only a success owns the directory. This is what makes `os.Remove` by name safe: the
  archive a generator removes is one it linked, since `link` fails on an existing file.

`OwnStep` shows that a step keeps the invariant of the generator that took it and
`OthersUntouched` that of every other one, which holds because nobody overwrites.

### Only model-checked

All liveness (`EndedLinkLeaves`, `RequestsAreAnswered`, `ShutdownTerminates`,
`PublishedIsEvaluated`, `EvictionEndsRequests`, `NoStreamLeaks`, `PublicationsReturn`):
fairness and `ENABLED` are out of this prover's reach, and so is induction over data. No
module with a proof uses a recursive definition.

## Plan

1. Done: the service, its handler, its API and its agents, the link session and the
   edge, flag publication and evaluation, generation, its front ends and the stores it
   generates, and the proofs above.
2. Left: nothing that TLC checks as safety is without a proof; liveness stays with
   TLC.

Not modelled, and not planned: header rewriting and the grammar of host names, what
the templates render, deployment packs, scripts, metrics, HTML, terminal presentation
and the audit listings, which keep no state and decide nothing the properties
are about.
