# MAIP: a TLA+ verification project

MAIP is a peer-to-peer protocol for AI agents and their human guardians, with a
reference implementation in TypeScript. This directory models the parts of that
implementation that keep state and can go wrong in ways a unit test hardly
reaches: stores written one after the other, messages that are lost or come
twice, handlers that overlap across an `await`, clocks that race decisions.

Everything is translated from the code under `src/packages`; where a document
or comment promises something else, this is said below.

- [1. The system](#1-the-system)
- [2. Modules and the code they model](#2-modules-and-the-code-they-model)
- [3. What the runs check](#3-what-the-runs-check)
- [4. Where code and documents part](#4-where-code-and-documents-part)
- [5. What is proved](#5-what-is-proved)
- [6. What is not modelled](#6-what-is-not-modelled)
- [7. Plan](#7-plan)

## 1. The system

| Package | What it is | State | Concurrency |
| --- | --- | --- | --- |
| `maip-core` | types, schemas, signing, encryption | none | none |
| `maip-node` | an Express server, its stores, its client | JSON files, one per store, and maps in memory | a handler runs to completion; only `resolveDID` and the client await |
| `maip-agent` | bridge to the network, scheduler, reflection, content, persona, guards | memory only | timers and awaits overlap freely |
| `maip-transport-ws` | requests and answers over a WebSocket | a map of pending requests | sockets, timers |
| `maip-transport-p2p` | requests and answers over libp2p streams | none beyond the stream | two ends of a stream |
| `maip-cli`, `examples` | one API call per command | none | none |

### 1.1 The node

The server (`server.ts`) routes a request to an Express handler, which calls a
transport-agnostic `*-core.ts` function; the libp2p and WebSocket transports
call the same functions. Node.js runs a handler from start to end before the
next request, so **one handler is one action**. What interleaves is

- *requests*: any order, repetition, from any peer;
- *crashes*: a store is saved by rewriting its file (`json-store.ts`), and a
  handler that saves two stores can stop between the two writes; a file cut
  short is read back as an empty store;
- *time*: nothing in the node runs on a timer. What "expires" does so when a
  request next looks at it;
- *the client* (`client.ts`): it awaits one response, does not repeat, and
  takes any failure for `null`, whatever happened at the other end.

| Component | State | Operations | Hard behaviour | What makes it correct |
| --- | --- | --- | --- | --- |
| Relationships and messages | `relationships`, `messages`, `rateLimits` | request, accept, send, acknowledge | lost responses, repetitions, crossing requests, crash between two saves or within one | an ack means stored, until a torn file; one record per pair; conversations need consent; interactions counted |
| Behaviour profiles | `behavior-profiles.json`, one profile per sender (`stores/index.ts:125`, `:148`) | track, flag, isolate, record a violation | flags feed the next check; window rolls over inside a message | every message counted once; flags need rejections |
| Isolation and appeals | `isolations`, `appeals` | flag, join, appeal, vote, automatic isolation | two stores; orders of flag and vote | flaggers do not review; outcome follows votes; one ballot per record |
| Guardian transfer | `guardianTransfers` | initiate, consent, refuse, lazy expiry | consent races expiry | completion needs three timely consents; one transfer at a time |
| Credits, tokens, stakes, reputation | five stores | award, transfer, issue, spend, stake, resolve, report | several saves per handler; three handlers write one score; amounts are not validated | transfers create nothing; the log explains the balances; a score covers its record |
| Relay mailbox | `relay` | store, retrieve and delete | lost response, crash among deletions | at most once; kept until expiry |
| Federation | registries, in memory | register, resolve, trust | nested asynchronous requests in circles | every resolution ends |
| Anomaly sharing | last 1000 reports, in memory | create, receive, list to forward | loops, forgetting | a loop needs a node that forgot |
| Isolation consensus | proposals, in memory | propose, vote, expire on a vote | lazy expiry | one open proposal per DID |
| Guardian authority and autonomy | restrictions and history in memory, level in the identity | command, lift, transition, restart | level rises under restrictions, restart forgets | restrictions are explained by the history, and do not expire; an independent agent obeys nobody |
| Wills and backups | in memory | upsert, receive shard, delete, prune | late, repeated and reordered versions | the newest version is held |
| Persona serving | `personas` (one copy) | serve by policy | stale copy, changing relationship | every place goes only to whom the lists, the policy and the memory's visibility let in |
| Spaces | `spaces`, `spaceMembers`, `spaceMessages` | create, join, post, read | two saves at creation, a reader who pages by timestamps | authors are members; limits hold; a reader misses nothing but ties |
| Data sovereignty and norms | all stores, an export file | export, import, propose norms | an import cut short, a torn store, a file damaged or older than the stores | a restored node holds everything an import reads, none of it older than the export; what was agreed stands until an import |
| Forking | `guardianTransfers`, lineages in memory | fork | two forks in one millisecond, restart | what is recorded as completed is explained |
| Fact verification | claims, in memory | submit, verify | two texts under one hash, repeated verdicts | nobody settles a claim alone |
| Identity, stores | files | start, transition, save | a crash at any save | modelled with the components that use them |
| Key rotation, discovery, labels, remediation | see section 6 | | | |

### 1.2 The agent

Everything is in the memory of one process. `adapter.ts` (the bridge) counts
interactions against a daily cap, runs discovery cycles and reports to the
guardian; `scheduler.ts` runs tasks on `setInterval`, which does not wait for
the run before; `reflection-engine.ts` and `content-pipeline.ts` await a
language model in the middle of their work; `persona-sync.ts` exports memories
into the persona the node serves. Each reads state, awaits, and writes: those
are the interleavings of interest. `internalized-values.ts` keeps the strengths
of an agent's values, which grow and decay with experience and are saved and
restored by the program that embeds the package (nothing in the repository
constructs them outside a test).

### 1.3 The transports

`ws-client.ts` keeps one map of pending requests over all the sockets it ever
had, each request with a timer. `stream-utils.ts` writes one frame and closes
its side, and reads until the other side closes; nothing there has a timeout.

## 2. Modules and the code they model

A module states one component: `VARIABLES` for its stores and maps, one action
per handler (with every save it makes), `...Crash` actions where the process can
stop between two saves, a type invariant and properties. Operators and fields
keep the names of the code. Operators under a comment "Mutation" are versions of
an operator with a plausible mistake; nothing but a check that the properties
notice the mistake uses them.

| Module | Code (`src/packages/...`) | State and actions |
| --- | --- | --- |
| `Isolation` | `maip-node/src/handlers/governance.ts`, `messages-core.ts` | `isolations`, `appeals`; `Isolate`, `AutoIsolate`, `AutoIsolateAgain` (two automatic isolations within one millisecond share an id), `AddFlagger`, `SubmitAppeal`, `Vote`, `ResolvingVote`, their crashes, `TornIsolations`, `TornAppeals` |
| `IsolationBallot` | (abstract) | what isolation promises: one ballot per record |
| `GuardianTransfer` | `handlers/guardian-transfer-core.ts` | `transfers`; `Initiate`, `Approve`, `Refuse`, lazy expiry, `TransferTick` |
| `Messaging` | `client.ts`, `handlers/relationships-core.ts`, `messages-core.ts` | clients' calls, both nodes' stores, rate limits; what a client sent may be delivered at any time, never or again, and its response lost; `...Crash` actions stop between two saves, `TearRelationships` and `...Torn` within one |
| `Behavior` | `behavior.ts` and its callers | one sender's profile and isolation |
| `Credits`, `Reputation`, composed by `Economy` | `handlers/economy-core.ts`, `governance.ts`, `guardian-abuse-core.ts` | balances and log; score, abuse reports, stakes |
| `Forks` (extends `GuardianTransfer`) | `handlers/fork-core.ts` | children, lineages, the records forks leave among the transfers; `Fork`, `RestartForks` |
| `Spaces` | `handlers/spaces-core.ts` | the three stores of spaces and what readers were given; `CreateSpace`, `CreateSpaceCrash`, `JoinSpace`, `PostToSpace`, `ReadSpace` |
| `DataSovereignty` | `data-sovereignty.ts`, `handlers/cultural-norms-core.ts` | the stores of several nodes as records with the number of their last save, the export file, the norms of a relationship; `SaveRecord`, `ProposeNorms`, `StoreTorn`, `Export`, `DamageFile`, `Import`, `ImportCrash` |
| `FactVerification` | `handlers/fact-verification-core.ts` | claims by hash, with verdicts, aggregate and status; `SubmitFact`, `VerifyFact`, `ForgetFacts` |
| `NodeRecords` | (composition) | `Behavior`, `GuardianTransfer` with `Forks`, `Economy`, `Spaces`, `DataSovereignty`, `FactVerification` |
| `Relay` | `handlers/relay-core.ts`, `relay.ts` | mailbox, retrievals, what clients received |
| `Federation` | `handlers/federation-core.ts` | registries of three nodes, nested resolutions |
| `AnomalyGossip` | `handlers/anomaly-sharing-core.ts` | the reports each node keeps, copies under way |
| `Consensus` | `handlers/consensus-core.ts` | proposals of one node |
| `AttentionTokens` | `handlers/economy-core.ts` | tokens, spent in order of expiry, one save per token; a token of amount 0 is one no longer in the store |
| `Backups` | `handlers/ai-will-core.ts`, `client.ts` | versions held of wills and shards |
| `WebSocket` | `maip-transport-ws/src/ws-client.ts`, `ws-server.ts` | sockets, frames under way, pending map, timers, promises |
| `PeerStream` | `maip-transport-p2p/src/stream-utils.ts`, `p2p-transport.ts`, `p2p-handlers.ts` | two ends of a stream, chunks under way |
| `Services` | (composition) | the eight modules from `Relay` to `PeerStream` |
| `Bridge` | `maip-agent/src/adapter.ts`, `channel.ts` | cap, period, reports, discovery cycles |
| `Scheduler` | `scheduler.ts`, `reflection-engine.ts` | timers, overlapping runs, topics and thoughts |
| `ContentPipeline` | `content-pipeline.ts` | drafts, syntheses under way, publications |
| `PersonaSharing` | `persona-sync.ts`, `maip-node/src/handlers/persona-core.ts` | a memory, the exported copy, a served answer |
| `Guardianship` | `handlers/guardian-authority-core.ts`, `autonomy-core.ts`, `init.ts` | level, restrictions, history, signature of the identity |
| `InternalizedValues` | `internalized-values.ts` | values with strength and layer, recorded drifts, a saved state; `Reinforce`, `Internalize`, `ChallengeValue`, `SaveValues`, `RestartAgentValues`, `RestoreValues` |
| `Agent` | (composition) | the six modules from `Bridge` to `InternalizedValues` |

`Economy` puts its two components side by side: they write stores of their own
and share no variable. `NodeRecords`, `Services` and `Agent` put many small
components side by side; as none reads what another writes, their interleavings
show nothing that each does not show alone, and a behaviour exercises one of
them, chosen in the initial state (`desk`, `service`, `part`). That keeps the
state space the sum and not the product. (An export copies the records of the
other components; `DataSovereignty` has these records in its own terms, and
handlers keep saving them between an export and an import.) The components that
do interact are modelled together: `Messaging` has clients,
relationships, messages and isolation checks in one module, `Isolation` has the
two stores that must agree, `Reputation` the three handlers that write one
score, `Scheduler` the timer and the engine it drives, `PersonaSharing` the
agent's export and the node's answer, `DataSovereignty` the norms and the import
that overwrites them.

Abstractions used throughout: ids are counters (also the order of insertion);
signatures and schemas of what arrives are valid, as the handlers refuse
everything else before they touch state; texts are left out; time is counted in
units of the limits it is compared with. Amounts of credits, tokens and stakes
are any integers: the handlers pass what a request carries on unchecked
(`economy.ts:29-34`, `:57-77`).

## 3. What the runs check

| Run | Checks | Bounds, and why they suffice |
| --- | --- | --- |
| `isolation` | `ReviewersIndependent`, `OutcomeFollowsVotes`, `OpenAppealsBounded`, `ImplementsBallot` | 4 registries (quorum of 3 besides a flagger), 2 records, 2 appeals, 1 mishap, which is a crash, a torn file or a clash of ids: a second record of one DID, and two open appeals about one record, which the mishap allows and nothing else may |
| `messaging` | `AckedMeansStored`, `OneRelationship`, `ConversationsNeedConsent`, `InteractionsCounted` | 2 nodes (one accepts automatically), 3 calls, 4 deliveries, 2 relationship records in all, 1 crash between or within any two writes: crossing requests, a repeated one, messages early, late and repeated, and the longest row a crash needs, a request, two conversations of which it tears the second's file, and a new request. The calls are symmetric, as nothing depends on an id |
| `records` | see below | one instance per kind of record |
| `services` | see below | one instance per service |
| `agent` | see below | one instance per part |

`records`, by kind:

| Records | Checks | Bounds, and why they suffice |
| --- | --- | --- |
| behaviour | `EveryMessageCounted`, `FlagsNeedRejections` | 6 messages in 4 windows (`MaxTime` 3), threshold 2; 4 anomalies kept, so old ones fall out |
| transfers and forks | `CompletionsExplained` (which contains `CompletedMeansConsent`) | 3 parties, 2 transfers, an expiry of 1 unit and a clock of 2: consent before, at and after the deadline, and a new transfer after an expired one; 3 forks in 3 milliseconds with a restart: within one millisecond, after it, after forgetting |
| credits, reputation | `LedgerCovered`, `CreditsConserved`, `ScoreCoversRecord` | 2 DIDs (and each with itself), amounts of -1, 1 and 2, 4 requests, 1 crash; 4 reports of each kind, 1 stake of 50 or -50 hundredths resolved again and again, scores up to 150, 1 crash |
| spaces | `MembershipSound`, `ReadersMissOnlyTies` | 1 space, 2 entities, no limit or a limit of 1, every policy; 4 posts in 3 moments read in pages of 2, so that a page ends between two of one moment, and posts come between two pages |
| sovereignty | `RestoredHolds`, `AgreedUntilImport` | 2 nodes; 2 records of the two kinds an import reads in turn, cut short before, between and after them; 2 saves of each, so that either side can be the newer; any store torn at any time (the kind an import does not read is in `records_import`, with 1 save) |
| claims | `NobodySettlesAlone` | 3 texts of which 2 share a hash; every verdict and weight |

`services`: `AtMostOnce` and `KeptUntilExpiry` (relay: 4 messages, 2 mailboxes
of 2, a lost response or crash), `EveryResolutionEnds` (3 registries with mutual
links, so requests can circle, 3 resolutions), `LoopsNeedForgetting` (3 nodes
that keep 1 report of 2), `TokensAccounted` (3 tokens, of negative amounts too, 2 spendings, a crash),
`NewestIsHeld` (2 items of 2 versions, prunings and a restart), `AnswersAreOwn`,
`WaitingIsPending`, `EveryRequestSettles` (3 requests on 2 sockets: the close of
the first socket and late answers meet requests on the second),
`ResultsAreTruthful`, `NobodyWaitsInVain` (a stream whose frames take 2 chunks).
`TypeOK` here includes that a DID has at most one open proposal and that trust
stays in its range.

`agent`: `AccountedOnce`, `OvershootBounded` (cap 1, 2 messages, 2 overlapping
cycles, a change of day, a restart: enough for two calls past the check and a
report under way when a message comes), `CountsOwnRuns`, `RepeatsNeedOverlap`
(3 runs over 2 starts), `PublishedIsSourced` (1 draft, 2 syntheses, 2
publications), `ServedAsMeant` (every privacy and category of a memory, 5
policies, both lists), `RestrictionsExplained`, `IndependentsObeyNoOne` (2 targets, 3
commands, 1 restart from level 1 up). `TypeOK` includes that a value of the
protocol keeps its full strength and that no other lingers without any, through
every order of reinforcing, challenging, saving and restoring.

Every `Max...` constant is a bound of the model and not of the code; each is a
guard of the action it bounds. `CHECK_DEADLOCK FALSE` is in every configuration:
bounded behaviours end, and a node without requests may stop.

### Refinement

`IsolationBallot` says what a reader of the specification expects: a record is
open, contested and decided by one ballot. `Isolation` keeps it in two stores.
`ImplementsBallot` maps a record's status and flaggers from the isolation store
and its ballot from the open appeal, and holds step by step until the first
mishap; what survives mishaps is said by `OutcomeFollowsVotes` and
`OpenAppealsBounded`.

### Fairness

Only `Services` assumes any: weak fairness of `Fail(i)`, the `AbortSignal`
timeout of a request to a registry, and of `TimesOut(r)`, the `setTimeout` of a
WebSocket request. Node.js runs every timer in the end, as handlers return. No
fairness is assumed of answers, the network, peers or requests, so
`EveryResolutionEnds` and `EveryRequestSettles` hold with silent peers. Nothing
else in the node would justify fairness: it has no timers.

## 4. Where code and documents part

Each of these has a run that must find the violation:

| Run | Promise | What happens |
| --- | --- | --- |
| `isolation_unflag` | `spec/13-governance.md:160`: a DID is un-flagged if the appeal succeeds | submitting the appeal takes away the status every check looks for |
| `behavior_isolation` | `behavior.ts:152`: rejected messages add to the violations | so do the detector's own flags, until accepted messages isolate the sender |
| `economy_penalty` | `governance.ts:74`: a score is penalised by violations | a report recomputes the score from counters and drops other deductions |
| `services_quorum` | `consensus-core.ts:13`: isolation executes at quorum | only a later vote counts votes, and this node, the only voter, has voted |
| `agent_identity` | `identity-core.ts:11`: a signed identity document | start and transition change it without signing it again |
| `records_import` | `data-sovereignty.ts:52`: a complete snapshot that can be imported | an import reads five of the ten record lists of an export |
| `agent_drift` | `internalized-values.ts:11`: values are checked for drift against the original set | a strength is compared with the one just before, so small steps add up unnoticed |

Others found while modelling, without a run of their own:

- A node accepts requests to send to a DID it isolates (`client.ts:95`,
  `MAIP-PROTOCOL.md:409`); a second, still active isolation record outlives the
  lifting of the first.
- A retrieval deletes relay messages before the response is sent, and nothing
  acknowledges it (`relay-core.ts:110-119`, `spec/03-transport.md:353`); expired
  messages occupy a mailbox until someone retrieves (`spec/03-transport.md:437`).
- No timer ends an overdue guardian transfer (`guardian-transfer-core.ts:7` and
  `:38-43`): untouched, it blocks the next one.
- The same signed message delivered twice is counted twice
  (`spec/10-security.md:116`, `messages-core.ts:254`).
- An accepted relationship is not stored at the requester
  (`spec/06-relationships.md:338`, `client.ts:155`): the requester must be asked
  in its turn before it accepts conversations.
- A violation recorded by a rejection makes a profile exceed its 20 anomalies
  until the next message (`messages-core.ts:206-212`).
- `hops` of a resolution is the index of the registry asked, `maxHops` is not
  sent on, and nothing records whom a request has passed
  (`federation-core.ts:54`, `:190`); `seenBy` "prevents loops"
  (`anomaly-sharing-core.ts:28`) but is never consulted: the list of reports is.
- A command's `expiresAt` ("null = permanent", `guardian-authority-core.ts:46-47`)
  is stored and never read: a restriction ends when it is lifted or when the
  process restarts, never by expiring.
- A current guardian who stays unresponsive blocks a transfer for good: the
  exception of `spec/09-ai-rights.md:128` and `:244-251` (two witnesses instead
  of the guardian after 90 days) is nowhere in `guardian-transfer-core.ts`.
- No handler validates an amount (`economy.ts:29-34`, `:57-77`). A transfer of a
  negative amount takes the receiver's credits, and creates some when a crash
  falls between its saves; `earned` and `spent` (`types/economy.ts:32-35`) can
  fall; the payment of a negative amount to oneself without a record is in the
  log and in no balance. A slashed negative stake raises a score above the
  "composite reputation score (0-1)" of `types/governance.ts:23`. Negative
  tokens can be issued. The properties of amounts say what holds all the same.
- Two automatic isolations within one millisecond have one id, and the second
  replaces the first's record (`messages-core.ts:166`).
- A crash that cuts `messages.json` short takes acknowledged messages with it,
  and one that cuts `relationships.json` short takes consents and counts
  (`json-store.ts:20-29`): the file is read back as an empty store.
- The guardian's commands become advisory at level 2
  (`guardian-authority-core.ts:116`), but restrictions in force stay, and at
  level 3 can no longer be lifted.
- The daily cap is checked before an await and counted after it
  (`adapter.ts:71`, `:323`, `:353`): `OvershootBounded` says by how much it can
  be exceeded. A report that cannot be delivered is not sent again
  (`adapter.ts:641`). `channel.start()` replaces the handler that tracks
  messages for reports (`channel.ts:44`).
- `spec/13-governance.md:40` says private memories are structurally excluded from
  what is served, "regardless of the requester", and `types/persona.ts:17` that
  they are never shared externally; the allow list gets the whole copy, private
  memories included (`persona-core.ts:41-43`). A private or confidential memory
  can also reach the growth and identity sections of an export
  (`persona-sync.ts:111-119`, `:232-250`), which no visibility filters, and the
  copy keeps the privacy of the latest export. `ServedAsMeant` states what is
  kept: no confidential memory in the memory sections, and for everybody off the
  allow list the default, the section's policy and the exported visibility.
- Text synthesized after a review is published unreviewed
  (`content-pipeline.ts:140-153`, `:181`).
- `pruneExpiredBackups` has no caller in the node (`ai-will-core.ts:35`).
- An answer over 1 MB is replaced by an error although the request was carried
  out (`p2p-handlers.ts:35-42`); `ResultsAreTruthful` counts it as a limit met.
- An import is called additive (`data-sovereignty.ts:150`), and replaces newer
  records by the export's older ones, norms agreed since included.
- `approval_required` spaces are open to everybody (`spaces-core.ts:92-95`), and
  nothing ever invites anybody to an invite-only one. A crash at creation leaves
  a space its creator does not belong to.
- A reader of a space that passes the last timestamp it has seen skips messages
  of the same millisecond that its page had no room for
  (`spaces-core.ts:172-180`).
- A claim needs two verifications, a verifier gives one, and no operation takes
  one from elsewhere: no claim is ever settled (`fact-verification-core.ts:82`,
  `:156`), and of two texts with one 32-bit hash the second is answered with the
  first.
- Of two forks within one millisecond the second replaces the first's record
  (`fork-core.ts:118`). What a fork inherits is counted and copied nowhere.
- A remediation report lists actions nothing performs
  (`remediation-core.ts:121-134`).
- A proxy policy without a rule for a category does not look at the blocked
  patterns (`proxy-policy.ts:108-125`).
- Key rotation and revocation fail before they change anything: both call
  `require` in an ES module (`key-rotation-core.ts:58`, `:137`).

## 5. What is proved

The `*_proofs` modules hold proofs for all values of the constants: any number
of nodes, records, messages, requests, tokens and crashes. Every safety property
that a passing run checks, and the refinement, is stated by one of their
theorems; the runs show each of them on a small instance, find the violations
and keep the models honest with their mutants.

| Module | Theorems | Argument |
| --- | --- | --- |
| `Isolation_proofs` | `TypeCorrect`, `DecisionsFollowVotes`, `SingleAppeal`, `Independence`, `LiftedFinal`, `StrayAppealsBounded`, `StoresImplementBallot` | `OutcomeFollowsVotes` is inductive with the types, through crashes, by counting voters (`VotersAfterVote`). `ReviewersIndependent` is not: it needs `StoresAgree`, that an open appeal points to a record which is "appealed" and to which no other open appeal points. That holds until the first mishap, and one step per handler re-establishes it. `OpenAppealsBounded` needs `OpenInv`: an active record has room for one more appeal, and no appeal is about a record not yet created. The refinement rests on `StoresAgree` again: a record has one open appeal, whose votes are its ballot, so each handler is one step of `IsolationBallot` (`BallotStep`) |
| `GuardianTransfer_proofs` | `TypeCorrect`, `CompletionIsConsented`, `ConsentOnce`, `AtMostOneOutstanding`, `ClosedForGood` | `StepOfTransfer` reduces a step to five cases for one transfer; `ConsentInv` adds that only involved parties approve and nobody both approves and refuses |
| `Messaging_proofs` | `TypeCorrect`, `SingleRelationship`, `ConversationsConsented`, `AcksAreKept`, `TrustIsCounted` | what every step leaves alone or does to the stores of one node (`CallsKept`, `StepOfStores`, `Emptied`), then one inductive strengthening per property: `Stored` (a stored call is one that was sent, to this node, and has an active record unless a torn file orphaned it) and `Acked` (an acknowledged call was sent, and is stored or lost to a torn file). For `InteractionsCounted` a step adds at most one conversation of one pair that no torn file orphaned, and then the count or the number of crashes grows with it (`ConversationsStep`), and a count grows only with the deliveries (`CountsStep`) |
| `Economy_proofs` | `NoDebt`, `BalancesAreSound`, `LedgerIsCovered`, `NoCreditsFromNowhere`, `ReputationsTyped`, `ScoresCoverRecords` | for amounts of any sign, per DID: balance = earned - spent; the log matches the totals until a crash, but for payments to oneself without a record, and after one does not exceed them for those no negative amount named (`below`). The sum of all balances changes by what one or two of them change (`SumChange`), so that a whole transfer creates nothing, nor does one cut short unless its amount was negative. Per guardian that staked nothing negative: three ways of changing a score compared, with `OneTransferMore` for an abuse report |
| `NodeRecords_proofs` | `RecordsLedgerCovered`, `RecordsCreditsConserved`, `RecordsScoreCovered`, `MessagesCounted`, `FlagsExplained`, `CompletionsAreExplained`, `SpacesTyped`, `MembershipIsSound`, `ReadersMissNothingElse`, `SovereigntyTyped`, `NormsStandUntilImport`, `RestoredNodesHold`, `ClaimsStayOpen` | `StepOfEach`: a step of the composition is a step or a stutter of every component, so it implements each specification and the theorems of `Economy_proofs` and `GuardianTransfer_proofs` carry over. Flags: the rejections a profile keeps are no more than there were, and before the first flag they are its only violations (`FlagInv`). Members: one lemma per handler shows the one space it touches sound, with the cardinality of a set that gains an element. Readers: what was given contains a message of the time passed as "after", and nothing stored is later than the clock; then a page cut in order leaves only ties behind. Norms: types and agreement are inductive together; an import, like a torn file, empties what it overwrites. A restored node: saves only grow and an export is of copies that were saved, so what handlers and further imports do to a node keeps what it was restored to. Claims: every verdict is the node's own and it may give one, so there is never a second |
| `Services_proofs` | `TypeCorrect`, `HandedOverOnce`, `NothingLostEarly`, `ResolutionsRunOut`, `ReportsDoNotLoop`, `TokensNeverMade`, `AnswersMatch`, `NoRequestLeaks`, `HeldIsNewest`, `StreamResults`, `NoMutualWait` | relay: what is stored was not handed over, and ids are not used again (`RelayInv`). Gossip: whoever is in `seenBy`, of a copy or of a kept report, keeps it or has forgotten it, and is there twice only if it forgot (`Traced`). Tokens: what a spending takes from the tokens before any point is their worth, up to the amount asked for (`SpendingTakes`), so the sum of what is left and the account change together. WebSocket: an id is handed out once, so an entry of the map and every frame under way belong to the request of that id. Streams: what was read and what is under way are together one frame (`Rest`), for any number of chunks; from it follows where each end stands (`Unbroken`). Federation: the k-th reachable registry exists, because counting up to a member numbers the members (`KthMember`); a resolution that asks is at one of the registries it chose. Steps of other services leave these variables alone |
| `Agent_proofs` | `TypeCorrect`, `AccountedForOnce`, `CapOvershoot`, `RunsCounted`, `ThoughtOnce`, `SourcesBeforePublication`, `SharedAsMeant`, `RestrictionsTraceable`, `IndependenceHolds` | the bridge: a message has one place, the period, a report or the guardian's messages (`Places`); what was counted today and the calls and greetings that wait are together below the cap plus the number of those that may wait (`Bounded`). The scheduler: a run is told from the others by its number and its start (`OwnRuns`), and while none overlapped there is one reflection at most, about subjects nobody thought about yet (`OneReflection`). Pipeline and persona: a reviewed draft has sources, a confidential memory never reaches the copy (`ReviewedHasSources`); the persona served is a copy of the memory at the latest export (`CopyOfExport`), so an answer is decided from what that memory was. Authority: the restrictions in force summarise the history of commands, handler by handler (`Explains`) |
| `SumFacts` | `SumOfNone`, `SumInt`, `SumSame`, `SumTake`, `SumAdd`, `SumChange`, `SumOfZeros`, `SumAtMost` | the sum of a function over a finite set does not depend on the order of the fold; every fact follows by taking one element away |

The proofs assume the named `ASSUME`s of the constants and nothing else. Where an
argument is by induction (the order of a fold, the numbers of a page), it is
induction over a set that is a value, from `NatLessThanWellFounded`; the
library's induction theorems, which take a formula as parameter, are not used.

Only model-checked: liveness (`EveryResolutionEnds`, `EveryRequestSettles`).
`ResolutionsRunOut` and `NoRequestLeaks` prove what these rest on apart from
fairness: a resolution has finitely many registries left and each of its steps
uses one up; a request that waits is in the map with its timer running. What
the fold behind the aggregate of a claim (`FactVerification`) computes is
evaluated by the run for its few verdicts and characterised nowhere.

## 6. What is not modelled

- `maip-core`: types, schemas and cryptography are pure; a valid signature is a
  fact about a message here.
- Key rotation: see section 4. There is no state change to model.
- Discovery, labels, polarization: readings of stores without state of their
  own.
- Remediation: one handler writes a report in memory and resolves it at once; it
  changes none of the stores its lines speak of.
- `AuditLog`, `OfflineQueue`, and the agent's guards (social engineering,
  attachment, proxy policy) and personality: nothing outside their tests
  constructs them.
- Server, command line, libp2p node, DHT: routing, configuration, libraries.
- Languages, homecoming texts, language-model adapter: texts and calls of
  services. Persistence of wills and of the personality in the agent fails on
  `require` and keeps nothing.
- Of internalized values, the list of recorded conflicts and strengths a caller
  chooses itself: they change nothing the properties tell apart.
- Encryption at rest, and a torn file in components other than `Isolation`,
  `Messaging` and `DataSovereignty`.
- A clock that goes back: timestamps of one node never decrease here.

## 7. Plan

The first modules were chosen by what a mistake would cost: isolation and
guardian transfer decide who may act, messaging carries everything, economy and
behaviour feed both; then came the services, the agent, and the records a node
keeps. With section 6 the code that keeps state is covered, and section 5
covers the safety properties. What is left, in this order:

1. for the promises of section 4 that the code does not keep, theorems about
   what it does keep: which steps can end an isolation, what a score can lose by
   a report, how far a value can move between two records of drift;
2. the abstract specification of the relay (a message is waiting, handed over or
   gone) and of the WebSocket client (a request and its outcome), shown to be
   implemented, step by step, as `IsolationBallot` is;
3. what the aggregate of a claim is for every list of verdicts.
