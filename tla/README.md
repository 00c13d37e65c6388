# A TLA+ model of the ai_zalo AI service

The repository is the AI side of a chat application: a NestJS process that
answers `ask`, `summary`, `translate` and `agent` requests of chat users. This
directory models the parts of it in which order, failure and concurrency decide
whether it is right. Paths below are relative to the repository; the
application is `src/` in it.

The reference for every definition is the code. `PROJECT.json` maps each
definition to the lines it stands for.

## 1. The system

```
chat backend --HTTP--> BotGateway --add--> BullMQ "ai-job" --> AgentProcessor
      ^                 |   |  \                                    |
      |                 |   |   `-- streaming ask, not queued --.   |
      |                 |   `-- AbortManager (controllers,      |   |
      |                 |        cancelled conversations) <-----+---+
      |                 |                                       v   v
      |                 |                       AgentService.executeTool / runAgent
      |                 |                         |        |        |        |
      |                 |                     AskService Summary Translate AgentGraph
      |                 |                         |        |                 | CRAG
      |                 |                     SessionCacheService        checkpointer
      |                 |                     (PostgreSQL, Redis)        (PostgreSQL)
      `--- notify*, internal API --- InternalClient <---- every service

Redis channel chat:new_message --> RedisPubsubService --> embed queue --> EmbedWorker --> Qdrant
                                        `--> counter --> "ai-job" (summary)
```

One Node process runs all of it. Nothing runs in parallel; whatever stands
between two `await`s is one step, and everything interleaves at the `await`s.

| Component | State | Operations | What is hard | What makes it correct |
|---|---|---|---|---|
| Abort manager (`agent/abort-manager.service.ts`) | controllers by request, cancelled conversations with an expiry, Node timers | register, remove, abort, isConversationCancelled, clear | a cancel renewed while the timer of the last one runs; lazy deletion | no entry without a timer, no renewed cancel lost |
| Bot gateway (`bot-gateway/`) | none of its own | trigger (queue or streaming fast path), cancel | a trigger lifts the cancel of a whole conversation; the fast path runs beside the worker | a cancelled request stays cancelled while its cancel stands |
| Queue, processor, agent service (`agent/agent.processor.ts`, `agent.service.ts`) | BullMQ jobs in Redis; the run on the stack | process, executeTool, runAgent with every exit, the re-run | retries, stalled jobs, a killed process, errors read as cancels | registry matches the runs, one "started" of `runAgent` and one of its tool per attempt, every request settles, an agent job or an ask is silent only after a cancel |
| ASK session lock (`sessions/session-cache.service.ts`) | Redis key with a lease, sessions | getOrCreateActiveAskSession, withLock, polling | leases that run out inside the callback, lost replies, crashes | one active session, own key only, no key for ever |
| Session messages cache (same file) | rows, cached list | getSessionMessages, addSessionMessage | GET and SET without a transaction, swallowed errors, lost replies; two asks in one session | the list is the last rows, no answer before its question, the history pairs answers with their own questions |
| Ask service (`ask/ask.service.ts`) | messages of the session, answer cache | ask and all it calls | failures at each await, swallowed or not; retries; a process killed or a reply lost behind the stored answer | one answer told, one stored unless nobody could know that it was, each ask ends |
| Summary service (`summary/summary.service.ts`) | chain of summary sessions with markers | summarize, enforceSessionLimit | marker and text written apart; truncation; ranges; two requests; the limit | nothing skipped but what was truncated or whose text is missing, limit kept, newest spared |
| Agent graph and CRAG (`agent/agent-graph.service.ts`, `crag.service.ts`) | persistent thread: messages, retryCount | reasoner, tools, validate_context, crag_rewrite, finalize | the thread outlives runs and failed runs; trimming; rewriting | calls have results, sources are the run's own, rewriting and running are bounded |
| Auto summary (`shared/redis-pubsub.service.ts`) | Redis counter | message handler | INCR and SET 0 are two commands | no full counter unnoticed, batches disjoint and exact |
| LLM gateway, abort utilities (`shared/llm-gateway.service.ts`, `abort.utils.ts`, the providers' services) | listeners on the request's signal; order of providers | generateText, streamTextWithThinking, structured, withAbort, abortableStream | nested generators with a listener each; fallbacks within fallbacks; calls made after the abort; silent providers | fallbacks go elsewhere, no live listener is left, an aborted call ends |
| Embed worker, Qdrant, backfill scripts (`embed-worker/`, `shared/qdrant.service.ts`, `scripts/`) | embed jobs, the collection and its points | embed, ensureCollection, upsert, search, the three scripts | ids above 2^53 share points; the collection is deleted and created again in several calls; scripts wipe and refill beside the worker | a usable collection, what was embedded stays |
| Retriever, reranker, compressor (`ask/retriever.service.ts` and two more) | none of its own | retrieveContext | two sources with ids of their own; points that carry their neighbours' text; fallbacks that know less; embedding goes on meanwhile | the context is of the conversation, its documents (not their neighbours) of the dates asked for, the latest messages with a text are in it once |
| Router, translate service (`agent/router.service.ts`, `translate/`) | cached intents; cached translations | classify, rewriteForClarity, translate | the model works before the access is checked; keys that know less than the question | what is kept was answered, confirmed and not too old |
| Internal client (`internal-client/`) | cached access, conversations | API calls, notify in two dialects | errors become empty answers; a cached denial or grant | access is never older than its key |

Not modelled: wiring, configuration, tracing, prompts and the wording of
answers, which keep no state that two actors share; the Prisma client under
`prisma/generated`, which is generated from the schema and is a large part of
the repository's lines; code without a caller (`structuredStream`,
`updateUserDisplayName`, `getSurroundingMessages`); the jobs of type
`critic_eval`, which write a score to the tracing service; and
`getDisplayNames`, which only renders names.

## 2. The modules

| Module | Stands for | Actors and steps |
|---|---|---|
| `AbortManager` | `AbortManagerService` | its operations as operators on `abortControllers`, `cancelledConversations`, `timers`; a `Next` that calls them in any order, with timers that fire late and a clock |
| `BotRequests` (extends it) | gateway, queue, processor, executeTool, runAgent | a request goes `idle`, `queued`, a run (`tool`, `route`, `rewrite`, `graph`), and back to `delayed`/`stalled` or to an end; `ToolAnnounces` is the STARTED of the tool at work; `malformed` requests lack what the schemas or `runAgent` ask for; `Cancel`, `Tick`, `Timer`, `Crash` come at any time |
| `AskSession` | what `getOrCreateActiveAskSession` promises | atomic `Reuse`, `Create`, `Delete`, and `Overrun`, after which a second session may appear |
| `AskSessionLock` | how it is done | `Acquire`, find, create, cache, `Release`, polling, lost replies, `LeaseTick`, `Crash` |
| `AskPipeline` | `AskService.ask`, and what `InternalClientService` tells the client | a request's `pc` follows the awaits of `ask()`; `Fails`, aborts and cancels at each; `sent` is what the attempt told the client, in the unified or in the legacy dialect (`unified`), pieces in a row collapsed; `Settle`, `Repeat`, `Crash`, `Recover` are the end of the job, its second attempt, and its loss with the process |
| `SessionMessages` | message rows and cached list | an exchange reads, refills, adds two messages; each GET and SET is a step, and a row may be written while its reply is lost; `Histories` and `HistoryPairs` are what `buildHistoryStringFromDb` makes of the list |
| `SummarySessions` | `SummaryService.summarize` | list, fetch, read the previous text (which may be missing), truncate and create, store, list for the limit, deactivate |
| `AgentGraph` | the LangGraph graph with its tools, critic and citations | a step is a node, except that `crag_rewrite` has two (`RewriteQuery`, `RetrieveAgain`), one for each await; the thread is checkpointed after a node; the next run goes on with it, and a stream that ends without a final state makes `InvokeAgain` invoke the graph once more on the same thread |
| `LlmGateway` | `LlmGatewayService`, `AbortUtils` | the calls of one request: `Begin`, chunks (`Yield`, `Pull`), `FallBack`, `Answer`, `Fail`; `Abort` at any time and what it does to a call that waits, to one between two chunks, and to one begun too late |
| `AutoSummary` | the chat:new_message handler | one handler per message: queue the embedding, `INCR`, `SET 0`, queue the summary |
| `MessageIndex` | embed queue and worker, `QdrantService`, the scripts | a message goes through its job (`Attempted`, retries); `at` is where the service and the script are in `ensureCollection` and after it; `script` holds the page and the offset; `windows` is what the `windowText` of a point holds beside its own message; faults after each call, lost replies, `Crash` |
| `Retrieval` (extends it) | `RetrieverService.retrieveContext`, reranker, compressor | rewriting with dates, latest messages, one search per query with its fallback, ranking and combining, and what throws; compression changes no document and is part of `Rank` |
| `ModelClients` (extends `LlmGateway`) | router, translate service, cached calls of the internal client | a client asks a cache, then a fact's source or the model through the gateway, and keeps the answer; `age` and `TTL` count the lifetime of keys |

`BotRequests` composes with `AbortManager` by extension: its actions call the
operators of the registry and its variables are the registry's. `AskPipeline`
does not repeat the session lock. Its `Open` is the atomic step of `AskSession`,
and `AskSessionLock` is shown to implement that one. Of the session's
messages `AskPipeline` counts the stored answers; the rows and their cached list,
and what a history makes of them, are `SessionMessages`', whose exchanges are the
attempts of asks. What
`SummarySessions`, `AskPipeline` and `AgentGraph` may answer to their caller
(ends well, throws, aborts) is what `BotRequests` lets a tool or a graph do.
`LlmGateway` is why `AskPipeline` may let a stream end by itself or be
interrupted after any piece, and a text arrive or throw. `ModelClients` runs on the gateway's
variables: a translation's call to the model is a `generateText` of
`LlmGateway` with all that may become of it. `Retrieval` runs on the index while
messages are embedded and a script works, and is why `AskPipeline` may find
something, nothing, or fail.

`<Name>Proofs` holds the theorems about `<Name>` and the modules it extends:
`BotRequestsProofs` also those about `AbortManager`, `ModelClientsProofs` those
about `LlmGateway`, `RetrievalProofs` those about `MessageIndex`; `SummaryProofs`
holds those about `AutoSummary` and `SummarySessions`. `MC<Name>` is the small instance that TLC checks,
`<Name>.cfg` its constants.

A definition introduced by `\* Mutated:` is not part of the model. It is a
version of the definition after it with a plausible bug (a dropped guard, a
forgotten reset, the wrong end of a list), kept so that each property can be
tried against a system that should violate it. `PROJECT.json` lists which one
breaks which property.

### What is abstracted

- A text is what became of it: in `AskPipeline` an answer is that it is there, be
  it whole, cut off or an apology; in `SummarySessions` a text is the set of
  messages it stands for and the set of those that truncation took; in
  `MessageIndex` a `windowText` is the set of messages in it. Prompts, wording and
  formatting are left out.
- What a model, a tool, a grader, the router and retrieval answer is a choice.
- BullMQ, LangGraph, Redis, PostgreSQL and the chat backend are external, as
  the code uses them: BullMQ retries twice with a delay and recovers a stalled
  job once; LangGraph appends messages, replaces those whose id it knows, and
  stops at the recursion limit.
- `createdAt` orders rows as they were created.
- Requests carry a `requestId` and a text. `critic_eval` jobs share the queue
  but touch no state of the others.
- In `Retrieval` messages are numbered in the order of their dates, a date range
  is an interval of them (`Ranges`), and what is relevant is a choice. In `ModelClients` a text is what `detectLikelySourceLang`
  sees of it (`Traits`): its marks and how many words of each language it has.
- Which messages the internal API returns when there are more than were asked
  for is a choice, unless the code's use of it says which.
- The cached session metadata and the user's list of active sessions are
  written and deleted but never read by the application; they are left out.
- One worker process. A crash kills all that runs in `BotRequests`,
  `AskPipeline`, `SessionMessages` and `AutoSummary`; jobs come back once. In `SummarySessions` a process that dies
  is a throw, since BullMQ runs the job again; in `AskSessionLock` each call may
  die on its own, since the lock is meant for more than one process.

## 3. The runs

All runs set `CHECK_DEADLOCK FALSE`: requests, messages and exchanges are
finitely many, and the system is at rest when all have ended. Each module has a
type invariant (`TypeOK`). All of them are proved (section 5) except that of
`AskSession`, whose state is a mapping of `AskSessionLock`'s; they were checked
with the same instances and are not repeated in the runs.

| Run | Properties | What it shows |
|---|---|---|
| `requests_queue` | `RegistryExact`, `EntryHasTimer`, `StandingFlagged`, `StartedOnce`, `CancelStands`, `EveryRequestSettles` | an agent and a summary job of one conversation with cancels, retries, clock and a crash: the registry holds exactly the controllers runs listen to; no flag is without a timer that removes it; a standing cancel is on the flag and keeps its request from starting; `runAgent` sends "started" once per life of a job, and the tool that does its work once per attempt at most; both jobs are settled |
| `requests_stream` | `OutcomeReported` | the same with the streaming fast path beside the worker, in two conversations, with two crashes, so that the stall limit is reached, and requests that lack their text or question: an agent job or an ask that had what it needs fails silently only for a cancel that was addressed to the request or its conversation, or for an error read as one |
| `ask_lock` | `LockHeld`, `OneActiveSession`, `OwnKeyOnly`, `ImplementsAskSession`, `EveryCallEnds`, `KeyGoes` | the lock protocol implements find-or-create, ends, and leaves no key behind |
| `ask_pipeline` | `CompletedOnce`, `AnswerStoredOnce`, `EndIsTold`, `EveryAskEnds` | two asks with one question share session and cache, in a process that may be killed and over a database whose replies may be lost: each closes its client's stream once per attempt, in both dialects and also when a summary stands in, and stores one answer in all, one more only for each that was stored and could not be known; no ask ends in silence or never |
| `session_messages` | `CacheExact`, `AnswerAfterQuestion`, `HistoryPairsOwn` | a cached list nobody disturbed is the last rows; a disturbed one may miss or repeat messages but never has an answer before its question; the history, made of whichever list a reader gets, pairs an answer with its own question, unless two exchanges overlapped or the write of its question to the list was lost |
| `summary_sessions` | `ChainExact`, `LimitExact` | the text of a summary stands for all messages up to its marker from where its chain of texts began, except those that truncation took, with another request, deletions and retries between; the limit holds and spares the newest |
| `agent_graph` | `CallsAnswered`, `CitesOwnSearch`, `RewritesWithinMax`, `EveryRunEnds` | the thread keeps every call with its results, also through a rewriting that replaces one and a second invocation; a run that searched cites itself; for `CRAG_MAX_RETRIES` of 0, 1 and 2, what bounds the rewritings and what does not; runs end |
| `auto_summary` | `DueIsNoticed`, `ResetsCoverMessages`, `BatchesExact` | a full counter is noticed, batches are disjoint and, undisturbed, exact |
| `llm_gateway` | `FallbackElsewhere`, `NoLiveListener`, `AnswerRecent`, `KeptIsEarned`, `AbortEndsCall` | the gateway with its clients. In all nine configurations of the providers, with failures and one abort at any point of three calls: nested fallbacks do not return to the provider that failed, wrappers remove their listeners, an aborted call ends. Above it router, access check and translation with their caches: no answer is older than its key, nothing is kept that was not answered and confirmed |
| `retrieval` | `IndexUsable`, `IndexedStays`, `ContextFits`, `RecentsOnce` | three messages of two conversations, two of which share a point, embedded, wiped and filled again by a script beside the service, with faults, lost replies and a crash, and a question asked meanwhile, about all messages or about the date of one: the collection is usable, what was embedded stays, the context is of the conversation, neighbours included, and of the dates, and has the latest messages with a text once |
| `guard_retries` | `CancelledJobIsNotRetried` (violated) | see finding 1 |
| `agent_trim` | `TrimKeepsPairs` (violated) | see finding 2 |

### Bounds

Each constant is small enough for TLC and large enough for its case to happen.

- `BotRequests`: two requests. What a request can do to another goes through the
  registry, the flag of its conversation or the worker, and two requests meet
  at each of these. `CancelTTL` 1 and `RetryDelay` 0 in `requests_queue`, so
  that a flag may go before or after a delayed attempt comes back, which is at
  once at the earliest; `CancelTTL` 2 in
  `requests_stream`, where two cancels of a conversation overlap. `MaxCrashes` 1
  and 2; two are needed for the stall limit.
- `AskSessionLock`: two callers (the theorems are for any number); `LockTTL` 2;
  2 attempts and 2 polls instead of 8 and 4: a caller may obtain the lock at
  once, after waiting, or not at all, and may find the winner's session at
  either poll or at none.
- `AskPipeline`: a streaming ask and a queued one with two attempts, and a
  process that is killed once (`MaxCrashes`): the stream is lost, the job comes
  back. How often a reply is lost is not bounded.
- `SessionMessages`: three exchanges, i.e. six messages, and `CacheMax` 3
  instead of 50: the list overflows while others write to it. The last ten
  messages, of which a history is made, are more than the list has. `MaxFaults` 1:
  one kill or one lost reply of a row; errors of Redis are not bounded.
- `SummarySessions`: two requests with two attempts each, one of them for a
  range; 3 messages, `Window` 2 instead of 300, so that the window is exceeded
  and truncation may leave a part of a fetch; 3 sessions, `MaxActive` 1 instead
  of 10: a chain of three, and all but one exceed the limit.
- `AgentGraph`: two runs on one thread, `RecursionLimit` 8 instead of 15, which
  is two rewritings of four nodes each (6 in `agent_trim`), maxima of 0, 1 and 2
  retries, `TrimTo` 3 instead of 20, and answers that call two tools
  (`ToolCalls`), a search judged or a search hidden by another tool. `MaxRuns`
  counts invocations: the second one is a second run or the repetition of the
  first.
- `LlmGateway`: three calls, so that a stream, a text after it and a third call
  share a signal. Requests share nothing here, and one stands for all; chunks
  need no bound, since a call does not count them.
- `ModelClients`: two languages, two texts, one whose language is clear and one
  whose is not, lifetimes of 1 and 2, so that one kind of key outlives another. Clients run in one configuration of the providers, other
  callers of the gateway in all nine.
- `Retrieval`: three messages with the ids 7, 8 and 9 where numbers have gaps
  from 8 on (`SafeLimit`, 2^53 in the code): two messages of different
  conversations share a point. Pages of two, so that a script reads two pages
  and messages arrive between them; two attempts of a job instead of three; one
  script, one crash, one question. `RecentWindow` 2 instead of 8, `WindowSize` 1
  instead of 3; the second message may be short or without text (`ShortChoices`,
  `NoText`), and is the one somebody asks about by date. The instance has the two
  scripts that wipe and fill: the one that only wipes and the one that only fills
  do nothing that these do not. A question is asked only where no script is
  started: while a script wipes and refills, a search may miss anything, as it
  may anyway. When the last question has its context nothing more is looked at;
  the behaviours of the index that have no question go on to their end.
- `AutoSummary`: five messages and `Threshold` 2 instead of 50: two batches and
  the beginning of a third overlap.

### Fairness

- `FairSpec` of `BotRequests`: the worker takes a job that is its turn, every
  await of a run settles (each has a timeout of its client or ends with the
  process), BullMQ promotes delayed jobs and recovers stalled ones, Node fires
  timers, time passes. Nothing is assumed of triggers, cancels and crashes.
- `AskSessionLock`: every Redis or database call of a caller settles, and the
  lease runs. A caller that crashed takes no step.
- `AskPipeline`: awaits settle, BullMQ runs the second attempt and recovers the
  job of a process that was killed. Cache writes that are not awaited need not land.
- `AgentGraph`: a started node settles. Nothing is assumed about what the model
  answers: it may call tools as long as it likes.
- `LlmGateway`: Node runs the listeners of a signal that has fired, and the
  consumer asks for the next chunk. Nothing is assumed of the providers: the
  gateway has no timeout, and without an abort a call may wait for ever.

`SummarySessions`, `SessionMessages`, `AutoSummary` and `Retrieval` state safety
only.

## 4. What the model says beyond the green runs

Two statements of the repository are refuted by the code, each with a run:

1. `agent.service.ts:211` says that the guard's AbortError keeps BullMQ from
   retrying a cancelled job. The job has `attempts: 2`, and BullMQ does not know
   the error: the job comes back after its delay. `CancelStands` shows that this
   costs an attempt and starts nothing as long as the cancel stands.
2. `agent-graph.service.ts:89` says that trimming does not split a call from
   its result. `allowPartial: false` keeps messages whole, not pairs: the
   trimmed history may begin with a result.

Further behaviour the models reach, not stated otherwise by the repository with
enough precision for a run:

- `agent.service.ts:340` returns the re-run after a rewriting without `await`.
  The `finally` of the outer execution, which according to
  `abort-manager.service.ts:31` removes the controller, therefore runs when the
  re-run has just begun, and a cancel finds nothing to abort. `RegistryExact`
  describes what is left: the registry is exact, but re-runs and retries listen
  to no signal.
- `llm-gateway.service.ts:58`: the promise of a text starts before `withAbort`
  looks at the signal. Asked for after the abort, it is rejected with nobody
  waiting; Node 20, without an `unhandledRejection` handler in `main.ts`, ends
  the process. `ask.service.ts:194` does that when a stream is cancelled before
  its first text: the cancelled stream has no answer, and a text is asked for
  with the same signal. The provider does it once more inside
  (`gemini.service.ts:71-101`, `groq.service.ts:57-84`), so that two promises are
  lost for one text. `GenerateTooLate` is this call. No property speaks of lost
  promises: that they are lost there is what the code says, step by step.
- `llm-gateway.service.ts:140`: a stream that fails after some chunks is
  continued with another one from its beginning, up to three in a row; the
  consumer's answer is all of them, one after the other.
- `llm-gateway.service.ts:107`: with `FALLBACK_LLM_PROVIDER=openai` the streams
  fall back to Groq or to Gemini again, although the comment at line 76 speaks
  of the configured fallback; `FallbackElsewhere` has to except that value.
- `ask.service.ts:291` caches what `streamAnswer` returned, also when the stream
  was cut off or cancelled, or when the fallback failed: half an answer and an
  apology are replayed like a whole answer. `AskPipeline` does not tell answers
  apart, as the cache does not.
- `ask.service.ts:278` stores the answer behind COMPLETED. A process killed
  between there and the end of the job, or a database that stored the row and
  whose reply was lost, leaves an answer that nobody knows of, and the job runs
  again and stores another. `AnswerStoredOnce` counts these `accidents`, and
  says that nothing else makes a second answer.
- `session-cache.service.ts:134`: Redis errors in `addSessionMessage` are
  swallowed behind the row, so that a list in the cache may lack a question for
  the rest of its life (`unlisted`); the history then pairs its answer with the
  question before.
- `ask.service.ts:90` and `summary.service.ts:49` send STARTED whenever they run:
  a tool job that BullMQ retries announces its start again, and an agent job
  announces its own start and its tool's. `StartedOnce` counts the two apart.
  The summary that stands in for a weak answer sends a third, and the summary
  that the graph calls as a tool speaks under a random request id; these are not
  counted.
- `agent.processor.ts:30` takes `attemptsMade > 0` for "has been announced". An
  agent job whose first attempt the guard refused, and whose cancel was lifted
  before the second, runs with neither a STARTED nor a controller.
- A failure may tell the user nothing: data that the schemas refuse
  (`agent.service.ts:116`, `:135`), an agent job without a text (`:201`), the
  awaits of `summarize()` outside its `try` (`summary.service.ts:81`, `:105`,
  `:134`, `:189`), and everything about a translation, all end in a `catch` that
  only logs (`agent.service.ts:161`). `OutcomeReported` is about the others.
- `summary.service.ts:207` keeps the last 50000 characters of the messages, and
  the marker passes all of them: what was cut is in no summary (`cut`). The same
  becomes of everything before a text that was not found when it should have
  been continued (`start`).
- `agent-graph.service.ts:194` sets `retryCount` to 1 instead of increasing it:
  a `CRAG_MAX_RETRIES` of two or more, which `app.module.ts:70` admits, bounds
  nothing, and only the recursion limit ends the rewriting. A rewriting whose
  second await throws is not counted at all, and the next run rewrites again
  (`cutOff`). `RewritesWithinMax` states all of it.
- `retryCount` is kept in the thread and `initialState`
  (`agent-graph.service.ts:304`) does not reset it: a conversation rewrites once
  in its life.
- `messages[0]` (`agent-graph.service.ts:81` and `:230`) is the first message of
  the thread, not the question of the run, from the second run on.
- `ask.service.ts:235`: the summary that stands in for a weak answer tells its
  own STARTED and COMPLETED under the request id of the ask. A client of the
  unified dialect sees two COMPLETED, of different types; in the legacy dialect
  the first is `summary` and does not close the stream. If it fails, the client
  is told of two errors.
- `session-cache.service.ts:306`: the key of a translation knows the message and
  the language and not the text. Two requests that bring different texts for one
  message get each other's translation.
- `translate.service.ts:83`: a cached translation is returned before the access
  is checked, and reading it renews its thirty days.
- `router.service.ts`: the key of an intent does not know the conversation, and
  `CACHE_TTL` (3600) is not used, intents live 300 seconds.
- `translate.service.ts` takes no signal: a cancelled translation goes on.
- `qdrant.service.ts:99` converts ids to numbers: beyond 2^53 two messages share
  a point, and the later one replaces the earlier. `RecentsOnce` excepts them.
- `qdrant.service.ts:171`: the fallback of the hybrid search takes no dates;
  `fellBack` marks the contexts it makes.
- `embed-worker.service.ts:33`: a point holds up to three messages before its own
  as its `windowText`, of any date, and `retriever.service.ts:126` and `:153` put
  that text into the context. A question about a day is given messages of other
  days this way without any fallback, and a latest message may be in the context
  a second time as a neighbour of another. `ContextFits` asks of neighbours only
  that they are of the conversation, and `RecentsOnce` counts documents.
- `retriever.service.ts:297`: what has no text is dropped before `slice(-8)`, so
  that it takes no place among the latest messages.
- `backfill-embeddings.ts:25` wipes the collection and writes what the history
  has; when it breaks off, what it had not reached is gone (`missed`).
- `redis-pubsub.service.ts:79`: messages counted between INCR and SET 0 are
  forgotten, or a batch is summarised twice; `raced` marks these behaviours.

## 5. The proofs

TLAPS checks these for every value of the constants, under the assumptions each
module names.

| Theorem | Of | Argument |
|---|---|---|
| `RegistryTypeCorrect`, `EntryAlwaysHasTimer`, `EarlierTimerSparesRenewed` | `AbortManager` | the first two together are inductive: time left of an entry is in the set of its timers, and both count together; the third follows, because a timer deletes only an entry without time left |
| `RegistryAlwaysExact` | `BotRequests` | with `RetryUnsignalled`: a retry outside of a tool has no signal, so that the `finally` of the outer run takes away only its own |
| `EveryFlagHasTimer`, `StandingIsFlagged`, `CancelKeepsStanding` | `BotRequests` | `FlagInv`: whoever takes a step, to the flags it does one of a few things: lift a conversation's cancels, drop an entry that nothing stands on, cancel, run a timer, let time pass, or forget everything in a crash. That a standing cancel keeps its request from running follows from the guard of the worker, which reads the same flag |
| `StartedOncePerLife`, `FailuresAreReported` | `BotRequests` | `LifeInv`: what is so of each single request (`LifeOf`), with the attempts it has begun and the announcements of its tool, and that a flagged conversation's requests are among those a cancel reached. A step touches one request; the lemmas go through the gateway, the worker, the run, the queue and the clock |
| `QueueAlwaysExact`, `RequestsTypeCorrect` | `BotRequests` | `QueueInv`: a request joins the line only from a place where it is not queued, and leaves it from the head; joining and leaving keep the entries distinct (`JoinsLine`, `LeavesLine`), and a crash touches only what executes. The types follow from the four invariants together |
| `TypeCorrect`, `MutualExclusion`, `SingleActiveSession`, `OwnKeyOnlyHolds` | `AskSessionLock` | `LockInv`; a session is created after a search that found none, and `CreatorAlone` says that nothing was created since, because the key still belongs to the creator |
| `LockImplementsAskSession` | `AskSessionLock` | `LockInv` and a step-by-step refinement: `FindExisting` and `PollFinds` are `Reuse`, `CreateRow` is `Create`, the tick that makes a call late is `Overrun`, everything else stutters. `Unanswered` is needed for "once" |
| `AskTypeCorrect`, `ToldAtMostOnce`, `EndsAreTold` | `AskPipeline` | `RequestInv`: as long as an attempt still has something to tell, it has told no answer; where its answer is stored and kept, it has told one; a request that ended in an error has told one, has reported the error, or is excused (`TellOf`). Every step is, for one request, a move to another place with one of a few pieces of news (`Effect`, `StepEffect`), and these keep the invariant |
| `OneAnswerStored` | `AskPipeline` | `AnswerInv`: a request has at most as many stored answers as it had accidents, and one more only while the attempt that stored it is under way behind its store, where nothing throws, or has ended well. Every step that stores goes on to such a place or is an accident (`Keeps`), and a crash there is one, too |
| `FullCounterNoticed`, `BatchesDisjoint`, `BatchesAreExact` | `AutoSummary` | `CountInv`; while nothing raced, at most one handler is before its reset and its counter is full |
| `TypeCorrect`, `AnswersFollowQuestions` | `SessionMessages` | `OrderInv`: rows and all lists are ordered, and an exchange adds its answer only when its question is in no list behind it |
| `HistoryIsPaired` | `SessionMessages` | `PairInv`: an exchange nobody overlaps with has the last word (`HasLastWord`) in the rows, in what is about to fill the cache, and, once its question is listed, in the cached list and in the one it will write; so an answer is added behind its own question or behind nobody's, unless it is excused, and cutting a list changes no pair |
| `CachedListIsExact` | `SessionMessages` | `ExactInv`: while nothing has disturbed the list, a writer is alone, and what it has read, or finds cached, are the last rows before its own; without a writer the cached list and what will fill it are the last rows; the last rows with one more, cut again, are the last rows of all (`RecentOfAppend`) |
| `SessionsTypeCorrect`, `SummariesChain` | `SummarySessions` | `ChainInv`: what an exact request has fetched begins right after the marker of the session it continues and has no gap, and that marker never changes, since sessions are only added; what it keeps and what it cuts are together what it fetched, with the last message kept; and the text it continues has, with its cuts, everything from its start to that marker by the same invariant, or is missing and the start is that marker |
| `LimitIsExact` | `SummarySessions` | `LimitInv`: once a request has listed, the listed sessions without its victims are at most `MaxActive`, and no session listed becomes active again, so that others can only take more away; what stays of a list are those with fewer than `MaxActive` newer ones, and the oldest of these bounds their number (`BeyondLimitLeaves`) |
| `GraphTypeCorrect`, `EveryCallIsAnswered` | `AgentGraph` | `CallsInv`: unless a run was cut off there, every call is followed by its results, except that the last message may be a call while its tools run; a thread only grows, and a rewriting changes the context of a result in its place and not what it answers (`ThreadGrows`). `ThreadInv` bounds the runs by the questions in the thread |
| `SourcesAreOwn` | `AgentGraph` | `CiteInv`: the messages are in the order of the runs they belong to, so that the last search of the thread is the run's own if it has one |
| `RewritesBounded` | `AgentGraph` | `RewriteInv`: with a maximum of none or one, a rewriting is only begun below it, one that is not counted is under way or was cut off, and nothing lowers the count; with any maximum, a rewriting is the fourth node since the last one |
| `TypeCorrect`, `NoListenerIsLeft`, `FallbackGoesElsewhere` | `LlmGateway` | a running call owns exactly as many listeners as it has wrappers, and after the abort no signalled call runs beside those a stream has left; the thinking stream is Gemini's, so that each stage knows whom it replaces |
| `AnswersAreRecent`, `WhatIsKeptWasEarned` | `ModelClients` | `ClientInv`: what is left of a key and its age make up its lifetime; the key of the access is no younger than the last confirmation, so that finding it confirms |
| `ClientsKeepGateway`, `ClientsTypeCorrect` | `ModelClients` | every step of a client is, for the gateway, one of its own steps or none, so that the theorems about `LlmGateway` hold with the clients, too; with them `ClientInv` leaves little of the types open |
| `AskingKeepsIndex`, `RetrievalTypeCorrect` | `Retrieval` | a step of a question leaves the variables of the index alone, any other is a step of the index; so the two theorems below are proved of `MessageIndex` alone and hold of both |
| `UsableWhileUp` | `MessageIndex` | `ReadyInv`: unless a re-creation broke off, a collection without payload indexes has somebody who is making them. This is needed where the service finds a collection and asks no more than its vectors: then that somebody is a script, which is still at it |
| `EmbeddedStays` | `MessageIndex` | `StayInv`: a message whose job is done has its point or is still to come (`ToCome`): the script is before its wipe's refilling, or has it on its page, or ahead. New messages change no place in the history (`PlacesStay`), the page after an offset is short only if nothing is behind it (`Pages`), and a point is not taken over by another message if its id is safe (`SafeUnique`, `UpsertKeeps`) |
| `ContextIsFit`, `RecentsAreOnce` | `Retrieval` | `RetrievalInv`: what is stored at a point is a message with that id, with neighbours of the same conversation (`PointsOwn`); what was found keeps conversation, dates and id although the points change meanwhile, and is one document for each id; the latest messages that were read are those with a text, since what has none never gets one (`BlankStays`); the id of a safe message is its point's, so that one document of it joins the context and no other keeps it out (`CombinedOnce`) |

Only model-checked: everything about fairness (`EveryRequestSettles`,
`EveryCallEnds`, `KeyGoes`, `EveryAskEnds`, `EveryRunEnds`, `AbortEndsCall`),
which the installed provers do not do. The constants TLC uses are
no assumption of a theorem.

## 6. The plan

Done, in this order: `AbortManager`, `BotRequests`, `AskSession`,
`AskSessionLock`, `AskPipeline`, `AutoSummary`, `SessionMessages`,
`SummarySessions`, `AgentGraph`, `LlmGateway`, `MessageIndex`, `Retrieval`,
`ModelClients`, the notifications of `AskPipeline`, the second invocation of
`AgentGraph`; the proofs of section 5.

Next proofs: a specification of what the queue promises (a job is taken again
until it is settled, at most `MaxAttempts` times by retries) that `BotRequests`
implements.
