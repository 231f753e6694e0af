# TLA+ models of cs-support-demo

Formal models of the customer support server in `server/` (Rust): TLA+ modules
that translate its stateful parts, TLC configurations that check them on small
instances, and TLAPS proofs that hold for every value of their constants.
Paths below are relative to the repository root; `harness/audit.rs` stands for
`server/src/harness/audit.rs`.

`tlc -config MCx.cfg MCx` checks a model, `tlapm XProofs.tla` checks its proofs.
`PROJECT.json` lists every component, run, mutant, theorem and hazard,
and says for each definition which lines of the source it stands for.

## 1. The system

A customer writes on LINE. The **LINE adapter** (`bin/line_adapter.rs`) keeps a
session per user and sends each message to `/api/reply` of the **server**, which
runs one turn of a support case: it reads the case from the graph store
(Vegapunk), has a language model extract signals, searches manuals and known
resolutions, decides in three layers whether it may answer, and replies with an
answer, a question back, an escalation to the staff or an out-of-scope notice.
Operators work through MCP tools behind OAuth: they draft answers, and record
what became of them, which drives the grade of the known resolutions. Every
decision is written to an append-only audit log; a log that can no longer be
trusted stops the process.

```
 LINE --webhook--> line_adapter --HTTP--> /api/reply (api.rs) --+
                   SessionStore           turn of a case        |
                                                                v
 operators --MCP/OAuth--> rmcp_server.rs ---------------> Harness (harness/mod.rs)
                                                          |  decision, signals, grading
                                            audit log <---+---> graph store, LLM, Jev
                                                |
                                                v  poisoned
                                            shutdown.rs --> exit, restart verifies the file
```

### Components

State, operations and interactions, what is hard, and what makes each correct.
The last column is the module, or the one planned.

| Component | State and operations | Hard behaviour | Correct when | Module |
|---|---|---|---|---|
| WORM audit log (`harness/audit.rs`) | file, hash chain, mutex, poisoned flag, watch channel; `open`, `append`, `mark_poisoned`, health query | crash inside a line, failed write or fsync, panic under the mutex, restart on a torn tail | the chain never forks, what was acknowledged is durable, a poisoned log never writes | `WormAuditLog`, `AuditTrail` |
| Shutdown (`shutdown.rs`, `health.rs`, `main.rs`, `homesec_advisor.rs`) | a watcher task per log, a channel of one, grace timer, open requests | poisoning before the tasks subscribe, two logs at once, a request that never ends | a poisoned log ends the process, no request is cut before the grace period | `AuditShutdown` |
| Conversation state and reply decision (`api.rs`, `harness/mod.rs`, `harness/time_pref.rs`) | six attributes of a case; `handle_time_pref`, `note_time_pref_extraction_failure`, `arm_time_pref_solicitation`, `decide_reply_action`, `decide_jev_hearing_action` | counters that reset each other, cases of an older version | bounded questions, one escalation block, the contact time question ends | `ConversationState`, `ReplyFlow` |
| Case record and turn persistence (`api.rs`, `harness/mod.rs`, `harness/knowledge.rs`) | `support_case` and `ConversationTurn` nodes; six read-merge-write writers | each read, write and answer may fail, two deadlines drop the handler, a write is committed after it was given up | the record goes the way of the conversation, no writer loses another's attributes, nothing is sent that was not saved | `CaseRecord` |
| LINE sessions (`bin/line_adapter.rs`) | map of user to `Arc<Mutex<Session>>`, LRU order, TTL; `get_or_create`, `sweep`, `lock_session`, `handle_event` | eviction and sweep between taking a session and locking it, timeouts, restart | one message of a user at a time, and with its case | `SessionStore` |
| Grading (`harness/grading.rs`, `harness/mod.rs`, `harness/knowledge.rs`) | answer attempts, counts and grade of a known resolution, `grade_lock`; `record_answer_outcome`, `recompute_grade` | partial failure, retry, paging, two ids of one person | outcomes are write-once, acknowledged ones are counted once, automatic answers are earned, demotion is final | `Grading` |
| Three-layer decision (`decision.rs`, `rules.rs`, `kr_selection.rs`, `kr_applicability.rs`, `clarify.rs`, `supplementary_search.rs`) | pure functions | precedence of layers, interplay of applicability and clarification | what must end with a human is never answered, whatever the order of rules and turns | `AnswerDecision`, in `CaseEvaluation` |
| Case signals (`signal.rs`, `extraction.rs`, `knowledge.rs`) | signals accumulated and excluded on a case | out-of-scope turns must not leave signals, excluded ones come back, a second writer of the case | every signal of an answered turn counts, none of a withdrawn one | `CaseEvaluation` |
| Product gate and case switch (`product_gate.rs`, `case_switch.rs`, `scope.rs`) | allowlist, products of a case, history of a session; two gate stages, new case on a change of product | the allowlist changes within a turn, an answer that announces a switch is lost | what is said about one product stays out of the case and the history of another | `CaseSwitch`, `TtlCaches` (the allowlist) |
| Answer attempts, egress, feedback (`rmcp_server.rs`, `egress.rs`, `correction.rs`, `reply.rs`) | attempts, lineage to decision and case | a draft emitted for a decision that no longer holds | every attempt descends from a decision that allowed it | `CaseEvaluation` (lineage); egress and feedback planned |
| OAuth (`oauth/`) | signed registrations, states and codes held by others, the bounded map of used ids, a cache of verified tokens; `authorize`, `callback`, `token`, refresh | the map at its limit, throttled pruning, two readings of the clock, restarts with the same key or another, temporary failures at Google | states and codes are accepted once until they expire, the full map opens again, codes and sessions are lost for a reason only, a change of the key ends the logins under way | `AuthServer`, `TtlCaches` |
| Corpus and product caches (`corpus.rs`, `product_gate.rs`) | TTL caches | overlapping loads that store in the other order, failed fetches | what is served is at most a TTL and a fetch old, or the best known after a failure | `TtlCaches` |
| Advisor conversation (`advisor/`) | a case of its own: conversation state, lead, support mode and the link to a support case; `decide`, `decide_time_pref`, `apply_action_contract`, `run_support_turn` | two cases saved one after the other, either of which may fail; a mode that must be left again | reference numbers and confirmed contacts are kept, support is left when it should be, product support keeps the promises of the reply flow | `AdvisorFlow` |
| Escalation reply, handoff, hours (`escalation_reply.rs`, `handoff_items.rs`, `hours.rs`) | pure functions | boundaries of business hours | items asked are those missing | planned: a pure algorithm |
| Admin API (`admin.rs`, `staticui.rs`) | read-only; threads built from turns, paging | equal timestamps, a page limit in the middle of a thread | every turn is on one page | planned: `AdminThreads` |
| Ingestion and migration (`bin/ingest_*`, `bin/backfill_concept_keys.rs`, `bin/merge_schema.rs`, `manual/reingest.rs`) | sections, edges and vectors of a store without deletion; runs that write what has changed | a run that stops between two calls, a page missing in one run, a destructive probe | no edge of an old text, the vector of another text is replaced by the next run, a series of runs leaves nothing out | `ManualGraph`, `UrtectIngest`, `AlarmcomIngest`, `ConceptBackfill`; planned: `MergeSchema` |
| MCP dispatch, graph store, LLM, Jev and translation clients, retrieval scoring, configuration, deployment checks, admin front end | little or none of their own | I/O | | what they do to others is modelled there; retries of `jev.rs` and `translate.rs` planned as small algorithms |

## 2. Modules

| Module | What it is |
|---|---|
| `AuditTrail` | abstract specification: a trail of events that only grows, acknowledgements in the step that makes an event permanent |
| `WormAuditLog` | the log, its file and its process; implements `AuditTrail` |
| `AuditShutdown` | several logs of one process, their watchers, the drain and the exit |
| `WormAuditLogProofs` | the invariants of both, and the refinement of `AuditTrail` |
| `ConversationState` | the persisted state and the functions from one to the next, as operators |
| `ReplyFlow` | a conversation as a state machine over those operators: the abstract specification of a case |
| `CaseRecord` | the reads and writes the turns are made of; implements `ReplyFlow` |
| `ConversationProofs` | the theorems about `ReplyFlow`, `CaseRecord` and `AdvisorFlow`, with both refinements |
| `AnswerDecision` | rules, domains, known resolutions and the decision in three layers, as operators on signals |
| `CaseEvaluation`, `CaseEvaluationProofs` | the evaluations of one case by a customer and by operators, and the answer attempts that rest on them |
| `SessionStore` | sessions of the LINE adapter; establishes the serialisation `CaseRecord` assumes |
| `Grading`, `GradingProofs` | outcomes, counts and grade under `grade_lock`, and their proofs |
| `CaseSwitch` | a customer who turns from one product to another: cases, their products, the session |
| `CaseSwitchProofs` | its properties, for any cases, products and histories |
| `AuthServer`, `AuthServerProofs` | logins at the authorization server and its map of used ids |
| `TtlCaches` | the caches of allowlist, corpus and tokens |
| `CacheProofs` | the theorems about `SessionStore` and `TtlCaches` |
| `AdvisorFlow` | the advisor's conversation and the product support it conducts; implements `ReplyFlow` for each support case |
| `ManualGraph` | the sections in the graph store and the calls that write them |
| `UrtectIngest` | `ingest_urtect` on that store, one batch at the end of a crawl |
| `AlarmcomIngest` | `ingest_alarmcom` on that store, article by article |
| `ConceptBackfill` | `backfill_concept_keys` beside `AlarmcomIngest` |
| `IngestProofs` | the theorems about the ingestion modules |
| `MC*` | models for TLC |

`Mutant` comments mark operators that are not part of a specification: each is a
definition with a plausible bug, used to see that a property can fail.

A module of proofs that is about several components extends them all; that is why some
names differ where one would expect the same (`Init` and `AdvisorInit`, `TypeOK` and
`CachesTypeOK`).

### WormAuditLog

A line of the file carries its event, its `prev_hash` and its form (complete,
without its newline, a fragment). The first `durable` lines are on stable
storage, and `Stop` may lose, keep or tear what lies behind them. `append` is
three steps because it can be interrupted between them: taking the mutex on a
verified chain (`AppendLock`), `write_all` (`AppendWrite`, `AppendWriteFails`),
flush and `sync_all` (`AppendSync`, `AppendSyncFails`). A refusal is one step.
`Panic` may strike anywhere in between. `Open` verifies the whole chain and the
newline at the end. `OperatorRepair` is the recovery runbook. SHA-256 is taken to
be free of collisions: a hash is the sequence of events it commits to.

The refinement maps the trail to the complete durable lines. A line whose fsync
was reported as failed may become permanent unacknowledged, which the abstract
specification allows; an acknowledged one may never vanish, which it does not.

### AuditShutdown

Of a log only its flag, watch value and mutex are kept. `AppendRaisesFlag` and
`SendWatch` are the two halves of `mark_poisoned`, so that the health handler
may answer 503 before anybody is notified. `Subscribe`, `WatcherWakes`,
`WatcherSends` and `Report` are `wait_for_any_poisoned` with its channel of
capacity one. Both listeners, plain and TLS, are one model: they differ in who
owns the timer.

### ConversationState, ReplyFlow, CaseRecord

`ConversationState` has the six attributes of `CaseConvState` and one operator per
function that changes them; the states of older cases, without
`escalation_confirmed`, are initial states. What a language model or an
evaluation decides is a member of `Outcome`, which has just the fields the reply
decision tells apart. `ReplyFlow` plays them turn by turn and counts questions,
escalation blocks and attempts to read a contact time.

`CaseRecord` splits the turn into every read and write of `reply_handler`: the
store replaces all attributes of a node, so each writer (`job`) reads the record
into `snap`, merges its own attributes and writes. Each of these may fail with no
effect (`Fails`), or be carried out and reported as failed (`Save`,
`EvaluateWrite`); `GiveUp` drops the handler at any await. `Spec` is the case in
which a write that is given up leaves nothing behind, `SpecLate` adds the one the
five-second deadline of the turn record leaves under way. Turns do not overlap: that
is the contract of the design note (conversation flow v1.1, section 6), and
`SessionStore` shows that the adapter keeps it as far as its own handlers go.

### AnswerDecision, CaseEvaluation

`AnswerDecision` translates `decide` and what it calls. The store returns rules in any
order, so a decision is a set: all the decisions `decide` may come to for some order.
What a language model or a score of a text decides is an input (`Inputs`, `mode`, and
the choice within `Selectable`). Scores and thresholds are naturals, only their order
matters.

`CaseEvaluation` runs it over the turns of a case. `Begin`, `LoadCase`, `AppendSignals`
and `DecideAndRecord` are the reads and writes of `evaluate`; the decision and its record
are one step because between them only local copies are used. A turn of the customer goes on to its reply
(`ReplyAtOnce`, `ReplyAsking`, `ReplyEscalating`) or, if a foreign product is confirmed, to
`Discard` and the demotion of the case. Each read and write may fail, the writes of `evaluate` and of the
conversation state also after they were carried out. An operator's evaluation is the same without
a reply and always on everything accumulated; `VerifyLineage`, `RecordAttempt` and
`AppendEvidence` are `record_answer_attempt`, with its two reads of the case. `Spec` has
the callers take turns, `SpecConcurrent` does not: the server itself does not serialise
them. History variables record the signals of answered turns (`counted`, `asked`), of turns
that were not withdrawn (`kept`), and what each evaluation decided. The creation of
the case is `CaseRecord`'s.

### SessionStore

An `Arc` is named after the event that created it. `Arrive` is `get_or_create`
under the mutex of the map, eviction included; `Enqueue` and `Lock` are the
FIFO mutex of the session. An entry whose `Arc` has another owner is neither
evicted nor swept (`InUse`, the strong count). `Expire` moves time for the oldest
session. The history variable `known` is the case of the last answer until the
session is reset, evicted, swept or lost in a restart.

### Grading

One step per call to the store: `LoadAttempt`, `RecordOutcome`, `LoadGrade`,
`CountOutcomes`, `WriteGrade`, all with `grade_lock` held; each may fail (`Fail`),
the two writes may also succeed and be reported as failed, and `Restart` may come
anywhere. Waiting for the lock changes nothing and is not a state: a call picks its
request in the step in which it gets the lock. The rate is an exact fraction in place of an `f32`. Known
resolutions do not interact, so there is one.

### CaseSwitch

`Receive` to `Reply` are one turn of `reply_handler`: the comparison of the products
a message names with those of its case (`Detect`, `IsProductSwitch`), the contact time a case
may wait for (`TimePref*`), and the evaluation, with the old case or without
(`EvaluatedCase`, `EvaluatedHistory`). The allowlist (`stocked`) may change at any moment
and is fetched twice in a turn (`allow`, `again`); the references the language model found
are kept (`refs`). `Answered` is what `handle_event` of the adapter does with an answer, where
a switch drops the history of the session (`KeptHistory`). `NotAnswered` ends a turn before any
step and leaves behind what it has stored. An entry of a history is represented by the case it was
said in.

### AuthServer

Registrations, states and codes are blobs the server has signed and does not keep: in the
model they are names with an expiry (`exp`). `Present` is a handler up to the expiry check
(of a code also client, redirect and PKCE), `ConsumeRefused`, `ConsumeState` and
`ConsumeCode` are `consume_jti` with what follows it; between the two steps the clock may
move and other requests may run. `Kept`, `Prune`, `Full` and `Insert` are `UsedJtis::consume`
in its order: used, prune, full, insert. `IssueCode` is the exchange with Google.
`Refresh` is the one answer of `token_from_refresh` that matters to the client's session,
`invalid_grant`: given by the server itself (`RefusedHere`: no token or client id, a resource
that is not served any more, a registration that cannot be verified or is too old), or passed on
from Google (`Rejected`). A `Restart` may change the key (`NewKey`), because it was replaced or because none is
configured and one is made up at every start: what was issued before cannot be verified or opened
any more (`foreign`), the registrations neither. Clients register once per key, when it comes
into use (`keyed`). The history variable `improper` has the clients whose own request was at fault. The model assumes that the clock does not step back,
which is what `SystemClock` builds on. `took` and `answer` are history of the present
process, since a restart forgets the map.

### TtlCaches

Three caches, one pattern: `Hit`, or `Miss`, `Read` and `Store`, with the mutex held for
none of the time in between. A value is the moment at which its source was like that, so
the age of an answer is a subtraction. Only the allowlist falls back on an expired entry
(`FetchFails`); only tokens have a lifetime of their own (`EntryTtl`). A fetch takes at most
`MaxRead`, the sum of the timeouts of its calls.

### AdvisorFlow

`case` is the advisor's `support_case`, `cs` holds those of product support by id. A turn
works on `copy`, its copy of the advisor's case, which `Record` writes as a whole at the end;
until then the steps of `run_support_turn` (`SupportOutOfScope`, `ContactTimeGiven`,
`ContactTimePassed`, `Evaluate`, `Demote`, `Reply`) save the support case. `Abandon` may end the turn
before each of these. `InDomainFlow` and `TimePrefAction` are `decide.rs`, `Contract` is
`apply_action_contract`. The flags `lead_offered` and `question_streak`, cards and
accumulated conditions only shape texts or are inputs here (`Understanding`). The history
variables say what the customer was told. The refinement instantiates `ReplyFlow` once per
support case. Turns of one conversation do not overlap; late writes are `CaseRecord`'s.

### ManualGraph, UrtectIngest, AlarmcomIngest, ConceptBackfill

The store replaces the attributes of a node and the vector under its id, and only adds edges. A call may be
carried out and still report an error, which ends the run (`CallMade`, `Called`). `UrtectIngest`
crawls a navigation with a stack of parents and writes one batch; its hash covers text,
parent and place. A vector is represented by the hash of what it was computed of; `shown` and
`returned` are the history of the site, the texts a page has had and the pages that were changed
back to one of them. `AlarmcomIngest` commits each article at once, and the language model
may find other concepts in the same text (`Translate`). `ConceptBackfill` reads all sections
before it writes any, in the order of their keys, in batches of one. A section that needs new
keys but lacks required attributes is skipped (`PassRow`), unless there are more of them than one in `SkipOneIn` of
those to be updated; then the run ends before it writes (`TooManyIncomplete`). Nothing keeps the
tools apart, so ingestion steps come in between; `calm` says that none has changed a node
or a derived edge since the series of runs began. `resume` is what the error of the failed
run told the operator. The store is assumed to replace attributes on an upsert, the case
the tools are built for, so a probe really strips a section.

## 3. Runs

| Run | Question | Bounds |
|---|---|---|
| `worm_audit_log` | Does the log keep every acknowledged event, in one chain? | 2 threads, 3 events: one append fails, one follows in the same or the next process, one lands behind a repaired file. Processes may stop and start without limit. |
| `audit_shutdown` | Does a poisoned log always stop the process, never too early? | the 2 logs of `homesec_advisor`, 2 requests: one poisons, one stays open |
| `case_record` | Do separate, failing reads and writes implement the conversation? | 4 messages, 1 question back: a question, an escalation, its contact time and a turn after |
| `case_evaluation` | Do signals accumulate, go and come back as they should, and do decisions and attempts follow them? | 3 signals, 2 rules, 1 domain, 3 known resolutions, 3 evaluations: a signal withdrawn, seen again, decided on; 1 operator, 1 attempt |
| `case_switch` | Do talks about different products stay in cases and histories of their own? | 4 cases, 2 products, histories of 3: to the other product and back, with a case left behind by a failed turn |
| `session_store` | Are messages of one user handled one at a time, with their case, and all of them? | a map of 1 entry, 2 users, 3 events: one session is in the way of the other, whose user writes twice |
| `grading` | Do counts and grade follow the recorded outcomes? | 3 attempts, 2 of the known resolution, 2 operators, one with an id of the old form, 2 calls at a time, thresholds of 1; calls may be repeated without limit |
| `auth_server` | Are states and codes used once, is nobody shut out or signed out without cause? | 2 logins, 3 requests, a map of 2 that is pruned from 1 entry on, times 0 to 3 with lifetimes of 2 and 1, registrations that last 2: a full map empties and fills again, a blob expires between its check and its use; any number of restarts and changes of the key, also within a login |
| `ttl_caches` | How old can an answer be? | one key of each cache, 2 requests, TTLs and fetches of 2, a token that lives 3, 6 ticks: two loads overlap and store in the other order, and their entry is used until it ends |
| `advisor_flow` | Does the advisor keep its promises over turns that fail half way, and is each support conversation bounded? | 1 question back (the limits of 2 misses and 3 errors are the code's), 2 support cases (one in use, one left behind); conversations of any length |
| `urtect_ingest` | Do edges fit the sections, and do vectors come to fit them again? | 3 pages, 2 navigations (a page is taken away) and 2 texts, one with a product; 2 edits, so that a text changes and comes back; any number of runs |
| `concept_backfill` | Do ingestion, back-filling and probing together leave sections whole? | a hub and an article, 2 texts, 1 concept, 1 edit; any number of runs of each tool. `SkipOneIn` is 2, where the code has 10: one incomplete section of two is skipped, two end the run |

Deadlock is checked in `worm_audit_log`, `case_switch`, `advisor_flow`, `grading` and
the runs of the ingestion tools. It is
off where the system may stop: the process of `audit_shutdown` exits, and the
bounded messages of `case_record` and `session_store` and the evaluations of
`case_evaluation` run out, as do the requests of `auth_server` and the clock of `ttl_caches`.

Every module has a type invariant (`TypeOK`, or a name that ends in `TypeOK`). The
configurations leave it out: it is proved where there is a proof, and holds on each model when
it is added as an `INVARIANT`.

`MCConceptBackfill.cfg` has a `VIEW` that leaves the variable `vectors` out: the vectors are only written there,
no guard, no other variable and no property of the run depends on them, so that states which differ
in nothing else have the same future. `MCAuthServer.cfg` and `MCConceptBackfill.cfg` use symmetry;
no property of theirs is about liveness.

The strengthened invariants of the proofs (`IndInv`, or a name that ends in `Inv`) are not in
the configurations either: they are proved for every instance, and were checked on the same
models, added as an `INVARIANT`, before.

### Known disagreements

Where the code does something else than a comment or a document of the repository says. The
module keeps the property as a definition, and the configuration named, changed as described,
gives the trace.

1. **Recomputing the grade is not idempotent** (`MCGrading.cfg` with one operator, 4 attempts,
   `DemoteRejections = 2` and `AttemptQueryLimit = 4`, `RegradeIsIdempotent`). `regrade` promotes
   without looking at `demote_rejections`. With the configured thresholds 8 approvals
   and 2 rejections promote a known resolution, and the next call over the same
   attempts demotes it for good, even if it only sends the same outcome again.
   `recompute_grade`'s comment says that any number of calls gives the same result.
2. **Counts stop at a page** (`MCGrading.cfg` with a smaller `AttemptQueryLimit` than
   attempts, `AcknowledgedAreCounted`). `load_attempts_for_kr` is documented to read all
   attempts; it asks for 1000 and takes what it gets.
3. **A confirmed escalation can be lost** (`MCCaseRecord.cfg` with `SpecLate`,
   `EscalationStaysConfirmed`). After five seconds `ok_reply_response` (`api.rs`) stops
   waiting for the turn record. If the store carries the write out during the next turn, it
   brings back the case as read before: an escalation confirmed in between is gone, and the
   customer can get a second escalation block. `harness/mod.rs` documents the attribute as
   one that does not waver, and the design note excludes concurrent writes of a case.
4. **A signal can be excluded again** (`MCCaseEvaluation.cfg` with `SpecConcurrent`,
   `InScopeSignalsCount`). `evaluate` and the demotion of a discarded turn write back all
   attributes as read before. An operator's `evaluate_answerability` on the customer's case
   meanwhile, which the tool's description asks to be given the `case_id`, may have answered
   on a signal that is then excluded. The design note accepts the lack of serialisation as
   no two writers meet, and counts the callers of `/api/reply` only.
5. **An attempt can bear foreign evidence** (`SpecConcurrent`,
   `AttemptsFollowTheirEvaluation`). `record_answer_attempt` checks the lineage on one
   reading of the case and takes the evidence keys from another; an evaluation that ends in
   between has replaced them.
6. **A code can be used twice in its last second** (`MCAuthServer.cfg` with `SingleUse`).
   The expiry of a code is checked with one reading of the clock and its use with a later
   one; when the code expires in between, the map no longer counts the earlier use. Until
   the expiry it holds (`SingleUseUntilExpiry`).
7. **An answer from the corpus can be older than the TTL** (`MCTtlCaches.cfg` with
   `StaleForTheTtlAtMost`), by the time its loading took: entries are stamped when they are
   stored, not when they were read.
8. **Edges that failed are not retried** (`MCUrtectIngest.cfg` without edits,
   `RepairedByRerun`). Once the nodes are written their hash says that the section is up to
   date, and later runs pass over it. The comment in `ingest_urtect.rs` says that a failed
   node or edge write repairs itself.
9. **A page that fails once can block ingestion** (`StaleOnlyAfterEdits`). The page below
   it gets another parent, and when the page succeeds later that edge would have to be
   removed, which the store cannot do.
10. **A turn may resolve products twice, differently** (`MCCaseSwitch.cfg`,
   `ResolvedOnce`). The comment in `case_switch.rs` says that the comparison and what is stored
   see the same input, as the extraction is passed on; but `evaluate` fetches the allowlist
   again. When it has changed in between, a product can be stored with a case it was not
   compared with. `SubjectsStayApart` says what holds nevertheless.
11. **A vector of another text may stay** (`MCUrtectIngest.cfg`, `SelfRepairs`). The comment in
   `ingest_urtect.rs` (lines 613-617) says of a run that breaks off after the vectors and
   before the nodes that the next one finds another `content_hash` and repairs the section. If the
   page is changed back to the stored text first, the hash agrees, every later run passes over the
   section, and it keeps the vector of the text in between. `VectorsAreRepaired` says
   what holds: only pages that were changed back are exposed to this.

## 4. Fairness

Only two specifications have any.

- `AuditShutdown`: weak fairness on the steps of tasks and timers of the runtime
  (`SendWatch`, the watchers, `Subscribe`, `Report`, `TimerFires`, `ServeReturns`,
  `ForcedExit`), which tokio schedules once they are ready. Requests have none: one
  may stay open for ever, which is why the forced exit exists.
- `SessionStore`: weak fairness on the handler of each event. The call to the API
  ends after 50 seconds at the latest, the calls to LINE have timeouts, and
  tokio's mutex is FIFO, so a handler at the head of its queue goes on. Arrivals,
  sweeps and restarts have none.

## 5. Proofs

All theorems are checked by TLAPS for every value of the constants, under the
assumptions named in the modules (sentinel values are not members of the sets they
stand beside, limits are naturals, sets of attempts and operators are finite).

- **`WormAuditLogProofs`.** `IndInv` adds to the safety properties: whoever is inside
  `append` holds the mutex on a verified chain; with nobody between write and fsync a
  healthy process knows exactly the file; between the two, the one line that is not
  durable is the holder's; a stopped process leaves nothing but what is on disk. Without
  these the chain could fork at the next append as far as the chain property alone can
  tell. From it follow `AuditLogIntegrity`, `ChainStaysUnforked`, `AuditLogRefusal`,
  `PoisonedIsSilent` and `AuditLogRefinesTrail`: each step maps to a step of `AuditTrail` or to
  a stutter. Of the shutdown, for any logs and requests, `ShutdownInv` says that only a log
  whose flag is up has a notice on its way, at its watcher or in the channel (`SentAfterFlag`), and
  that the timer is off exactly while the listener accepts (`TimerStartsTheDrain`); it gives
  `StopsForAPoisonedLogAlways` and `CutOnlyAfterGraceAlways`.
- **`ConversationProofs`.** Three specifications over the same state of a conversation.
  - Of `ReplyFlow`, `WithinBounds` ties the history to the state: before the first
    block the questions asked are the counter saved, after it the case is confirmed, and
    while the contact time is awaited the attempts are bounded by `ErrorLimit * misses + errors`.
    It gives `ConversationIsBounded`, `EscalatedIsNotAskedBack` and `ContactTimeIsKept`, for every
    `clarify_max_turns`.
  - Of `CaseRecord`, `IndInv` says that nobody writes the record behind the back of a turn
    (`CopyIsCurrent`), that what the turn has in its hands is what it still has to write
    (`OwnIsDue`), and that a question or a block on its way to the
    customer is being saved, was given up, or is in the record already (`NotYetHeard`). Each of the
    reads and writes then maps to a step of `ReplyFlow` or a stutter
    (`CaseRecordImplementsReplyFlow`), no write takes back another's (`NoWriteIsLost`), turn
    numbers are unique and what is sent is saved. All of this is of `Spec`, where turns do not
    overlap and a write that was given up is not carried out later; with `SpecLate` it
    does not hold (Known disagreements, 3).
  - Of `AdvisorFlow`, `AdvisorInv` adds to the properties: a turn works on the support case
    of the conversation unless there is none (`LinkIsCurrent`), a noted request keeps its contact
    time and no turn takes it back (`RequestStands`), the mode is on only after a turn of
    support (`ModeIsSupport`), a turn that leaves the question open has come nearer to its end
    already in its copy (`QuestionShrinks`), and every support case is within the bounds of
    `ReplyFlow`. It gives the five invariants of the run, and step by step that each support
    case implements `ReplyFlow` (`SupportImplementsReplyFlowAlways`), for any number of cases.
- **`CaseEvaluationProofs`.** For any rules, signals, domains, known resolutions, operators and
  number of evaluations, of `Spec`, where the callers take turns (for `SpecConcurrent` two
  of the properties fail: Known disagreements, 4 and 5). The properties are not inductive because
  an evaluation writes from a copy read some steps earlier. `OneAtATime` and `CopiesAreCurrent` say
  that the copy is the case while it is used, `TurnsStayApart` that a turn's own signals are
  told apart from those accumulated before until its end, `StopsAreHeeded`, `HazardsBlock` and
  `VerdictStands` what the verdict on its way to the record, the reply and the attempt still rests
  on. All five properties of the run follow.
- **`CacheProofs`.** Of the sessions: a session in use stays in the map under its user, and the
  handler at work heads the queue of its lock; so two handlers of one user would head one
  queue. It gives `SessionsAreConsistent`, `OneHandlerPerUser` and
  `ConversationContinues`, for any number of users and events and any limit. Of the caches: an
  entry was read at most one fetch before it was stored, and a fetch
  under way is no longer than that; so answers are as recent as `AnswersAreRecent` says.
- **`GradingProofs`.** The lock makes what a call has read stay true until it writes
  (`ReadsAreCurrent`). `AutoAnswerNeedsApprovals`, `DemotionIsFinal` and `OutcomeIsFinal`
  need nothing else; `AcknowledgedOutcomesCount` assumes that the attempts fit in one
  query, and needs to (Known disagreements, 2).
- **`CaseSwitchProofs`.** While a turn is under way nothing it rests on is changed: the session
  and its history (`TurnOfTheSession`), the case it answers in (`AnswerHasItsCase`), and the
  products of the old case, so that the comparison still stands when the answer arrives
  (`ComparisonStands`). A new id is in no history, so that an entry of a case that could not be
  recorded never turns into one of another case. It gives `HistoriesAreOfTheirCase` and
  `SubjectsAreKeptApart`, for any cases, products and length of histories.
- **`AuthServerProofs`.** What was consumed and has not expired is in the map (`UsedAreKept`),
  a code in the map was exchanged for tokens (`KeptCodesWereGiven`), and in the second of a
  pruning the map holds nothing expired but what was consumed in it (`PrunedThisSecond`). What is
  under way was begun with the key in use, and a code of that key is for a login of that
  key (`LoginsAreOfTheKey`), so that `ClientsStaySignedIn` holds over key changes at any moment. All
  four properties of its run follow, for any limits, lifetimes, restarts and key changes.
- **`IngestProofs`.** Of the crawl, `CrawlInv`: while it goes on the store is as it was read at
  the start (`RunIsCurrent`), what is in the batch has the hash of what it is written with and
  takes the place of the stored section without an edge left over (`BatchFits`), each of the
  three calls rests on the one before, and what was never written has no edges
  (`EdgesHaveNodes`). So the edges fit also where a run stops between its calls
  (`NoStaleEdgesAlways`). That vectors are repaired takes more: a section is stored with a
  text its page has had and never without a vector (`NodesAreHashed`), what a run has behind it
  is in the batch or has the text of its page (`EachIsLookedAt`), and a vector that does not fit is of
  a section whose stored text is not that of the page, so that the next run finds it changed, but for pages that were
  changed back (`UnfinishedIsRetried`); it gives `VectorsAreRepairedAlways`. Of the
  tool and the ingestion beside it, `BackfillInv`: what a run takes for stored has a node
  (`StoredHasNode`), which gives `NoOrphanParentsAlways`; as long as nobody else has written, what
  is behind the place of the tool bears its keys and what is ahead is as it was read
  (`ReadIsCurrent`), also from run to run (`DoneUpToResume`), which gives
  `BackfillCompletesAlways`; what is written back is complete (`RowsAreWhole`), which gives
  `ProbeRestoresAlways`. Assumed: each section has one place in the order of the keys
  (`KeysAssumption`), the ratio that may be skipped is one in a natural number (`SkipAssumption`),
  and the hash covers text, parent and place (`HashAssumption`).

Model-checked only: the two liveness properties (`PoisonLeadsToExit`, `EveryMessageIsHandled`),
since liveness and ENABLED are beyond the prover's backends here. `TypeOK` and
`OverLimitOnlyWhenBusy` of `SessionStore` belong to no run; TLC finds both to hold when they are
added to `MCSessionStore.cfg`. They rest on what is in the list `recency` after `SelectSeq`, which
is recursive: such facts need induction over data, which the backends do not have either. No
module declares an operator RECURSIVE.

## 6. What is left out

- `CaseRecord`: product and domain attributes, the text of turns; a second writer;
  overlapping turns after the adapter's timeout. Signals are `CaseEvaluation`'s.
- `CaseEvaluation`: servers without a language model (`LexiconOnly`), the scoring of
  manuals and the search that follows a handoff, the advisor as a third caller, the egress
  gate's verdict (an attempt is recorded whatever it is), the two reads at the start of a
  turn are one.
- `SessionStore`: history text, quick replies, the redelivery of a webhook (the code
  keeps no record of handled events: a second delivery is one more event).
- `Grading`: a write that lands after `grade_lock` has changed hands (the gRPC timeout);
  changes of the grade by other means than outcomes.
- `WormAuditLog`: two configured logs that share a path; content of the events.
- `CaseSwitch`: how a text is matched with the allowlist (any references may be found), the
  `end_user_id` a new case inherits, the link to the old case (in `CaseRecord`), turns that overlap,
  the text of histories.
- `AuthServer`: the checks of a registration and of a redirect uri, the sealing of blobs, the
  size limits; a clock that steps back; registrations at other times than the first start with
  a key, and clients that keep an older one.
- `TtlCaches`: that expired entries of other tokens are dropped when one is stored happens
  together with `Empty`; the limit of the query.
- `AdvisorFlow`: drafting, cards and materials, the accumulated conditions, two turns of one
  conversation at once.
- Ingestion: `--no-vectors`, `MENTIONS_SIGNAL` (never read back nor checked), articles that
  leave the site of Alarm.com (the run ends before it writes), the ingestion of products, rules and demo data, `merge_schema`.
- Everywhere: wording, formatting, logging, scoring of text, cryptography.

## 7. Plan

Done, in this order: the audit log and its shutdown; the conversation and the case
record; the sessions; grading; the decision and the evaluations of a case; the authorization
server; the caches; the advisor; the ingestion tools; the switch between products. Next:

1. Proofs: the limit of `SessionStore` (`OverLimitOnlyWhenBusy`), with the order of the entries
   kept as a relation instead of a list; what of `CaseEvaluation` holds for callers that do not
   take turns, and of `CaseRecord` with late writes.
2. The egress gate, corrections and the registration of known resolutions, composed with
   `Grading`: from decision to attempt to outcome to the next decision.
3. `AdminThreads` (paging over turns while turns are recorded), `MergeSchema`, retries of the
   clients, handoff items and business hours.
