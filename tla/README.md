# A formal model of post-kit

post-kit sends templated e-mail for several tenants: an Azure Functions API
that authenticates a tenant, renders a published template and hands the mail to
a provider, and the packages around it (compiler, publisher, client, editor,
release scripts). This directory holds TLA+ models of the parts where order,
failure and concurrency decide whether the code is right, the TLC
configurations that check them on small instances, and proofs checked by TLAPS
that hold for every instance.

To check a run, `tlc -config MCSendHandler.cfg MCSendHandler`; to check the
proofs of a module, `tlapm SendHandlerProofs.tla`. `PROJECT.json` lists the
runs, the source lines of every definition, the mutations of the code each
property has been seen to detect, the hazards, and the findings.

## 1. The system

Paths are relative to `src/`; `api` stands for `apps/api/src`, `email` for
`packages/post-kit-email/src`, `editor` for `packages/post-kit-editor/src`.

| Part | State it keeps | Operations | Works with | Modelled by |
|---|---|---|---|---|
| Send handler (`api/functions/send.ts`) | locals of one invocation | `POST /emails/send`: admit, claim, deliver, complete or release, answer | everything in the API, the provider | `SendHandler`, `SendContract` |
| Delivery policy (`api/send-delivery.ts`) | none | clamp attempts and timeout to the host's limit; `deliverSend`; `sendWithTimeout` | send handler, provider | `DeliveryPolicy`, `SendHandler` |
| Idempotency ledger (`api/idempotency/`) | one blob per tenant, environment and key | `begin`, `complete`, `release` | Azure Blob Storage, by conditional requests | `BlobIdempotencyStore` |
| Rate limiters (`api/contact-rate-limit.ts`) | per worker: instants per key, in a Map of limited size | `tryConsume` | send and contact endpoints | `RateLimiter`, `SlidingWindow`, `Contact` |
| App configuration (`api/config/`) | `process.env`, one shared promise per worker | `ensureAppConfiguration` | App Configuration, Key Vault, every endpoint | `AppConfiguration` |
| Authentication and tenants (`api/auth/`, `api/tenant/`) | none: the registry is parsed for each request | parse the registry, resolve a token to a tenant and scopes | endpoints; the secret the registration script writes | `KeyRegistry` (in part) |
| Key registration (`scripts/register-tenant-api-key.sh`, `tenant-key-map.mjs`) | the registry secret, the app setting | read, merge, write back, wire, print | Key Vault, authentication | `KeyRegistry` |
| Template store of the API (`api/templates/blob-template-store.ts`) | none | `load`, `list` | the blobs the publisher writes | `BlobTemplateStore` |
| Rendering (`api/templates/render-template.ts`, `template-application-service.ts`) | none | validate variables, substitute | template store, send handler, MCP | not modelled |
| MCP endpoint (`api/mcp/`) | a server per request | list, read, validate and preview templates | template service | not modelled |
| Contact endpoint (`api/functions/contact.ts`, `api/contact.ts`, `email/contact/`) | none | `POST /contact`: limit, choose provider and sender, one mail without ledger | provider, rate limiter | `Contact` |
| Providers (`email/providers/`) | none | one POST per attempt, with an inner retry loop the send path turns off; a sink for development | Forward Email | `ForwardEmailProvider`, `Contact`, `SendHandler` |
| Domain provisioning (`email/provisioning/`) | none of its own | create domain and aliases, plan and apply DNS records, verify; validate branding | Forward Email, Route 53 | `Route53Plan`, `DomainProvisioning` |
| Publisher (`packages/post-kit-publisher/`) | memory of one run | compile, list, upload, prune | compiler, Blob Storage, hence the API | `Publisher` |
| Compiler (`packages/post-kit-compiler/`) | none | source files to html and metadata | publisher, editor | not modelled |
| Client (`packages/post-kit-client/`) | none | one `fetch` per call | API | not modelled |
| Editor (`editor/`) | working copy, baseline, preview, state of save and send | edit, preview, save, send a test, take a new template | host application | `EditorSession` |
| Admin editor example (`examples/admin-editor`) | template directories | `FsTemplateStore`: list, load, save by backup and rename | editor, `node:fs` | `FsTemplateStore`, `AdminEditor` |
| Release scripts (`scripts/release-changed.mjs`, `publish-npm.mjs`, `github-releases.mjs`) | npm, git tags, releases | publish, tag, release, again after a failure | registries | not modelled |
| Telemetry, types, health, infrastructure, repository tooling | none that matters | | | not modelled |

### What is hard about it, and what makes each part correct

**Sending.** Concurrent requests with one `Idempotency-Key` (a client retries
while its first request still runs) meet in the ledger from different
instances; storage replies are lost, or the storage client resends a write and
meets its own first attempt; the provider may accept after the timeout has
given up on it; the host may stop an invocation anywhere, in particular
between the provider's 2xx and the ledger write; records expire and are
reclaimed by ETag while an old claimant still works. Correct means: one
delivery at a time per key, one confirmed delivery per key until a record
expires, every 200 true and every replay the same, no retry whose predecessor
might have succeeded, no claimant that damages a newer record, no key blocked
for good.

**Delivery policy.** Attempts, timeouts and pauses together must end before
the host's limit, and the clamp must not cost attempts that would fit.

**Contact and rate limiting.** Boundaries of the window, a table with a limit,
a `Retry-After` in whole seconds that must be enough for whoever obeys it. The
mail has no ledger: the provider repeats attempts whose fate it does not know,
and the answer must be true all the same (202 if a mail is there, 500 only if
none is or will be).

**Configuration.** Invocations share one load; a load fails half way and the
next one continues on what it left; the store changes meanwhile, and the HMAC
key must stay a pair with its version.

**Keys.** The registry is one secret that scripts and hands read, change and
write back. A token must be in it once, so that revoking it is enough; a
registration must not touch other tokens, not even when it moves the document
from the plaintext schema to the hashed one; a token that was printed must work.

**Publishing and reading.** A run is a long sequence of requests that can stop
at any point; the API reads two blobs in parallel while they are replaced; a
prune works from a listing made before the uploads; runs can overlap when the
workflow's concurrency group does not cover them.

**Editing and saving.** Renders, saves, test sends and templates arrive in any
order at an editor that goes on being edited; what leaves it must be what was
previewed, what counts as saved must be what was stored, and no control may
stay disabled for good. The store swaps directories by two renames, any of
which may fail, in a process that may stop, beside other processes.

**Provisioning.** The apex TXT set is shared with others and replaced whole;
two runs race to create the same things; replies are lost.

The full list of hazards, each at its line and with the properties that would
catch it, is under `hazards` in `PROJECT.json`.

## 2. The modules

```
SendContract          what an Idempotency-Key promises (abstract)
   ^ implemented by
SendHandler           send.ts and deliverSend, N invocations, provider, host
   | EXTENDS
BlobIdempotencyStore  the ledger, request by request; Blob Storage; expiry

BlobTemplateStore     load and list of the API beside running publishers
   | EXTENDS
Publisher             post-kit-publish, request by request; Blob Storage

Contact               contact.ts: one request, every answer
   | EXTENDS
ForwardEmailProvider
RateLimiter           tryConsume over the Map of one worker
   | implements
SlidingWindow         who is let through, and what the others are told (abstract)

AdminEditor           the editor wired to the store, a host, another admin
   | EXTENDS
EditorSession, FsTemplateStore          both EXTEND TemplateFiles

DomainProvisioning    provisionDomain, N runs, the zone and its other users
   | EXTENDS
Route53Plan           the records, the change batch, the validator

KeyRegistry, DeliveryPolicy, AppConfiguration      one component each

MC*                    instances for TLC
*Proofs                theorems and proofs
```

Definitions whose comment begins with "Mutated form of" are not part of the
model. Each is a bug the code might have had, and `mutants` in `PROJECT.json`
names the property that detects it.

### BlobIdempotencyStore and SendHandler

An *invocation* is one execution of the handler, on any instance; a client's
retry is another invocation with the same key (`KeyOf`). `BlobIdempotencyStore`
holds the stored record of each key (`blob`, with an ETag that storage counts
up) and, per invocation, the storage request its call is at (`at`), the claim
token, and what the call returned. Every storage request is one action with
the replies the store distinguishes: applied; condition failed; or an error.
A write whose condition holds may be applied and still be reported as an error
(the reply is lost) or as a conflict (the storage client resends it after a
lost reply). `CreateClaim`, `ResolveAfterConflict`, `ReclaimClaim` and
`RereadAfterRace` are `begin`; `WriteCompleted` and `ConfirmCompleted` are
`complete`; `InspectClaim` and `DeleteClaim` are `release`. `PassExpiry` is the
clock passing `expiresAt`, `LifecycleDelete` the container's lifecycle rule.

`SendHandler` adds the control flow: `Refuse` and `Admit` stand for everything
before the claim (which touches neither ledger nor provider), then `AfterBegin`,
`Attempt`, `RejectedStatus`, `NoReply`, `AcceptedStatus`, `AfterComplete`
(`completeIdempotencyWithRetry`), `AfterRelease` (the release before the failure
is thrown, and once more on the way out). The provider accepts a POST at any
time, also after the handler has given it up (`ProviderAccepts`). `Kill` stops
an invocation between any two steps; a kill during a storage request is the
request, applied or not, and then the kill.

Abstracted: keys are model values (the SHA-256 that names the blob is taken as
injective); ETags are the write counter; the answer `permanent` covers the
422, 502 and 503 the code gives for different permanent failures; a status the
provider answers with is taken as true (a 5xx means not accepted, which is
what the code's retry relies on too); a blob is never unparsable; a write does
not land after its failure was reported (it is applied, or not, in that step).

### SendContract

The promise without its implementation: a key is free, claimed by one request
or completed with one request's id; mail is posted only under one's own claim
that is not stale; only its claimant completes a key, after the provider
accepted; only the id of a completed key is reported as sent.
`SendHandler!ImplementsContract` is the refinement (the mapping is at the end
of `SendHandler`).

### Publisher and BlobTemplateStore

`store` holds the three blobs of each template. A run chooses a source tree
and options, compiles (everything, before the first request), lists if
`--dry-run` or `--prune` ask for it, uploads html, metadata and manifest
template after template, then inspects and deletes retired keys blob by blob
in name order. `Stop` ends a run at any request and forgets its memory; what
it changed stays. Runs may overlap: the workflow's concurrency group keeps only
those of one branch apart (`alone` is the history of it). `BlobTemplateStore` adds calls of `load`
(two parallel downloads, served in either order) and `list` (listing, then
metadata row by row, where a 404 fails the whole list).

Abstracted: contents are model values; the order of keys is some fixed order;
a listing is one page. `alone`, `settled`, `basis` and `available` are
history the properties speak of.

### RateLimiter, SlidingWindow, ForwardEmailProvider and Contact

`RateLimiter` is `SlidingWindowRateLimiter` of one worker: `tryConsume` is one
step (it never gives way), time moves in ticks and never backwards. `hits` is
what the Map stores: per key a set of hits, each an instant and a number that
tells apart those of one instant (the code's list is in the order of the
clock, so its first element is the least). `earlier` is the Map's order of
insertion: the keys that stand before each key. `granted` and `retryAt` are
history.

`SlidingWindow` is the promise: a call is granted exactly if fewer than
`MaxHits` granted calls of the caller lie within the window, a refused caller
is told an instant from which on that is so, and the calls of a caller are
forgotten only for a new one while `MaxKeys` callers have some.
`RateLimiter!ImplementsWindow` is the refinement; what counts is what was
allowed within the window (`Counted`), not what the Map stores.

`ForwardEmailProvider` is `send` with its retry loop. Per attempt it keeps
apart what the code heard (`heard`) and what the service does with the mail
(`mail`), so that replies can be lost and mails be taken late (`TakeMail`). A
refusal by status is taken as true, as in `SendHandler`. The caller's
`AbortSignal` is left out: only the send path passes one, with
`maxRetries` 0, and that path is `SendHandler`.

`Contact` composes the two: `Arrive` (with `ensureAppConfiguration`), the
preflight, `Consume` of the limiter, the body (`RejectBody` or `Submit`), the
choice of provider and sender, and `Settle`, which turns the provider's error
into the answer. From the body to the first POST the handler does not give
way, so `Submit` is one step. `env` is what contact reads of `process.env`.

Abstracted: a body is valid or not; a sender map per host has one of four
outcomes for the host of the request (`ProfileOutcome`); headers are told apart
by what the preview and trust decisions ask. The contact limiter is one key
per client address. Requests that are not followed to an answer only use the
limiter (`OtherRequest`).

### KeyRegistry

`secret` is the document in Key Vault: hashed records, plaintext entries, and
whether it parses. A token stands for its digest. A run of
`register-tenant-api-key.sh` is `ReadAndMerge` (read, and
`tenant-key-map.mjs merge` in memory), `Store`, `Wire` and then the token is
printed; `GiveUp` is any failure or stop in between, and both `az` commands may
fail after their effect. Operators edit the document by hand: status, deletion,
a slip that makes it unparsable and the repair. `Authenticate` is what a worker
that starts with this document makes of a token (an unparsable document is an
empty registry; a hashed record decides before a plaintext entry). `revoked` and
`overtaken` are history: which tokens stand revoked or deleted, and which of
them a run under way had read before.

Not modelled: a worker reads `process.env.TENANT_KEY_MAP`, whose reference is
resolved when it starts, so it may use an older document until it restarts;
all `expiresAt` name one instant.

### TemplateFiles, FsTemplateStore, EditorSession and AdminEditor

A template is a triple of files, each a version. `FsTemplateStore` has the
directories under the root of one template (the live one, a staging and a
backup directory per save) and one action per call of `node:fs` another process
could see: `Stage`, `MoveAside`, `SwapIn`, `Tidy`, and in the catch block
`Catch`, `Restore`, `Discard`. Any call may fail (`Throw`, `TidyFails`,
`CleanupFails`), a removal half way too; a process may `Stop` before any call.
Saves of several processes interleave. `load` reads file after file by path. The
template exists when the saves begin: the first save of a new one, which has
nothing to move aside, is left out.

`EditorSession` is `EmailTemplateEditor` with its `PreviewPane`: the working
files and the baseline, the debounce timer and the renders under way, the
calls of `onSave` and `onSendTest` with what they were given, and the template
effect. An effect runs in the step of the render that calls for it. A call
belongs to a generation (`current`); answers of an old one are dropped.
`TemplateEchoed` is a host that passes the files it got in `onSave` back as
the template before it answers. `SerializeFails` is a payload that cannot be
serialized (`actions.ts:49-56`): the control shows the failure and nothing is
called.

`AdminEditor` wires the two as `save-stub.ts` does (`SaveClicked`,
`SaveAnswered`), beside saves of another administrator (`OtherSaves`) and a host
that loads (`Loaded`). Abstracted: contents are versions; which triples fail to
compile, have errors or are not accepted by the store is a constant set each; any
payload may fail to serialize.

### Route53Plan and DomainProvisioning

`Route53Plan` is pure: `Required` records, `MergeSpfInclude`, `Upserted` (what the
change batch makes of a zone, given what was listed), and the validator check by
check (`Validates`). A value is ours or another; an SPF record is how often it
names the include, its other terms and its all-mechanism. Which of several SPF
records, and which of several DMARC values, comes first in the listing is any of
them. At the name of the DMARC record a value starts with `v=DMARC1` (ours or
theirs), spells it `v=dmarc1`, or is something else: the planner looks at the
first that starts with `v=DMARC1` exactly (`route53-plan.ts:146-152`), the
validator takes either spelling (`email-domain-branding-validator.ts:143`). A TXT
value of others has a form: `Rewritten` is what reading and writing it back makes
of it (`route53-plan.ts:45-70`), namely octal escapes with their backslash
doubled, and of a value with quotes inside only the part in them.

`DomainProvisioning` is `provisionDomain`, one action per call to Forward Email or
the AWS CLI. The reads of the zone are three steps (apex, CNAME, DMARC) and the
batch is applied in one, since Route 53 does that. `Fail` is a call that throws
or a run that is stopped, with the effect or without it. `EditZone` is whoever
else works on the zone.

Abstracted: the configuration is parsed already; the logo of a BIMI record
is told apart by where its checks end (fetching and the checks of its
address are an outcome); `?all` goes with `~all`; a TXT name that does not exist
is an empty set; two values that one rewriting makes equal are one (Route 53
would refuse such a batch).

### DeliveryPolicy and AppConfiguration

`DeliveryPolicy` has the clock that `SendHandler` leaves out:
`resolveSendDeliveryPolicy` as operators over scaled numbers, and a course of
`deliverSend` under the policy with the time it takes. The loop that adds up the
pauses and the one that clamps the attempts are recursive functions (`Pauses`,
`Clamp`). Timers fire on time.

`AppConfiguration` has `process.env`, the shared promise (`loadOnce`), and every
load with the settings it has still to visit. A value is told apart by where
it comes from: the host, or a revision of the store. `ChangeStore` is an
operator changing or rotating. Settings are visited in any order; the code's
order is the service's listing.

## 3. What TLC checks

| Run | Instance | What it shows |
|---|---|---|
| `send_one_key` | 3 invocations, one key, 2 attempts, 2 complete attempts | `NoParallelDelivery`, `OneConfirmedDelivery`, `ConsistentReplay`, `ReleasedClaimIsGone` |
| `send_short_ttl` | 2 keyed and 1 unkeyed invocation that share a correlation id; records may expire under a running writer | what survives a TTL that is too short: `AckedMeansAccepted`, `PermanentMeansNotSent`, `NoBlindRetry`, and `FreshRecordProtected` against stale claimants |
| `send_liveness` | 2 invocations, 3 complete attempts, under fairness | `ImplementsContract`, `EveryRequestAnswered`, `NoKeyBlockedForever` |
| `send_complete_failed` | 2 invocations, 3 complete attempts | violation: `RetryAfterFailedCompleteNotBlocked` (the finding below) |
| `templates` | 2 runs, overlapping or not, 2 templates, 3 source trees, 1 reader | of a run that no other was under way with: `SuccessfulRunSettles`, `ReadsServePublished`; of any: `MissOnlyByPrune`, `WritesAreAuthorised` |
| `delivery_policy` | 7 limits x 4 timeouts x 2 delays x 4 attempt counts | `DeliveryEndsInWindow`, `AttemptsAreMaximal` |
| `app_configuration` | 3 invocations, 3 settings, 3 revisions | `ReadyMeansComplete`, `KeyAndVersionAgree`, `ConfigurationIsStable`, `NoStaleFailure` |
| `contact` | 1 request, 1 retry; 3 clients, a table of 2, window 3, 2 hits, 6 ticks; 3 environments | `AnswerIsTrue`, `CopiesNeedLostReplies`; the limiter: `AtMostMaxHitsPerWindow`, `ImplementsWindow`, `RetryAfterIsEnough` |
| `key_registry` | 2 registrations, 2 tokens, 2 tenants, 3 hand edits | `RevocationHolds`, `PrintedKeyWorks`, `OnlyItsTokenChanges` |
| `provisioning` | 2 runs, 1 alias, 2 sets of recipients, 8 command lines, 5 zones, 1 fault, 1 edit of the zone | `ManagedZoneIsValid`, `RecordsOfOthersKept`, `OverlappingRunsSucceed`, `AliasIsAsConfigured` |
| `editor` | 1 save of the editor and 1 of another, 2 versions, 1 edit, 1 load, 1 test send, 2 renders at a time | `OnlyPreviewedLeaves`, `NoOrphanPending`, `WaitHasReason`, `SuccessIsStored`; the store: `CompleteCopySurvives`, `UnlistedOnlyMidSwap`, `SwapsAreWhole` |
| `editor_echo` | the same | violation: `SaveIsReenabled` (the second finding below) |

**Why the bounds are enough.** Ledger: three invocations give an owner, a
stale claimant and a newcomer on one key, the most that interact in one reclaim
race (whoever loses, rereads); keys do not interact, so one key (and requests
without one) is enough; two attempts give a first and a repeated one, two or
three complete attempts a lost first write and its repetition. The refinement is
checked with two invocations and proved for any number.
Publisher: a run that is interrupted or overtaken and the one that repairs
it or changes the tree; two templates so that one is retired or half uploaded while
the other is not; two contents so that a mix shows. Contact: one followed
request, since requests share nothing but the limiter, which three clients use
without restriction; two attempts give a lost reply and its repetition; three
keys overflow a table of two, the horizon is two windows, a second of two ticks
makes rounding visible. Policy: the scaled limits lie below, at and above
headroom and floor, and the attempts range over every case of the clamp.
Configuration: a load that fails, one that succeeds and an invocation that
joins; two rotations around a failed load. Keys: a run that is overtaken by
another, over its own token or another one, and three edits so that one revokes,
one breaks the document and one repairs it. Provisioning: two runs are a winner and a loser of
every race, the zones include one that validates, one with two SPF and two
DMARC records, a CNAME, one whose DMARC record the planner does not recognise,
and values of every form. Editor: one edit falls before or after a render, a save or a load;
the other administrator's save gives every interleaving of two swaps. For the
safety properties no bound matters in the end: every one that a passing run
checks, and both refinements, are also proved for every value of the constants
(section 4).

Symmetry is used for interchangeable invocations, runs, tokens and clients in
runs without liveness properties. Deadlock checking is off where every
invocation, run or call comes to an end and the system may stop.

**Fairness.** `send_liveness` assumes that an invocation which is not killed
keeps making steps (`WF` of `HandlerStep`: storage calls and provider calls
settle, since the SDK's retry policy and `sendWithTimeout` bound them) and that
time passes (`WF` of `Expire`: a record's `expiresAt` comes). Nothing obliges
the provider to accept, the host to kill, or the lifecycle rule to run.
The other runs are about safety and assume none.

Type invariants are proved (section 4) and left out of the runs, which keep to
what the code could get wrong.

**Findings** (`PROJECT.json` quotes both sides).
- `send_complete_failed`: after three failed attempts to complete a record the
  handler answers "retry with the same Idempotency-Key" and leaves the claim in
  progress, so the retry gets the 409 that the comment says to avoid
  (`send.ts:461-472`).
- `editor_echo`: a host that passes the very `files` object it was given in
  `onSave` back as `template` before it answers leaves the editor without a
  preview result, hence with Save disabled until the next edit, although
  `packages/post-kit-editor/README.md:125-126` says the control is enabled again
  in every outcome. `previewResult` is dropped (`email-template-editor.tsx:157`),
  but the files are the same object and `PreviewPane` does not start again.
  `WaitHasReason`, which holds, excepts just this case (`echoed`).

**Observations** made while modelling, without a run of their own:
- A publish without `--prune` or `--dry-run` lists nothing and reports every
  template as *added*, also those it overwrites (`publish.ts:36-40`, `:128`).
- The usable window has a floor of one second, so a short
  `FUNCTION_TIMEOUT_MS` lets a delivery run into the headroom that
  `docs/architecture/send-timeout-retry.md:19-21` says is kept
  (`send-delivery.ts:169`).
- A complete copy of a template always survives, with one exception that
  `CompleteCopySurvives` names: a removal of a backup that failed half way, while
  another save ran, whose process then stops between its renames or fails to
  put back what it moved. The same torn backup can be put back as the live
  directory by a save that fails: the template is then out of the list although
  nobody is at work on it, until the next save (`UnlistedOnlyMidSwap`, `TornPutBack`).
- A load across a swap may return files of two saves (`template-store.ts:202`).
- Two registrations that overlap lose one of the two; the runbook has operators
  serialise them (`docs/onboarding/tenant-onboarding.md:105-107`). A run that had
  read the secret before a revocation or a deletion stores it as it was: the token
  is let in again (`RevocationHolds` excepts it, `overtaken`).
- Without `--force-dmarc` the plan leaves a DMARC record of others alone only if it
  is the first value listed that starts with `v=DMARC1`: listed after ours it is
  dropped with the set, and so is a record spelled `v=dmarc1`, which the validator
  accepts, or any other TXT value at that name (`route53-plan.ts:146-152`).
- TXT values of others that are written back with the apex set do not all come
  back as they were: octal escapes get a second backslash, and a value with quotes
  inside is cut to the part in them (`route53-plan.ts:45-70`, `:100`, `:122`).
- A test send carries a key and preview data: it mails the template as it was
  published, not the files on the screen.

## 4. What is proved

TLAPS proves the theorems below for any number of invocations, keys, runs,
readers, templates, clients, settings, tokens, saves, renders and attempts.
They rest on the assumptions the modules state about their constants (that the
"no value" constants are not values, that functions have their domains, that sets of
options are sets of options, that counts are natural or positive), and, where
named, on a hypothesis about the deployment.

**SendHandlerProofs.** One inductive invariant, `IInv`, carries all of it:
- `RecordInv`: a stored record was written by an invocation of its key, a
  completed one by an invocation whose mail the provider accepted;
- `ControlInv`: which storage request, post state and locals go with which
  program point;
- `TokenInv`: an ETag names one write, so a token that still matches is the
  holder's own claim, and a record that was read as expired is still that
  expired record if its ETag still matches;
- `DeliveryInv`: while an invocation delivers, its claim is in the ledger;
  after it has heard of acceptance, the record is its own until one expires;
- `ReportInv`: an id is reported only from a completed record.

The safety properties are not inductive: that two invocations never deliver
together follows only from the fact that both tokens match the one ETag.
Theorems: `TypeCorrect`, `DeliveryIsExclusive`*, `DeliveryIsUnique`,
`AcknowledgementIsSound`, `ReplayIsConsistent`, `PermanentIsFinal`,
`NoBlindRetries`, `RetriesAreClaimed`*, `FreshRecordsAreProtected`. Those with
a star assume `TtlOutlivesInvocation`: no record expires while its writer runs
(24 hours against the 5 minutes of the host); without it they are false, while
the others hold nevertheless.

`ReleaseFreesTheKey`, that the answer which frees a key for a retry leaves no
claim of the request behind, needs `ReleaseInv` as well, the converse of
`TokenInv`: as long as the ledger holds a claim of an invocation, that claim has
the ETag in the invocation's token, so a `release` that finds another ETag, or
none, has nothing of its own left to delete; and an outcome "released" means
that no claim of the invocation is left.

`HandlerImplementsContract`*: initial states correspond, and every step of
handler, ledger, host and clock is a step of `SendContract` or a stutter. The
proof goes action by action, with `IInv` to show for instance that a
conditional write that succeeds was the claimant's.

**TemplateProofs.** For runs that overlap in any way. What every run keeps is
`WellFormed` (its memory fits its options and tree); from it
`PublisherWritesAuthorised`, and with `GapInv` (what a call still hopes to find
is there, or was pruned by a run that has begun; runs never forget their
options, so this stays true) `TemplatesTypeCorrect` and `NoGapWithoutPrune`.
`PublisherInvariance` and `SuccessSettles` are about a run that no other was
under way with. Their invariant: a run counted as alone is the only one
under way (`AloneInv`); what it has already uploaded is in the store, what its
prune has not yet handled is still in its list of retired keys, and the blobs it
is about to delete are those there are (`InPlace`); nothing is settled while
any run publishes (`ProgressInv`). It is needed because success is a statement
about all templates made from memory gathered step by step, after runs that
stopped anywhere or interleaved. `PublishedIsServed`: what a call has collected
is the settled run's, as long as it is settled.

**ContactProofs.** `ContactInvariance`: one invariant, `ContactInv`, of three
parts. Assumed of the constants: the limits of the limiter are positive, the
horizon and the number of retries are natural numbers.
- `LimiterInv`: within the window, what the Map stores and what was allowed are
  the same (`StoredIsGranted`), although one is pruned on every call and the
  other never; hits of one instant have different numbers, so that counting
  elements of the set counts calls; `earlier` is a list of the stored keys, at
  most `MaxKeys`; and every denial named an instant at which an oldest hit has
  left the window and fewer than `MaxHits` remain (`RetryIsKept`). From it:
  `LimiterIsTight`, `RetryAfterSuffices`, and `LimiterImplementsWindow`: `Allow`
  is `Grant`, dropping the one first key of the list (`OneVictim`) exactly when
  the table is full of callers whose calls count; `Deny` is `Refuse`; the clock
  is `Pass`.
- `ProviderInv`: attempts before the current one were lost or refused, later
  ones were not made, a refused mail is never taken. From it:
  `CopiesAreAccounted` (every copy but that of the last attempt belongs to an
  attempt whose reply was lost).
- `RequestInv`: what the program point of a request says about its call, its
  answer and its mail. From it: `AnswersAreTrue`, `ContactTypeCorrect`.

**DeliveryPolicyProofs.** `DeliveryInvariance`: the time spent never exceeds what
the attempts made so far can take, each the timeout and each pause what
`Pauses` adds for it. From it `DeliveryFitsWindow`: the clamp has chosen a number
of attempts whose sum fits. `DeliveryTriesEnough` is the other side: the
clamp takes no attempt away that would fit. `AttemptsAreMaximal` states that
with the sum over a set of pauses, the code adds them up in a loop, so the
proof shows that both give the same number (`SumOfPauses`). What a recursive
function computes for every number of attempts is shown by induction, which is
derived here for single sets from the well-foundedness of strict inclusion
between finite sets of the library (`LeastNumber`, `Induction`, `Recursion`).

**AppConfigurationProofs.** `ConfigurationInvariance`, `ReadyIsComplete`,
`KeyMatchesVersion`, `ConfigurationStaysStable`, `FailuresAreForgotten`,
`OneLoadAtATime`. The invariant says what a load under way has set so far, that
a failed promise is never the shared one, and that only a load under way
resolves a reference.

**KeyRegistryProofs.** `KeysInvariance`, `KeysTypeCorrect`, `RevocationsHold`,
`OthersAreKept`, `PrintedKeysWork`, however runs and hand edits interleave. The
invariant adds to the types that what a run is about to store is its merge of
what it read (`Merging`), and that while a run is the last writer, the secret
is what it stored (`Writing`): `PrintedKeyWorks` speaks of the secret long after
the merge. `RevocationsHold` needs `RevokedAreOut` as well: a revoked token has
no way in through the secret, nor through what a run is about to store, unless
that run registers it or read before the revocation; and no way in means no
plaintext entry even in a document that is invalid for the moment, for a repair
brings back what it holds.

**AdminEditorProofs.** The invariant has two halves.
- The store (`StoreInvariant`): what is staged is whole, a save has a backup or
  has swapped only from a point on (`Progress`), copies are whole but for the
  exception (`CopiesAreWhole`), and a save that was never beside another left a
  live template (`AloneIsLive`). From it: `CopySurvives`, `UnlistedIsMidSwap`,
  `OnlyWholeSwaps`. That an absent template has a backup in full of a save
  between its renames (`AbsentOnlyMidSwap`) is part of the induction: a swap may
  rely on the backup that explains the gap; and a live directory that is not
  whole was a torn backup (`TornPutBack`, which no later step of the two saves undoes).
- The editor (`EditorInvariant`): a current render is of what is shown, and so
  is a preview result (`PreviewIsOfShown`); what is under way had one
  (`SentArePreviewed`). From it: `PreviewedLeaves`, `PendingIsUnderWay`,
  `WaitingEnds`. `CallsMatch` ties the editor's calls to the saves of the store,
  which gives `SavedIsStored`. `AdminTypeCorrect` is the types of both.

**DomainProvisioningProofs.** `ProvisioningTypes`, `RacesAreHarmless`,
`AliasesAreConfigured`, `OthersRecordsAreKept`, `ManagedZonesAreValid`.
`OthersRecordsAreKept` is about every listing, not only a fresh one: it
speaks of what was listed and is there still, and follows the values through the
conversion. The invariant says that a run sent back by a refusal finds what it was refused
for (`RacesAreSettled`: nothing deletes a domain or an alias), that the listed
CNAME is the zone's as long as nobody edits (`CnameIsAsListed`), and what
program points imply about locals (`AtWork`); `ZoneInvariant` adds what the
last batch left. `ManagedZonesAreValid` has a hypothesis: no zone found or made
by others names the include twice itself (such a record the planner leaves as
it is).

**Only model-checked.** Liveness under fairness (`EveryRequestAnswered`,
`NoKeyBlockedForever`) and anything with `ENABLED` are outside the prover's
reach; the expected violations are shown by their traces. The hypothesis of the
theorems with a star is a fact about the deployment that no model here derives.

## 5. What is not modelled

`PROJECT.json` gives the status and the reason for every part.
- Pure functions without state: the compiler, rendering, validation of
  variables, the client's single calls, the size limits, the parsing of
  configurations and command lines.
- Presentation: canvas, panels, variable catalogue, wording and layout;
  telemetry throughout.
- The MCP endpoint: a server per request that only reads through the template
  service.
- The memory ledger: each operation is one synchronous step over a Map.
- `send-test-handler.ts` (one call of the client), `memory-persistence.ts` (a Map
  for the browser) and the example application around them.
- Release scripts, hand-off and worktree scripts, infrastructure: tooling of the
  repository, run one at a time by its workflows.

Of the modelled parts: the limiter's count per worker is documented as best
effort, so there is no promise across workers to check; storage, Key Vault,
Route 53 and the file system are taken to honour their conditions and to make
one request, one batch or one rename at a time; what section 2 lists as
abstracted.

## 6. Plan

Done, in this order: ledger and handler, contract and refinement, publisher
and readers, limiter, policy, configuration; provider and contact endpoint, key
registry, file system store and editor, domain provisioning; proofs of every
safety property of the runs; the limiter's promise and its refinement.

Next, in this order:
1. An abstract registry (a token belongs to a tenant, or to nobody) that
   `KeyRegistry` implements as long as registrations are serialised.
2. An abstract store (a template is replaced whole, or not at all) that
   `FsTemplateStore` implements for saves that are not beside another.
3. The instant at which a worker resolves the reference to the registry, to
   bound how long a deleted token keeps working.
