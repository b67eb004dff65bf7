# A verification project for oidc-middleware

`oidc-middleware` is OpenID Connect middleware for Axum. It protects routes in three ways: by bearer
tokens (`service`), by browser sessions obtained with the authorization-code flow (`web-app`), or by
both (`hybrid`). This directory holds TLA+ modules translated from its source, TLC configurations
that check them on small instances, and TLAPS proofs of theorems about them for all instances.

Line numbers are those of the sources in `src/`; `PROJECT.json` maps every definition to its lines.

## The system

The server keeps almost no state. What it keeps is shared by all requests of a process, and each
request is a future that an executor polls, that another request can overtake at every `.await`, and
that is dropped there when its connection ends.

| component | source | state | operations | hard behaviour |
|---|---|---|---|---|
| refresh single flight | `web_app.rs` 495-529, 2338-2466 | `RefreshFlights` (token digest to flight), each flight's outcome, completion time and wakers | `coordinated_refresh`, `join`, `complete`, `remove`, `wait`, drop of the guard | two mutexes, a hand-written poll function, cancellation of the leader, retention of outcomes |
| token lifetimes, cookie age | `web_app.rs` 252-323, 2064-2078, 2569-2647; `config.rs` | none (arithmetic) | `from_response`, `freshness`, `is_expired`, `max_age` | saturation at the end of u64; two computations, one for the server and one for the browser, whose ends must meet |
| web-app session | `web_app.rs` 240-323, 495-700, `oidc.rs` 350-437, 1483-1536, `tenants.rs` 503-523 | the browser's `q_oidc` cookie, the cookies queued for an answer | restore, refresh, clear, logout, answer | answers arrive in any order; the provider rotates refresh tokens; queued cookies must reach the answer on every path |
| sign-in | `web_app.rs` 325-760 | the browser's `q_oidc_redirect` cookie | `authorization_redirect`, `callback`, `logout` | several tabs, repeated and foreign callback links, provider errors, restarts without a configured key |
| JWKS refresh | `jwks.rs`, `jwt.rs` 253-276 | cached key set, time of the last forced refresh | `decoding_key`, `should_force_refresh`, `apply_jwks_algorithm_config` | check and fetch are not under one lock, overlapping fetches, keys that rotate |
| bearer-token validation | `jwt.rs`, `introspection.rs`, `user_info.rs`, `validator.rs`, `validation_claims.rs` | none | `validate` of seven validators, the claim checks | fallback from one validator to another, time that passes at every await, three sources of roles |
| ID tokens, the principal of a session | `id_token.rs`, `web_app.rs` 625-710, 1070-1142 | the session in the cookie | `validated_tokens`, `validate_refreshed_id_token` | each refresh is compared with the one before; ID tokens may be left out |
| dispatch | `oidc.rs` 320-492, 1483-1536 | none | `authenticate_or_response`, `authenticate`, `authenticate_web_app` | application type, enabled flags, callback path and unverified bearer headers combine |
| tenant selection | `tenants.rs`, `path.rs` | the tenants, fixed when built | `select`, path scores | order of the selectors, ties, fall-through |
| authorization, macros | `authorization.rs`, `oidc-middleware-macros` | none | role checks on a principal | a guard outside of the middleware sees no principal |
| extraction of tokens and roles | `token.rs`, `principal.rs` | none | parsing | a hybrid application reads the header twice, once to decide and once to validate |
| configuration, discovery | `oidc.rs` 516-1427, `config.rs`, `provider.rs` | none after the start | `from_config`, `discover_from_config` | which validators a configuration gets, and with which issuer, depends on a dozen settings |
| errors | `error.rs` | none | status codes and headers | |

A web-app request enters `OidcService::call` (or `TenantsService::call`, which first selects a
tenant). `authenticate_web_app` answers callback and logout paths. Every other path restores the
session of the cookie in `session_context`: a current session is served, one that needs a refresh
joins a flight of its refresh token, one that is over is cleared. Without a session the request is
redirected by `authorization_redirect`. The cookies that these functions want to set are queued in
the request (`PendingWebAppCookies`) or put on the redirect. A refresh and a callback call the
provider's token endpoint and validate the tokens with the validators, which for JWTs ask the key
cache. A bearer request goes straight to the validators.

### What makes each component correct

- **Single flight.** No two calls with one refresh token overlap. None follows a finished one within
  the retention period. Every request gets the outcome of a call made with its own token, all requests
  of a flight get one outcome, nobody who waits is forgotten once the call has ended, and a dropped leader
  blocks nobody.
- **Lifetimes.** Nothing is served from a stored session whose tokens have expired for longer than the grace. The
  browser keeps what the server would use, and no longer.
- **Session.** A browser gets its own session and no other's. A refreshed session reaches the
  browser. The provider's rotation of refresh tokens does not sign a browser out because it sent two
  requests at once.
- **Sign-in.** A browser is signed in only by a sign-in it began. A sign-in whose code the provider honours is
  lost only if another request of the same browser, a restart or the end of the ten minutes disturbs it.
- **JWKS.** The provider is asked at most once per interval. Tokens with unknown keys are
  turned away only because it was asked. The cache does not go back to an older set.
- **Validation.** A token is accepted on the word of an authority that the configuration names, and by
  the time of that word. An error of one validator becomes an acceptance by another only where the
  configuration says so, and never for an ID token. The roles come from the configured source.
- **Sessions over refreshes.** The ID token of a session stays that of the user, the provider and the
  authentication that it began with. The principal is that user, unless the last access token names another.
- **Start, dispatch, tenants.** No combination of flags, headers and tenants lets a request through
  without the identity that its route requires. A token decides alone where there is one. An accepted
  token is of the issuer that its tenant's configuration names, or a JWT that names none and is verified with
  the tenant's keys.

## The modules

| module | what it is | extends or instantiates |
|---|---|---|
| `RefreshFlight` | one flight: publish, wait, wake | |
| `SingleFlight` | what `coordinated_refresh` promises, without flights, locks and clocks | |
| `RefreshFlights` | the table of flights and its requests | `INSTANCE SingleFlight` (refinement) |
| `TokenLifetime` | the clock arithmetic, as operators | |
| `SessionAge` | a session growing old under every configuration | `TokenLifetime` |
| `WebAppSession` | browsers, provider, cookies, answers | `TokenLifetime`, `INSTANCE RefreshFlights` |
| `JwksCache` | the key cache below the JWT validator | |
| `SignIn` | redirect, callback, logout of browsers with tabs | |
| `TokenClaims` | the checks of claims, as operators | |
| `TokenValidation` | one bearer token on its way through a chain of validators | `TokenClaims` |
| `SessionTokens` | whom a session is about, from the sign-in through its refreshes | `TokenClaims` |
| `Setup` | what the start makes of a configuration and of the provider's answers, as operators | `TokenClaims` |
| `TenantPaths` | the scores of path patterns, as operators | |
| `Dispatch` | start, tenant selection, authentication, guard, answer | `Setup`, `TenantPaths` |
| `MC*` | constants and symmetries for TLC | the module named |
| `*Proofs` | theorems and their proofs | the module named, `TLAPS` |
| `TokenProofs` | theorems of both modules about tokens | `TokenValidation`, `SessionTokens`, `TLAPS` |

Modules have a section headed *Slips*, or single operators marked "A slip". They are wrong
variants of operators. No specification uses them; replacing the right operator by one shows
that the properties can fail.

### RefreshFlight

`outcome` and `waiters` are the fields of `RefreshFlightState`. `wait()` is a `poll_fn`: a poll is
one step, because it happens under the flight's mutex, and is `PollReady` or `PollPending`.
`complete` is three steps, as in the code: `Publish` under the mutex (set the outcome, take
the list), `Wake` once per taken waker after the mutex was released, and `ReleaseGuard`. A waker
stands for a task: two futures of one task have the same waker (`will_wake`) and a future that moved
to another task is polled with another one. `StartWait`, `SpuriousPoll` and `DropWait` are what an
executor and a server may do with a future.

### RefreshFlights

`flights` is the map under its mutex, with tokens for their SHA-256 digests. A flight is named by the
request that created it, since a request refreshes at most once. `join` prunes all stale flights, and then
follows a flight (`JoinAsFollower`) or inserts its own (`JoinAsLeader`). `Complete` is the leader's
`complete(self)`; the drop of an armed guard is `DropLeader` (publish a failure) and `RemoveFlight`
(take the entry out if it is still this flight), two steps because two locks are involved and other
requests may run in between. A leader does not suspend between `complete` and the poll that finds
its own outcome, so only followers can be dropped while they wait. `wait` is `ReturnOutcome`, whose
inner life is `RefreshFlight`.

`SingleFlight` is the abstract promise. In the refinement `callers` are the leaders, `finished[k]`
are the outcomes of the flights made with token `k`, and a dropped leader is gone at once.

### TokenLifetime and SessionAge

The operators have the code's names or say what a local variable of the code means.
`MaxU64` and `MaxI64` stand for the ends of the types, so that saturation and the cap of `Max-Age`
are reached in small instances. `Never` is a missing expiry or an unset skew. `SessionAge` stores
one session from an arbitrary token response under an arbitrary configuration at an arbitrary time
and lets the clock run to the end of u64. The code reads the clock twice in one path of
`session_context`; `Treatment` has the second reading as an argument of its own (`later`).

### WebAppSession

`jar` is what a browser holds, `cookie` what a request carries, `replies` the answers on their way.
`Send`, the handling and `Deliver` are separate steps, so requests of one browser overlap and their
answers arrive in any order. The refresh uses the actions of `RefreshFlights` as they are, each
joined with what the session does in the same step. The provider accepts a live refresh token and may
rotate it, refuses a spent one, and may answer a call whose leader was dropped. `Tenanted` is the
difference between `OidcService`, which puts the queued cookies on the answer, and
`TenantsService`, which does not.

Data that no property needs is left out: a session is user, refresh token and expiry. Every session
has a refresh token; those without are covered by `SessionAge`.

### JwksCache

A set is known by its number in the order of publication; a token by the key it names and the key that
signed it. `MissKey` and the decision of `should_force_refresh` (`RejectThrottled`, `StartFetch`) are two
steps, because the cache is unlocked in between. The fetch is a step of its own (`Respond`), its
failure another, and its use another (`UseResponse`, `RejectResponse`), and the request can be
dropped in between (`Drop`).

### SignIn

A sign-in is named by the request that was redirected. A browser has one `q_oidc_redirect` cookie,
whatever the number of its tabs. A callback link can be opened by any browser, at any time, again
and again. What the provider's redirect holds is a code, an error or neither (`Grants`). `Correlated` is the
comparison of the states. A callback without a state, or whose form has another content type, is too
large or no text, is refused before the cookie is looked at (`RejectMalformed`), and leaves it alone, as does a
callback of another sign-in (`RejectCallback`); an error or a missing code of this sign-in consumes the state
(`ReportError`), and so does a code or a token that turns out to be bad (`FailCallback`). The ten minutes of the
state cookie can be over at any moment (`StateExpires`). Browsers send the cookies that they have, in a header that
the server reads: `SameSite` and the limits on the length and number of cookies are not modelled. The code exchange and the validation of
its tokens are two awaits and so two steps. `Restart` loses the requests in progress, and the
encryption key if none is configured (`Readable`).

### TokenClaims and TokenValidation

`TokenClaims` has the functions of `validation_claims.rs` and the extraction of name and roles. In
`TokenValidation` a chain is the value that `discover_from_config` installs: the validator asked first,
an `IntrospectionFallbackValidator` around it or not, a `UserInfoRolesValidator` around that or not.
`stage` is the await at which the future is: the key cache (what `JwksCache` models, here an answer or
none), the introspection endpoint, UserInfo, or UserInfo for the roles. `Tick` runs between all of
them. `AcceptLocally`, `Introspected` and `UserInfoAnswers` read the clock after the answer, as the code
does. The JWT library is external: it looks at `exp` always, at `iss` and `aud` only if the token has
them, and not at `nbf` (`Decodes`). `RejectLocally` is any error, since the fallback does not look at it.
`vouched`, `voucher`, `profile` and `since` are history: who said what and when.

### SessionTokens

Its names of the specification begin with `Session` (`SessionSpec`, `SessionTypeOK`), because
`TokenProofs` extends this module and `TokenValidation`.
`validated_tokens` for a sign-in (`SignIn`) and for a refresh (`Refresh`). `IdTokenOk` is
`JoseIdTokenValidator`, `Continues` is `validate_refreshed_id_token`, and `SessionOf` is what is stored: the
principal of the access token, or of the ID token if the access token was turned down, with the roles
of the ID token if these are their source. `sent` is the nonce in the state cookie, which an earlier run of the server
may have made under another setting. `original` and `named` are history: the ID token of the sign-in, and whom the last
access token named. How an access token is judged is in
`TokenValidation`; here it names somebody or nobody.

### Setup, TenantPaths and Dispatch

`Setup` follows `discover_with_client` and the functions that it calls, branch by branch: `Discoverable` is
the conjunction of all its errors and `Discovered` is the `Oidc` it builds. `FromConfig` is
`from_config().build()`. An endpoint is missing, usable or bad. In `TenantPaths` a path is a sequence of
segments and `Score` is `path_match_score`; `Paths` are the paths that requests may have. They are assumed
to be enough to tell patterns apart: where a path has a segment there is one with another segment, and
its parents are paths (`PathsAssumption`). `Dispatch` starts an application (`Start`, `StartFails`),
selects a tenant for a request (`Receive`), and then has an action per branch of `authenticate_or_response`
and of the functions below it. `Serve` and `TurnAway` are the guard of the route: `require_roles`,
`require_authenticated`, or the code that `#[roles_allowed]` generates. What validators and
`session_context` decide is a choice here, restricted to what the other modules allow. In `AcceptToken` that is `Acceptable`: the keys compare the issuer of a JWT if it names one (`jwt.rs:232`),
introspection has to name the expected one, and UserInfo is not asked. In `UseSession` the cookie must have been
sealed by the tenant.

## The runs

The checks stop at a bounded number of requests and a bounded clock. When all requests are done
and the clock is at its bound the model stops, which is the end of the scenario and not a deadlock of
the code; `CHECK_DEADLOCK FALSE` is there for that reason in every configuration. That nobody is
stuck is stated as liveness instead (`WaitersReturn`, `WaitersAnswered`).

| run | instance | what it shows |
|---|---|---|
| `refresh_flight` | 3 futures, 2 tasks | no wakeup is lost, one outcome for all, all who wait return |
| `refresh_flights` | 3 requests, 2 tokens, retention 2, clock 0..3 | one call per token at a time and per retention period, own answers, nothing left by a dropped leader, refinement of `SingleFlight`, all who wait are answered once their call has ended |
| `session_age` | u64 of 0..4, `Max-Age` up to 3, every configuration and response over the expiries 1, 3, none | server and browser agree on the age of a session; nothing stale is served |
| `web_app_session` | 2 browsers, 3 requests, 3 tokens, tokens live 1 tick, retention 2, clock 0..3 | own pages and cookies, rotated tokens are replayed late only |
| `jwks_cache` | 3 requests, 3 sets, 4 keys, interval 2, clock 0..4 | fetches are spaced, tokens are turned away for that reason only, the cache goes back only after a slow fetch |
| `sign_in` | 2 browsers, 4 requests, 1 restart, generated key | own sign-ins, callbacks with a code fail for a cause only, with expiry, unreadable callbacks and refused codes |
| `token_validation` | 12 chains by 14 configurations, 20 tokens, 24 introspection answers, clock 0..3 | who vouches for an accepted token and when, no ID tokens, one source of roles |
| `session_tokens` | ID tokens of two users in 36 forms and with 9 flaws, any number of refreshes | the ID token of a session, its principal, and its roles |
| `dispatch` | 6,054 applications with the answers of their provider, 48 requests | who reaches a handler, what a token decides, whose issuer it is, which tenant a path belongs to |
| `web_app_tenants` | 1 browser, 2 requests, `Tenanted` | violated: no `Set-Cookie` under `TenantsLayer` |
| `userinfo_subject` | as `token_validation` | violated: roles of another user are accepted |
| `sign_in_verifier` | the applications of `dispatch` with a well-known provider | violated: a login without a verifier of ID tokens |

Why the bounds are enough. A conflict in the table of flights needs a leader, a second leader of the same
token and a request that follows one of them: three requests. A second token shows that pruning and the
answers do not mix tokens. Clock 3 with retention 2 lets a flight go stale, be replaced, and its leader's
removal come after that. Two tasks let two futures share a waker and one future move. Two browsers with
three requests put a follower or a second leader beside another browser's refresh; three tokens allow one
rotation. Three requests and clock 4 with interval 2 allow three fetches, of which the first can outlast the
interval and answer after the second; the four keys are one that leaves, one that stays, one whose algorithm
is not accepted and one that is never published. Four requests are a redirect and a callback for each of two
tabs or browsers. A validation waits at most three times, and with clock 3 and an expiry or an age of 1 or 2
the time limit is passed at any of these. Claims and tokens differ from a good one in one or two fields,
because every check is a conjunct of its own; chains are combined with all configurations. An ID token is
compared with one other at a time, so two users, two providers, two times and three nonces are all there is
to tell apart. A request in `dispatch` shares nothing with another, so one is enough; single tenants have
every combination of type, policy, source of roles and public key with each endpoint missing or bad, and
three tenants have every order and way of selection with six sets of overlapping patterns. Paths have up to
three segments: patterns with a literal before, after and between stars differ there. The proofs below
lift most of the safety properties to every instance.

### Findings

The `violation` runs check statements of the repository that the code does not keep.

1. *Tenants drop refreshed sessions* (`tenants.rs:514`). `OidcService` appends the queued cookies to
   answers, `TenantsService` has no such step. A refreshed session is used for one page and then lost;
   if the provider rotates refresh tokens, the browser is signed out after the retention period.
2. *UserInfo is compared with a name* (`user_info.rs:243`). `principal.subject()` is the name of the
   principal, which `upn`, `preferred_username` or a configured claim can be, and not the `sub` of the
   token. Where the two differ, UserInfo about another user is accepted and UserInfo about the right one
   rejected.
3. *A login without a verifier* (`oidc.rs:1138`). With `oidc.provider` instead of `auth-server-url`, discovery
   disabled and the endpoints configured, the application starts and every sign-in fails.

Other differences were read while modelling; the modules do what the code does, and no run is
spent on them.

- Access tokens of a refresh are compared with nothing (`web_app.rs:656`): after a refresh without an ID token the
  ID token of one user can be beside a principal that another one's access token names (`IdentityIsKept` says how
  far that goes). The next response whose access token is turned down names the user of the sign-in again.
- A JWT without `iss` is accepted by the keys although an issuer is configured (`jwt.rs:232-234`: the library
  compares what it finds), while introspection has to name it.
- A retained outcome can be older than its tokens (`web_app.rs:2348`): tokens that live for less than
  the 60 seconds of retention are served after their end.
- A fetched key set is thrown away when it lacks the token's key (`jwks.rs:142`, other than the comment at
  `jwks.rs:27`), and the accepted algorithms are those of the first set (`jwt.rs:274`).
- The clearing of the redirect state names no sign-in (`web_app.rs:434`): a late answer can remove the state of
  another tab's.
- Logout is said to clear the session always (`web_app.rs:873`) and answers 403 without clearing when
  the session is unreadable (721-735).
- `oidc.token.issuer=any` turns the comparison off for access tokens and is taken literally as the
  issuer of ID tokens where the configuration provides it. Without discovery, the issuer of ID tokens is
  `auth-server-url` although `token.issuer` may differ.
- With introspection as the only policy and a well-known provider the issuer of the response is not
  compared, because the configuration names none (`ChainIssuer`).
- Roles from UserInfo are never loaded behind introspection or a public key, and not behind JWTs if the
  configured path of UserInfo is bad and discovery is off: the principal then has none.
- Path patterns with equal scores belong to the tenant registered last, and about a thousand literal
  characters before a star outweigh an exact match (`path.rs:73`).

## Fairness

- `RefreshFlight`: a future whose task was woken is polled (`WF` of `PollReady` and `PollPending`),
  which every executor does, and the loop of `waiter.wake()` runs to its end (`WF` of `Wake`): it
  is synchronous code. The leader owes nothing; it may never publish.
- `RefreshFlights`: a request whose flight has an outcome returns (`WF` of `ReturnOutcome`, which is what
  `RefreshFlight` shows). Nothing is assumed of a leader: the HTTP client bounds only the time to connect
  (`oidc.rs:673`) and `wait` has no timeout, so a token endpoint that accepts and never answers holds all requests
  of a session until the leader's connection ends. The model has these behaviours, and `WaitersAnswered`
  promises nothing in them: it speaks of waiters whose call has ended, by an answer, an error or a drop.
- The other modules state no liveness and have no fairness.

## The proofs

All theorems hold for every value of the constants that satisfies the named assumptions of the
module and the hypotheses that the theorem states: sentinels differ from values, periods are natural numbers (`Retention` is positive), first
tokens are distinct, the configuration is one. TLC evaluates these assumptions in the runs.

- `RefreshFlightProofs`: types, `NoLostWakeup`, `Agreement`. `NoLostWakeup` needs that the
  guard is armed exactly while there is no outcome and that only waiting futures are
  runnable; `Agreement` needs that what a future returned is still the outcome (`GuardInv`).
  `WaitIsOneStep` justifies that `RefreshFlights` has a wait in one step and no wakers: with the flight,
  its futures and a leader mapped to a table of one flight, every step is a step of `RefreshFlights` or
  leaves the table as it is. Publishing, also of the failure of a dropped leader, is
  `Complete`, a poll that is ready is `ReturnOutcome`, a dropped future is `DropWaiter`; polls that suspend,
  wakes and migrations are nothing. The mapping has no time, so the flight is never stale.
- `RefreshFlightsProofs`: types, the four safety properties and the refinement. `OneLeaderPerToken`
  is not inductive, because nothing in it says that a leader is in the table: `TableInv` says that the
  entry of a token is a flight of that token and every call in progress is that entry, which pruning keeps
  since a flight without an outcome is never stale. `OneCallPerRetention` needs `RetentionInv`: a
  normally finished flight younger than the retention is the entry of its token. Here the two-step
  drop matters: a flight that is removed is compared by identity, so it never takes out a successor.
  `AnswerInv` carries the answers, and `Implementation` maps every action to one of `SingleFlight` or a
  stutter.
- `SessionAgeProofs`: every property of the run, for every word size. The invariant adds to
  the types only that the stored expiry is the one computed from the response; the rest is a chain of
  lemmas on saturating arithmetic.
- `WebAppSessionProofs`: types, `OwnSession`, `RotatedTokenIsReplayedLate`. The invariant of the table
  is taken over as it is, since every step is a step of the table or leaves it alone
  (`TableSteps`, and `TableIsUsed` as a theorem of the specification). `OwnSession` follows refresh tokens:
  each continues the session of one browser (`owner`), every stored, sent, issued or queued session agrees
  with it, and a flight's request carries the token of its cookie.
- `JwksCacheProofs`: types, `FetchesAreSpaced`, `TurnedAwayBriefly`, `OlderSetOnlyAfterSlowFetch`. The
  throttle is the start of the latest fetch (`LastFetch`); answers come in the order of the sets
  (`AnswersInOrder`); the cached set was somebody's answer (`CurrentWasAnswered`).
- `SignInProofs`: types, `OwnSignIn`, `SignInFailsForCause`. A state cookie belongs to a redirect of its
  browser, correlated callbacks come from there, and while nothing else touches it and the ten minutes last the
  browser keeps the state of the only sign-in (`StateIsKept`). A code is spent only by a
  callback of its own sign-in in its own browser (`ExchangesAreOwn`), so a code that was exchanged already is
  one that another callback disturbed.

- `TokenProofs`: every property of the runs `token_validation` and `session_tokens`. `AcceptedWasVouched`
  is inductive together with `AwaitsItsChain`, which says why each answer is awaited: introspection only
  because it is first or because the token may fall back. `PrincipalHasItsRoles` says from which claims the
  principal was made before roles are loaded. `IdTokenIsNoAccessToken` needs a stronger form that includes
  the wait for roles (`IdTokenIsNotTaken`). Of sessions, `IdentityIsKept` compares the ID token with that of the sign-in, which the
  code compares with the refresh before, and the principal with the subject of the sign-in or the word of the last
  access token; that the comparison is transitive holds because a session always
  has an ID token to compare with (`SessionIsNamed`), which is why the three invariants are proved together.
- `DispatchProofs`: every property of the run. `Decisions` says of each stage
  what was decided about the request so far; it is stated with the terms (`UsesLogin`, `Token`) that
  the actions use, and `TermsLemma` says that they keep their value. `IssuerIsConfigured` is about
  `Setup` alone: for every configuration that starts, the issuer of the chain is the configured one; it
  needs that the document was fetched from, and names, the configured address. `SelectionIsInstalled` needs
  that a nonempty set of positions has a least and a greatest one.

`PathsDecideBySpecificity`, in the same module, says that path selection takes a tenant with a most specific
pattern, for all patterns and orders of the tenants. It assumes that the paths of requests have less than
1000 characters between their slashes. The score of a pattern is a sum in which each literal character before
the first star counts 1000 and each literal character 1, so the hypothesis is what keeps the lower
part from carrying into the upper one and a long literal prefix from outweighing an exact match
(1,000,000, or 999,000 but for a slash). Longer paths do break the rule; the code states no limit.
The argument has three parts:

1. `Nested`: if all paths that `p` fits are paths that `q` fits, the literals of `q` are among those of `p`. A
   literal of `q` alone would be contradicted by the path with another segment in its place, or by a
   parent of the path. This is what the assumptions on `Paths` are for.
2. `CharsSum` and `CharsCompare`: the characters of a sequence are what its recursive function says, and
   replacing literals by stars or cutting the sequence does not add any. The library's induction theorem
   takes an operator and cannot be used; `Induction` is the same fact about a set of natural numbers, from
   the least number that is not in it (`WFMin`).
3. `MoreSpecificScore`: so the score of the more specific pattern is at least as high, and
   `BestPathIsTaken`: the selector takes a tenant with a highest score. With fewer literals
   the score is lower, since each has at least one character, so ties leave no more specific pattern behind.

Three statements are refuted by runs. For two of them there is a theorem that says where they do hold, so the
findings are confined to the rest: `SignInHasVerifier` where each tenant has discovery on or a configured server
(`SignInsHaveVerifiers`), and `IdentitiesAreNotMixed` where a principal that has a name has its `sub` as the name
(`SubjectsAreNotMixed`). `RefreshReachesBrowser` has none: without `TenantsLayer` it is what the one step that
answers does, and not worth a theorem.

Only model-checked are the liveness properties `WaitersReturn` and `WaitersAnswered`: the prover handles
neither liveness under fairness nor `ENABLED`.

## What is not modelled, and why

- Contents of URLs and cookies; encryption is perfect, and an unreadable cookie is one made with another
  key. In `SignIn` nonce and PKCE verifier are part of the state; `SessionTokens` has the nonce.
- The length of the ten minutes that a redirect state lives: in `SignIn` they can be over at any moment.
- The JWT library and HTTP client, modelled by what the code relies on.
- A clock that is set back. `should_force_refresh` lets everybody through in that case, because
  `duration_since` fails.
- A poisoned mutex, and running out of memory: the table of flights is pruned at every join and
  not bounded otherwise.
- The authentication of the middleware at the introspection endpoint (`introspection.rs` 376-452), which
  builds a request; forwarded headers and parsing (`web_app.rs` 808-860, 1203-1613, `token.rs`): byte-level
  functions without state. A header is well-formed or not.
- The programmatic builder with validators of the application's own, static provider metadata, and the
  conversion of property values, cookie keys included: `Setup` starts from a configuration that was read.
- Stars inside of a segment, empty segments of a path, and a `*` as a segment of the path of a request
  (`TenantPaths`).
- Features of the crate that are switched off: all are on.
- The composition of everything in one module: `Dispatch` takes from `TokenValidation`, `SessionTokens` and
  `WebAppSession` only what a request can be answered with, because a request shares no other state with
  the rest.

## Plan

The order was by importance: first the shared state and its interleavings, then the protocol over several
requests, then the decisions of a single request. `RefreshFlight`, `RefreshFlights`, `SingleFlight`,
`TokenLifetime`, `SessionAge`, `WebAppSession`, `JwksCache`, `SignIn`, `TokenValidation`, `SessionTokens`,
`Setup`, `TenantPaths` and `Dispatch` are done. What is left:

- Composition of `SignIn` with `WebAppSession`: a sign-in that replaces a session under refresh.
