# USTO: a TLA+ model of the marketplace backend and its chat client

USTO is a services marketplace: customers publish orders, masters answer them
for a fee, a customer selects a master, chats with them and completes the order.
The backend is one Go process (package `main` at the root of the repository)
over SQLite or Postgres; the client is a Flutter application (`mobile/`). This
directory holds TLA+ models of the parts where the order of steps matters, TLC
configurations that check them on small instances, and TLAPS proofs of the
safety properties for every instance.

Paths below are relative to `src/`. `PROJECT.json` maps every definition to the
lines it translates, and lists the runs, the mutants, the findings, the hazards
and the theorems.

## 1. Inventory

Every request is a goroutine of `net/http`. Handlers share nothing in memory
except the database handle and the rate limiters; they meet in the tables. No
query has a context or a deadline. SQLite runs with one connection
(`main.go:236`), Postgres with ten (`main.go:250`) at Read Committed.

| Component | State | Operations | What is hard | What makes it correct |
|---|---|---|---|---|
| Wallet top-up, `wallet.go` | `profiles.wallet_balance`, `transactions` | `topUp` | concurrent money requests, failing statements, crash around the commit | balance = opening + statement; nothing out of range |
| Responses and their fee, `responses.go` | `responses`, the wallet | `createResponse` | guarded debit, several masters and requests at once | one fee per response, never on credit |
| Idempotency keys, `idempotency.go` | `idempotency_keys` | replay lookup, store inside the transaction | the lookup and the store are not one step; lookup errors | key and money land together, a sequential retry replays |
| Connection pool, `main.go`, `chats.go` | connections of `database/sql` | acquire, nested acquire, release | goroutines that hold one connection and wait for a second | somebody can always go on |
| Orders, `orders.go` | `orders`, `responses`, `completed_jobs` | create, select a master, complete, cancel | each is several statements outside any transaction | a finished order has a master, who responded, and is credited once per completion |
| Chats of an order, `chats.go` | `chats`, `messages` | ensure a chat, list, post, read since an id | chats are looked up by the master's name | a selection gives the customer a chat of that order |
| Chat screen, `home_shell.dart` | message list, watermark, flags, timer | load, reload, poll, send, pause, resume | answers arrive in any order or not at all | what is shown is stored and never repeated; polling catches up |
| Rate limiter, `ratelimit.go` | a bucket per client address | allow | lookup and decision under two mutexes, refill arithmetic | decides as the sliding-window rule does |
| Master directory, `masters.go` | `masters` | own listing created on demand, rename, list | names are keys of the chat lookup; look-up and insert are two statements | a registered master has a listing |
| Verification, `verification.go` | documents, `is_verified` | upload, approve, status | two statements each, no transaction | flag and documents tell one story |
| Accounts, `auth.go`, `profile.go` | `users`, `profiles`, `masters` | log in or register | three INSERTs, no transaction; a starting server rewrites accounts | one account per phone and role, which keeps its profile |
| Start-up, `main.go` | schema, seed, demo users and chat | migrate, seed, repair | several servers start at once, over what a crash left behind, beside the data tool | whoever serves has the schema and the data whole; seeded once |
| Demonstration data tool, `cmd/prodseed` | the same tables | truncate and load | runs beside starting servers, with a smaller schema | leaves what a server can start on |
| Photos, `media_storage.go`, `media_upload_handler.go` | files named by hash, `order_photos` | upload | files are not written atomically; equal positions | a listed photo has its files; order of upload |
| HTTP server, dialects, categories, configuration | none | routing, reads | – | – |
| Other client screens, web prototype | forms, a stored token | – | – | – |

Interactions: a response changes the wallet and the order's list of masters in
one transaction; a selection reads that list and opens a chat; a completion
credits the master's profile; the chat screen sees the database only through
two HTTP requests; every one of them passes through the connection pool, and
logins and money requests through the rate limiter. A starting server shares
the tables with serving ones: its `ensureDemoUsers` writes the accounts that
logins write, and its seed opens the chat whose id later selections draw.

## 2. Modules

| Module | Models | Depends on |
|---|---|---|
| `Ledger` | abstract: what a wallet promises, every operation atomic | – |
| `Wallet` | `topUpWallet`, `createResponse`, `idempotency.go`, one SQL statement per action | implements `Ledger` |
| `WalletProofs` | theorems about `Wallet` | `Wallet` |
| `ConnPool` | the pool and how five endpoints use it | – |
| `Orders` | the life of an order, the selection's chat, job counters | – |
| `OrdersProofs` | theorems about `Orders` | `Orders` |
| `RateLimiter` | `ipRateLimiter` and `tokenBucket` | – |
| `LimitsProofs` | theorems about `RateLimiter` and `ConnPool` | both |
| `ChatPolling` | one chat screen and the messages of its chat | – |
| `ChatPollingProofs` | theorems about `ChatPolling` | `ChatPolling` |
| `Deployment` | abstract: what a start promises, every part of it atomic | – |
| `StartUp` | `openDB`, `migrate`, `seed`, `ensureDemoUsers`, `ensureDemoChats` of several servers, `cmd/prodseed` | implements `Deployment` |
| `StartUpProofs` | theorems about `StartUp` | `StartUp` |
| `Directory` | abstract: what the accounts promise, every operation atomic | – |
| `Accounts` | `login`, `loginOrRegister`, `ensureMasterDirectoryEntry`, `ensureDemoUsers` | implements `Directory` |
| `AccountsProofs` | theorems about `Accounts` | `Accounts` |
| `Verification` | `verification.go` | – |
| `VerificationProofs` | theorems about `Verification` | `Verification` |
| `Media` | photo upload and `media_storage.go` | – |
| `MediaProofs` | theorems about `Media` | `Media` |
| `MC*` | constants, symmetry for TLC | the module they name |

### Wallet

A request is a program counter, `pc[r]`, that names the next SQL statement:
`replay` (the lookup of `idempotentReplay`, on the pool), `validate`
(`createResponse`'s reads, or the amount test of `topUp`), `begin`, `update`
(the guarded UPDATE of `wallet_balance`), `rows` (the INSERTs and the rows read
back), `store` (the idempotency record), `commit`, `reply`. `Fail` ends a
request at any statement with the deferred rollback; `CommitUnacknowledged` is
a commit whose acknowledgement is lost, which the handlers answer with 400;
`Crash` stops the server. The database is modelled as the code relies on it
(external): an UPDATE waits for the row lock of an open transaction
(`RowFree`), an INSERT of a key waits for an open transaction that has inserted
it (`KeyFree`), at most `MaxConns` transactions are open. Uncommitted data is
kept out of the tables: `newBalance[r]` is the row version written by `r`.

A wallet statement is abstracted to the sum of its top-up lines and the number
of its fee lines. A retry is another request with the same call.

`Ledger` is the promise: `Credit` and `Charge`, atomic, each leaving its key
behind. The refinement maps `usedKeys` to the keys with a stored result.

### ConnPool

A handler is a sequence of database sections. `single` needs one connection
at a time: a transaction, or a run of statements. A run is taken as holding
its connection from its first statement to its last, although the code gives it
back between two statements; the model is thus a little more crowded than the
code. `nested` is `chats()` (`chats.go:106`): its rows stay open while it
queries the pool again for the order, the master and the messages of each row.

### Orders

Select-master and status requests go statement by statement: `read` (with the
decision taken on what was read), `update` (by id only), then `lookup` and
`insert` of `ensureChat`, or `credit`. The target of a request is the master it
carries or read, and is used later whatever has happened to the order since.
`createOrder`, the transaction of `createResponse` and a rename of a listing
are one action each.

### RateLimiter

`FindBucket` is the map access under the limiter's mutex, `Decide` the refill
and the spending under the bucket's. Tokens are integers, in parts of a token,
and time is in ticks, so the arithmetic is exact; the code's `float64` rounds
every refill, so the two agree up to rounding and nothing is claimed of a last
bit. Requests that `rateLimitMW` does not match are not in the model.

### ChatPolling

The state of `_ChatScreenState` and its three asynchronous requests, each with
the point where the server answers and the point where the screen applies the
answer. A message draws its id (`BeginInsert`) before it becomes visible
(`CommitInsert`), as in Postgres; `MaxOpen = 1` is SQLite, where they are in
order. `raced` and `clean` are history: they record that requests of the screen
overlapped, or that ids became visible out of order, since the latest load that
nothing overlapped.

### StartUp

A server goes from `tables` (one `CREATE TABLE IF NOT EXISTS` per step) over
`columns` and `alter` (`ensureColumn`: ask, then add) to `count`, the statements
of `seed`'s transaction, `users`, `chats` and `serving`. Every error ends the
process (`Exit`); the platform starts it again. The rows of an open seed are
`mine[s]` until `CommitSeed`. The two drivers differ in what the code relies on:
SQLite has one writer and takes ids back with a rollback; Postgres refuses a
table before the ones it references and never takes an id back. An insert with
an explicit id (chat 1) moves SQLite's counter and not a Postgres sequence,
which `OpenChat` meets. `cmd/prodseed -apply` is three steps of one transaction:
its schema, `TRUNCATE ... RESTART IDENTITY`, its rows at the commit. The tables it
creates lack columns that the server adds.

`Deployment` is the promise: `Seed` puts the demonstration data in once, `Load`
replaces it by the tool's, `Spoil` makes seeds impossible until then, `Serve` lets
a server answer only with data in. The refinement maps `copies` to `categories`,
`loaded` to data that is not the seed's, `spoilt` to `SeedImpossible` and
`serving` to the servers that got to the end of `openDB`; every other statement
of a start is a stutter.

### Accounts

An account is `users[k]`, the profile of a phone and role, 0 before there is
one. A login goes `lookup`, `profile`, for a master `find` and `entry`
(`ensureMasterDirectoryEntry`), `user`, `issue`; a request about the own listing
goes `resolve`, `find`, `entry`, `show`. Each is one statement; `Fail` and `Crash`
leave behind what was inserted, and a client that got an error or no answer sends
again (`Retry`). `held[r]` is the profile in the handler's hand. `ReadProfiles`
and `UpsertUser` are `ensureDemoUsers` of a starting server, after a crash or, in
a deployment, beside a serving one; it reads all profiles first and points the
account of each phone and role at them, one after the other.
`troubled`, `adopted` and `moved` are history.

`Directory` is the promise: `Register` makes an account once, with a profile no
other account has, `Enter` lets a login in once, with the profile of the account,
and `Move` changes it only after trouble. The refinement maps profiles to the rows
of `profiles`, accounts to `users`, sessions to `given`.

### Verification

A request reads the master's profile (`seen[r]` is its flag), writes in two
statements (`insert` and `reset`, or `verify` and `approve`) and answers a status
computed from the flag in hand and the documents in the table. `docs[r]` is the
document that upload `r` inserted. `cut` remembers requests that ended between
their two writes until another one makes up for it, `overlapped` the masters with
an upload inside an approval or the reverse, `disturbed` the requests that ran
while another one wrote to the same master.

### Media

An upload asks for the files one after the other (`StatFound`, `StatMissing`),
writes them if one is missing, each in two steps (`OpenFile` truncates,
`WriteFile` fills), reads the greatest position, inserts the row and finds it
again. A file is `none`, `partial` or `whole`; `torn` names the partial ones whose
writer failed or was killed. Scaling the image is part of the steps that may fail.

## 3. Runs

Passing runs:

| Run | States | What it shows |
|---|---|---|
| `wallet` | 731,720 | three requests of five kinds, two wallets, two connections, failing statements, lost acknowledgements, crashes: conservation, range, key atomicity, truthful answers, sequential retries replay, every request ends, and `Ledger` is implemented |
| `limits` | 26,826 | the limiter: four requests of one client, one of another, four ticks: the bucket equals the sliding-window rule, from both sides. The pool: four connections for two listings, a selection and a top-up: never stuck, every request served |
| `orders` | 3,059,320 (up to symmetry) | two orders, two masters, one without a profile, three requests: a finished order has a master, who responded and is credited once per completion at most; an order lacks its master's chat only after a selection that failed, was lost or took a namesake's |
| `chat` | 76,384 | three messages, two INSERTs at once, two loads: watermark, exactness of an undisturbed screen, polling catches up |
| `startup` | 1,322,782 | two servers, two faults, an empty or an old database, either driver, the data tool at any time: a serving server has all tables, columns and data, chat ids clash once at most and only on Postgres, some server gets to serve unless a failed seed made it impossible, and `Deployment` is implemented: the seed goes in once, none after the tool's rows |
| `accounts` | 819,043 | three requests of three workloads, one fault, one deployment: logins agree, accounts move only after trouble, masters have listings, clients that try again get in, and `Directory` is implemented |
| `verification` | 106,228 (up to symmetry) | any three requests about two masters, any failures and crashes: flag and documents agree up to the gap of two statements; undisturbed answers are true, those of uploads that found the flag set aside |
| `media` | 279,571 (up to symmetry) | three uploads of two images to two orders, three faults: listed photos have their files, whole unless a writer is at one or failed over it; listing order is upload order, except of uploads that overlapped or could not read the last position |

Runs that show where the program and its own text disagree. Each checks one
property and TLC finds it violated:

| Run | Text | What happens |
|---|---|---|
| `wallet_retry` | `responses.go:137` "a retry with the same key replay[s] the original result instead of debiting twice" | a retry sent while the first attempt runs finds no result and debits again |
| `pool_sqlite` | `main.go:233` "Capping the pool at one connection means every request serializes through the same configured connection" | `GET /api/chats` holds the connection and waits for another one for ever; with it, everybody |
| `orders_final` | `orders.go:204` "order is already in a final state"; the client says a cancellation cannot be undone | a selection reopens a cancelled or completed order; a cancelled one can be completed |
| `orders_namesake` | `docs/FUNCTIONALITY_AUDIT.md:78`: a chat per pair of order and master | chats are found by the master's name (`chats.go:176`): of two masters of one name the second one selected is answered with the chat of the first |

Where a passing property exempts an outcome the code allows, by a history variable
(`raced`, `clean`, `overlapped`, `cut`, `disturbed`, `torn`, `unread`, `troubled`,
`adopted`) or by naming its cause, it does not catch that outcome: it says that
nothing else leads to it. The notes of the hazards in `PROJECT.json` name these
cases, and section 5 those that contradict a document or a comment.

### Bounds, and why they are enough

- `wallet`: every property speaks of at most two requests and one wallet; the
  third request is the retry after both, the second connection makes two
  transactions overlap, the second wallet separates the locks. Balances: the
  opening balance pays one fee and not two; `MaxBalance` is close enough for
  the second of two top-ups to overflow. The calls are a response and a top-up
  under one key, a response and a top-up that validation refuses, and a top-up
  of the other wallet without a key.
- `limits`: the two parts share no variable and every property speaks of one of
  them, so TLC follows one while the other has not begun. `Burst` is two tokens,
  `Rate / Cost` is not a whole number, four ticks let a bucket run dry, refill
  partly and reach its cap. One connection more than there are listers is the
  smallest pool that must not lock up, and one listing with two inner queries
  already needs the second connection twice. `pool_sqlite` is the configuration
  of the code.
- `orders`: a selection, a completion and a cancellation can all be under way
  on one order while the other order keeps its own state. Requests
  and orders are symmetric sets; masters are not, as one has a profile.
- `orders_namesake`: one order; two masters and one name make namesakes.
- `chat`: three ids are a message before, between and behind the watermark;
  the second load may answer late; a send, a poll and a load can all overlap.
- `startup`: a race of starts needs two servers, and a start that meets what a
  failed one left behind needs one fault; the second fault hits the repair. Two
  seed rows already make a partial insert and a wrong first id possible; three
  chats are the seeded one, the one that clashes and one after it. `MaxId` is out
  of the way: two failed seeds and a good one draw six ids.
- `accounts`: two logins race for one account, the third request edits the
  listing meanwhile or belongs to another account; one fault and one deployment
  give a start something to move. With two faults the safety properties were also
  checked on 8.7 million states.
- `verification`: an upload, an approval and a third one between them; the second
  master shows that an approval stays with its own. Four requests were also
  checked (4.6 million states). Failures and crashes are unbounded.
- `media`: two writers of one image and a reader of its files, all three files of
  an image; two orders keep their positions apart.

`MaxTime`, `MaxId`, `MaxLoads`, `MaxInner`, `MaxFaults`, `MaxStarts` and `MaxChats`
are bounds of the model; all others are parameters of the system.

### Deadlock and fairness

Deadlock is checked in `wallet`, where the end of all requests is an explicit
stutter; for the pool `NeverStuck` and `EveryRequestServed` say more. All others
may stop: their requests, ticks, messages, ids or faults are used up.

- `Wallet!FairSpec`: weak fairness of each request's next statement. Goroutines
  are scheduled, and a lock wait ends when the holder does; weak fairness is
  enough as requests in the model are finite. Clients, failures, crashes and lost
  acknowledgements owe nothing.
- `ConnPool!PoolFairness`: weak fairness of releases; strong fairness of the
  acquisitions, since a connection may be taken by others again and again while
  a goroutine waits, and `database/sql` hands a released connection to a waiter
  without preference.
- `ChatPolling!FairSpec`: INSERTs end, the periodic timer fires while active, and
  strong fairness of a poll's answer: polls that are tried for ever are not all
  lost. `WatermarkCatchesUp` assumes the application stays in front.
- `StartUp!FairSpec`: the platform starts a process that has exited
  (`docker-compose.yml`, `railway.json`), a started one runs on, and the tool ends
  within its deadline of 45 seconds. Strong fairness of a server's steps, since a
  lock it waits for may be taken by others again and again.
- `Accounts!FairSpec`: a stopped server is started again and finishes its start;
  a client sends, its handler goes on, and it tries again after an error.
- `Orders`, `RateLimiter`, `Verification` and `Media` claim safety only.

## 4. Proofs

All theorems hold for every value of the constants under the named assumption
of the module, each of which TLC evaluates in the runs. No axiom is used.

**WalletProofs** (`WalletAssumption`). The run's invariants are not inductive:
that a commit conserves money rests on the open transaction's row version
being still the committed balance plus its delta. The inductive invariant `IInv`
adds

- `RowLockExclusive`: one transaction at most is past the UPDATE of a profile,
- `VersionCurrent`: what it wrote is the committed balance plus its delta,
- `ValidInTx`: only valid calls get that far,
- `Progress`: the program counter says whether a request has committed and answered,
- `RetryLooked`: a retry past its lookup is one whose lookup failed.

There is one lemma per action, `NextIInv` joins them, and the theorems
`TypeCorrect`, `NeverOverdrawn`, `MoneyConserved`, `KeyAtomicity`,
`RetriesReplay`, `AnswersAreTruthful` and `FirstResultIsFinal` follow. In
`Refinement` only a commit changes the tables, and a commit is one `Credit` or
`Charge` of the ledger.

**OrdersProofs** (`OrdersAssumption`). `IInv` adds `KindOfStep` (which
statements belong to which kind of request), `ChecksLast` (the check of a
completion or selection is still true when it writes: an order never loses its
master, responses are never withdrawn), `ChatInHand` and `AnswerHoldsChat` (the chat
a selection returns exists), `ChatsResponded` (the chats of an order are with
masters who responded to it), `ChosenBySomeone` (the selected master of an order
was chosen by a selection past its UPDATE) and `CreditsCounted` (a counter counts
completions past their credit). An order without its master's chat then has that
selection to show for it, and chats are never removed. Theorems: `TypeCorrect`,
`CompletedHasMaster`, `SelectedResponded`, `MissingChatsExplained`, `JobsAreEarned`.

**LimitsProofs** (`RateLimiterAssumption`, `ConnPoolAssumption`). For the bucket,
`Room` bounds the requests passed in every window by what the bucket has left,
`Tight` names for each bucket a window that has left exactly what the bucket
holds, `History` places decided requests in time. Together they prove the bucket
decides exactly as the sliding window does: `WindowsBounded`, `LimitsJustified`,
and `TypeCorrect`.
For the pool, `FewListersNeverStuck`: if fewer goroutines list chats than there
are connections, the pool never locks up. A stuck pool has all its connections
held by listers that each hold one, so there are as many listers as connections;
this is also why ten listings at once can freeze the Postgres configuration and
why one freezes SQLite. `LockUpsLast` says what that costs: in a lock-up only
new requests arrive (`OnlyArrivals`), so it is for good, and every goroutine in a
handler stays where it is. The two components share a module; `ConnPool` names
its specification `PoolSpec` for that reason.

**ChatPollingProofs** (`ChatPollingAssumption`). `OneAtATime` says that an
undisturbed screen has one request under way and a good load runs alone, `NoGap`
that what has become visible since an answer was made is above all of that
answer, `Answers` that answers and the watermark are stored messages, `IdsDrawn`
that ids are drawn once. The watermark is a maximum over a set; that a set of
ids has one is `MaxOfIds`, from the library's well-foundedness of `<`. Theorems:
`TypeCorrect`, `WatermarkCoversAll`, `UndisturbedScreenExact`.

**AccountsProofs** (`AccountsAssumption`). That a starting server does not move an
account rests on its phone having one profile (`OneProfile`), and that on whose
work a profile without an account is: it is `Claimed` by the one login of its
phone (`Alone`) that is still running, so nobody else sets out to make one
(`NoProfileYet`). `Listed` says the same of listings, `KindOfStep`,
`SessionInHand` and `ListingInHand` what a request holds at each statement.
`ClaimsKept` proves the registration part once for all actions that insert
nothing. Theorems: `TypeCorrect`, `LoginsEnterOneAccount`, `MastersAreListed`,
`MovesHaveACause`. In `Refinement` the INSERT of the user and the upsert of a
starting server are one `Register` or `Move`, `Issue` is one `Enter`, and nothing
else touches accounts or sessions.

**VerificationProofs** (no assumption). `IInv` adds `NoOverlap`, that a master
not in `overlapped` has no upload and approval between their writes at once, and
`HandIsTrue`, what an undisturbed request knows: that the master it is about to
approve is verified, that the flag it read is the one in the table, or, for an
upload, that its document is there and the flag gone.
Theorems: `TypeCorrect`, `FlagIsRight`, and the action property
`UndisturbedAnswers`, which leaves out uploads that found the flag set.

**MediaProofs** (`MediaAssumption`). `FilesOnTheWay` says which files an upload
has seen or written by the size it is at, `RowsExist` that rows have files,
`PartialExplained` that a partial file has a writer or is torn, `Inserted` and
`PositionInHand` that a position read is still behind every photo answered before.
Theorems: `TypeCorrect`, `ListedPhotosHaveFiles`, `ListedInOrder`.

**StartUpProofs** (`StartUpAssumption`: at least one seed row). It holds for any set
of servers and any bounds on faults, ids and chats. `Migrated`
says which tables and columns a server has passed by its program counter;
`SchemaInv` that it is true of the database, because tables and columns are only
added, whoever adds them. That the data goes in once is the hard part, since the
count of categories is read outside the transaction: `AllOrNothing` says that
committed rows and categories come and go together, `Seeder` what an open seed
has inserted and under which ids at each of its statements, `Apart` that the ids
two open seeds hold do not meet. On Postgres at most one seed therefore has the
order 1 its responses name, and at most one gets past them; on SQLite the one
writer does the same. `Restored` says which accounts and chat a start has put
back, `ChatInv` where the sequence of chats stands. There is one lemma per part
and action. Theorems: `SeedsOnce`, `SchemaIsReady`, `DataIsReady`,
`ChatIdsClashAtMostOnce`; the action property `SpoiltSeedsStaySpoilt`, that once
a failed seed has drawn its ids no step but the tool's commit makes a seed possible
again; `SpoiltNeverServes`, that nobody serves until then; and `Refinement`, in
which `CommitSeed` is one `Seed`, `ToolCommit` one `Load`, the `Rollback` of the
seed that held the ids one `Spoil`, and the end of `ensureDemoChats` one
`Serve`.

Only model-checked: liveness (`EveryRequestEnds`, `EveryRequestServed`,
`WatermarkCatchesUp`, `EveryLoginGetsIn`, `ServesUnlessSpoiled`), which this proof
system does not reach. Every invariant and action property of a passing run is
proved.

## 5. What the models say of the code beyond their runs

- On Postgres a seed that fails once after drawing ids makes every later one
  impossible: its responses name order 1 and masters 1 to 3, and those ids are
  used up (`SeedImpossible`; `main.go:761`). Only the data tool helps
  (`SpoiltSeedsStaySpoilt`), and nobody serves until it has run
  (`SpoiltNeverServes`).
- The first selection that opens a chat on a freshly seeded Postgres database
  meets the seeded id 1 and is answered with an error after the order was
  updated (`main.go:764`; `ChatIdsClashOnce` bounds it).
- A login that failed after inserting its profile leaves it behind; its retry
  makes a second one, and the next start may move the account there, away from its
  money and listing (`main.go:847`; `MovedOnlyAfterTrouble` says this is the only
  way). A profile adopted so has no listing, although "every real master has somewhere
  for responses to attribute to" (`masters.go:220`).
- An upload of a verified master answers "verified" although it has just taken the
  flag away (`verification.go:80`); `docs/API_SPEC.md:404` shows an upload answered
  with the pending document and "pending_verification". `AnswersTrue` leaves these
  uploads out.
- A send moves the chat screen's watermark past messages stored before it that the
  screen has not got, and no poll asks for them (`home_shell.dart:3188`), although
  polls give a client what it can "merge into what it already has" (`main.go:1104`)
  and ask for "anything newer than the last message it has seen"
  (`home_shell.dart:3079`). `CleanScreenExact` excludes this through `raced`.
- A selection that fails, or a server that stops, after the UPDATE leaves a selected
  master without a chat (`orders.go:324`), although the client announces one
  (`home_shell.dart:2118`). `ChatMissingHasCause` names the causes.
- A selected master whose listing has no name never matches the chat the pair has:
  selecting that master again always fails on the unique index (`chats.go:170`).
- An image cut short by a crash is taken for stored by every later upload of the
  same image (`media_storage.go:95`), and an upload that fails after its INSERT
  answers an error and leaves the row.

## 6. Not modelled

- Routing, CORS, logging, panic recovery, placeholders, categories,
  configuration: no state of their own.
- Signing and refreshing tokens, scaling images, layout: not a matter of steps.
- Profile edits and the `views` counter: one UPDATE each that no other step
  relies on; filters and listings only read.
- The legacy endpoint `/api/messages` and the web prototype.
- Client screens other than the chat: forms that send one request and show its
  answer. The client sends no `Idempotency-Key` and never repeats a request.

## 7. Plan

Done, in order of importance: money (`Ledger`, `Wallet`), the pool every
request depends on (`ConnPool`), orders (`Orders`), the rate limiter, the chat
screen, start-up (`Deployment`, `StartUp`), accounts (`Directory`, `Accounts`),
verification, photos; proofs of all of these.

Left:

1. A composition of `Wallet` and `Orders` through the transaction of
   `createResponse`, shown to implement both views of it.
2. Abstract specifications of `Verification` and `Orders`, and their refinement.
