# YNAB currency converter: TLA+ models, checks and proofs

The application converts the amounts of transactions in a user's YNAB budget
from one currency to another: it fetches an account's transactions, shows a
preview, and writes the rows the user selects back to YNAB with a marker in the
memo. It is one Python process (FastAPI, one uvicorn worker) over a SQLite
file. What can go wrong is money written twice, work silently hidden, a
connection to YNAB lost, or something left behind of a deleted account; most of
it needs two requests, a failing network call or a restart to happen. That is
what is modelled here.

Paths below are relative to the repository root, `app/` for its source.

## The system

| Part | State | Operations | Meets |
|---|---|---|---|
| Preview and apply (`app/routes/conversions.py`, `convert.py`, `ynab.py`) | `_apply_locks` (in memory); the rows a page shows (in the browser); columns `start_date`, `last_synced`, `pending_count` | preview, preview-all, apply, apply-all | YNAB (fetch, bulk PATCH), the conversions table, YNAB tokens, rates, events |
| Conversion settings (`conversions.py`, `store.py`) | table `conversions`, unique per (user, account) | create, batch create, edit, delete, bulk delete | preview and apply read and write the same rows |
| YNAB connection (`oauth.py`, `connections.py`, `routes/settings.py`, the 401 handler of `main.py`) | table `ynab_connections`; `_refresh_locks` (in memory) | token resolution with refresh, OAuth callback, disconnect, dropping a dead connection | every request that talks to YNAB starts here |
| Amounts, memos, rates (`convert.py`, `rates.py`) | none | rounding, markers, truncation, rate lookback | preview builds its rows with them, apply recognises the markers |
| Dashboard refresh (`conversions.py`) | `pending_count` | refresh of the most stale badges when the page loads | tokens, YNAB, the badge |
| Login, sign-up, re-authentication (`auth.py`, `users.py`) | table `users`, the session cookie, two in-memory throttles | login, sign-up, lockout, account deletion | account deletion removes rows every other part may be about to write |
| Events and admin (`events.py`, `routes/admin.py`) | table `events` | conditional insert, aggregation | written after most operations |
| Database (`db.py`, `import_legacy.py`) | schema, write-ahead log | migrations, de-duplication, checkpoint | account deletion |
| Deployment (`deploy/autodeploy.sh`) | the deployed commit's stamp | pull, build, health check | restarts the process at any moment |

Hard behaviour, in the order it matters:

1. Sync routes run on a thread pool, async routes (preview, apply and their
   `-all` forms) await the thread pool for each YNAB and database call, so two
   requests interleave at every one of those calls. Only the section of an
   apply from its re-read to its last write is under a lock, one per conversion.
2. Nothing is remembered between preview and apply: the page carries the plan,
   and it may be hours old, submitted twice, or submitted after an error.
3. A bulk PATCH may be rejected, may be confirmed in part, may be processed
   with the answer lost, or may be processed after the client gave up.
4. A deploy restarts the process; locks and requests are gone, the database,
   YNAB and the pages in the browsers are not.
5. YNAB rotates refresh tokens: a refresh processed without its answer stored
   spends the stored token.
6. Settings, disconnecting and deleting an account take none of the locks, and
   an operator may delete an account from another process.
7. A create checks, calls YNAB and inserts; only the unique index and the foreign
   key stand between two of them, or between one and a deletion.
8. The throttles are dicts that all threads of the pool share, without a lock.

What makes each part correct: an amount is converted at most once, and only if
it is the one the user saw; the fetch floor (`start_date`) never hides
unfinished work; the badge never shows less work than there is; a stored token
is one that works; a deleted account leaves nothing behind; every request is
answered; an account has one conversion; a lockout lets nobody through and
keeps nobody out for good; an amount is rounded as the currency asks and a memo
keeps its marker.

## Modules

| Module | What it is |
|---|---|
| `Ledger` | the abstract specification: what preview and apply promise of the transactions |
| `ConversionApply` | preview, preview-all, apply, apply-all, the dashboard's refresh, the conversion rows, YNAB and the user around them; implements `Ledger` |
| `OAuthTokens` | one user's tokens: resolution, refresh, callback, disconnect, account deletion, the 401 handler |
| `Accounts` | users, conversions and events, by the database transaction: sign-up, create, batch, edit, delete, account deletion |
| `Throttle` | the two brute-force throttles, thread by thread |
| `Preview` | one row: its rate, amount and memos, the form, what YNAB stores |
| `MCConversionApply`, `MCOAuthTokens`, `MCAccounts`, `MCThrottle`, `MCPreview` | small instances of them, for the `.cfg` files |
| `ConversionApply_proofs`, `Badge_proofs`, `LedgerRefinement_proofs`, `OAuthTokens_proofs`, `Accounts_proofs`, `Throttle_proofs`, `Preview_proofs` | theorems about them, for every instance |
| `SequenceLemmas` | induction, and what a flattened sequence is: lemmas for `Preview_proofs` |

The modules meet in the code where one treats as a step what another takes apart.
`ConversionApply` computes a row in one step and creates, edits and deletes
conversions in one; `Preview` and `Accounts` are those steps in detail.
`ConversionApply` has a token when it needs one; `OAuthTokens` is how it gets it.
`Throttle` ends where `Accounts` and `OAuthTokens` begin the deletion.

### ConversionApply

A *tab* is a browser page with at most one request under way. `pc` says where
its request is; a request works through a `queue` of conversions, one for a
single preview or apply, all of them for the `-all` forms, two at most for the
dashboard.

| Code | Model |
|---|---|
| `preview`, `preview_all` | `Preview` (rows read once), then per group `BuildGroup`, `PreviewMarkSynced`, `PreviewSetPending`; `FailedGroup` (reported, the next one runs), `PreviewAborts` (401, 429) |
| `_maybe_onload_refresh` | `OnloadRefresh` (rows read once), then per conversion `RefreshFetch`, `RefreshSetPending`; `RefreshFails` (every error is swallowed) |
| the rendered page | `page`, `form`: conversion, transaction and the amount it was computed from |
| submitting it; `_parse_updates` | `Submit`: any subset of the rows, an action each |
| the lookup of each group, and the early return without updates | `ReadConversion`, `SkipGroup` |
| `_apply_updates`, entering the lock and re-reading the row | `EnterLock`, `ConversionGone` |
| its fetch and the write-time re-checks | `FetchForApply` (with `IsSafe`), `FetchFails` |
| its PATCH | `Patch` (YNAB writes some of the batch), then `PatchConfirmed` or `AnswerLost`; `PatchRejected`; `PatchTimesOut` and `LatePatch` |
| `mark_synced`, `set_pending`, `set_start_date` | `ApplyMarkSynced`, `ApplySetPending`, `ApplySetStartDate`: one database call each, the last one leaving the lock |
| `create`, `edit`, `delete`, `bulk_delete`, account deletion | `Create`, `Edit`, `Delete` |
| a restart | `Crash` |

An amount is a pair: what the user typed (`v`) and how many conversions it went
through since (`k`). A preview proposes the conversion of what it fetched, so an
update carries the amount it was computed from. A memo is reduced to the marker
it carries; the model assumes that nobody removes a marker by hand. The account
a request uses is the one of the row it read before the lock, the start date the
one it read under the lock, as in the code. Which badges are stale enough for the
dashboard to refresh is left open.

History variables, read by properties only: `wrote` (the transactions a conversion
has written), `owed` (what its last apply found undone, or its last edit put on
view), `typed` (what the user typed last, and what PATCHes under way at that moment
carried) and `overtaken` (the tab's apply goes by a row that has been edited: moved
before the re-read under the lock, or changed in any way after it). An apply that
fetches the account its conversion no longer has says nothing of what is owed now.

### Ledger

A transaction is offered at the amount it has, and settled at most once, in one
step, on the strength of an offer: converted to the offer's amount and marked, or
marked only. No tabs, locks, retries, floors or badges. What a page, a request, a
PATCH under way or a late PATCH still holds are the `offers`; the other variables
are YNAB's own. `Calm` says that nobody else writes a transaction between its
offer and its settlement; `ConversionApply` takes it to be so when an instance has
no edits in YNAB, no changed conversions and no late PATCHes (`IsCalm`). Then a
settlement finds an unmarked transaction at the amount that was shown. Otherwise
it still writes what was offered, never the conversion of a conversion.

### OAuthTokens

A token pair is the number of its issue. `valid` are the pairs whose refresh
token YNAB accepts, `alive` those whose access token it accepts, `fresh` those
more than the refresh margin from their expiry. A request goes through `Start`
(read without the lock), `ReRead` or `Enter` (read again under it), the refresh
with its four outcomes (`RefreshAccepted`, `RefreshRejected`, `RefreshFails`,
`RefreshLost`), `Recheck`, `Drop` or `Save`, and uses its token until `End` or
until a 401 (`Refused`, `HandleUnauthorized`). `Exchange` and `Connect` are the
OAuth callback, `Disconnect` and `DeleteAccount` the settings. `DropLegacy` is
the row without a refresh token of an older release. `_token_request` takes every
4xx for a dead grant, so with the move `"refuse"` YNAB may reject a pair it would
accept (a rate limit, client credentials); without it, a rejected pair is dead.
`revoked`, `lost`, `granted`, `refused` and `stored` are history variables.

### Accounts

A request is where it is (`at`), for whom, and what it has still to do; every
database transaction is an action, and whatever is between two of them can be
interleaved.

| Code | Model |
|---|---|
| `require_login` | the `Start...` actions: the user exists when the request begins |
| `create`: duplicate check, plan and category, `add` | `CheckFree`, `LookupFails`, `InsertOne` or `InsertRefused` |
| `_create_batch`: selection, `add_many`, its fallback row by row | `SelectBatch`, `InsertBatch` or `RollBackBatch`, then `InsertSingle`, `SkipCollision`, `BatchUserGone`, `EndFallback` |
| `edit` | `FindConversion`, `UpdateConversion` or `UpdateRefused` |
| `delete`, `bulk_delete` | `RemoveConversions` |
| `record_event` | `RecordEvent`: the insert asks for the user, an error is swallowed |
| `signup`; `delete_account`, `delete_user` | `SignUp`; `VerifyPassword`, `EraseUser`, `MarkDeleted` |
| a restart; an interrupted `delete_user` | `Crash` |

The foreign key and the unique index are `Allowed`. A request in `Consoles` is a
`delete_user` process: a restart of the server does not touch it. `Ids` is the
number of conversions ever created. `gone` and `born` are history, and of a
request `wanted` (the accounts it set out for) and `freed` (the accounts that lost a
conversion since it began). Events are told apart by their user alone.

### Throttle

A thread goes from the check (`Login`, `AskToDelete`) through the verification
(`PasswordRight`, `PasswordWrong`) to `_record_failure`, statement by statement,
since a sync route can be preempted between any two: `ListIdle` and `ListFails`
(the sweep's list, and the `RuntimeError` of a dict that changed under it),
`DropIdle` and `DropFails` (the `del`, and its `KeyError`), `SetDefault`,
`CountFailure`, `LockOut`, and `CountLost` for an entry that was dropped
meanwhile. `EraseAccount` and `ForgetEmail` end a deletion, `ConsoleDeletes` is
`delete_user`. Times are relative: `left` of the lockout, `idle` since the last
failure; `Tick` is a second. Assumptions, all about this instance of the world:
recording a failure takes microseconds and so sees at most one second end; an
email stands for its user; the email of a deleted account does not sign up again.
`slipped` and `kept` are history.

### Preview

One row: `Show`, `Recompute` with a rate typed by the user, `Apply` with the way
through the form to YNAB, and the next `Show`. A memo is a sequence of characters
of one, two or three bytes; what the text of an amount or a rate is does not
matter, only what a marker looks like. A rate is a whole number of `1/One`; YNAB
may count a memo's limit in bytes or in characters, and the code allows for both.
Encoding, decoding, sending and taking a memo are each a `FlattenSeq` of what every
character or byte stands for, which is what the proofs are made of. A memo is at
first without carriage returns (`CaseAssumption`), and a marker and its space are
shorter than the field (`MemoAssumption`): the code says of the opposite case that
it is unreachable with real markers (`app/convert.py:142`).
Decimals are exact here: the 28 digits of Python's context are not modelled.

## Properties

In `ConversionApply`:

- `ImplementsLedger`: everything the tabs do together is what the ledger may do.
- `NoDoubleConversion`: no amount is the conversion of a converted amount.
- `LockExcludes`: the section under the lock is exclusive per conversion.
- `AtMostOnce`: a conversion never sends a PATCH with a transaction it already
  wrote: not on a double click, not on a retry after a lost answer.
- `EditsAreKept`: a page, however old, never overwrites an amount the user typed: the
  amount in YNAB is the one typed last, converted or not, or the one of a PATCH that
  was on its way when the user typed, which no re-check could see.
- `FloorKeepsOwed`: the floor never passes what the last apply found undone,
  splits and unticked rows included. Without settings edits; with them it is violated
  (`apply_overtaken`).
- `OnlyOvertakenHides`: with them too, only an apply that goes by a row edited since
  writes such a floor: not one after an earlier edit, and not because of imports,
  deletions, restarts or what YNAB confirms.
- `FloorOnlyAdvances`: only an edit or a new row moves it back.
- `BadgeNeverHidesWork`: the badge never shows less than the next preview
  would find. It may show more: previews and refreshes take no lock and can
  overwrite a newer count with an older one.
- `EveryRequestEnds`: liveness.

In `OAuthTokens`:

- `StoredTokenWorks`: whenever no refresh is under way, YNAB accepts the stored
  refresh token unless the user revoked it or the answer of its refresh was
  never stored.
- `RefreshDropsOnlyRefused`: a rejected refresh decides to delete only a connection
  that YNAB refused to refresh, and deletes another only if an OAuth callback stored
  it between the re-check and the delete, which are two statements. It does not say
  that the refused connection is dead: every 4xx counts as a refusal (see below).
- `UsesStoredToken`, `NoTokenWithoutUser`: a refresh that loses the race with
  the deletion of the account neither stores its token nor goes on with it.

In `Accounts`:

- `OnePerAccount`: however many creates, batches and edits pass the check
  together, a user has one conversion of an account.
- `NothingOutlivesUser`: whatever is committed after a deletion, no row is left.
- `OneMarker`: deletions in two tabs and on the command line leave one marker.
- `EveryAccountServed`: the accounts a create or a batch is done with have a
  conversion, through a collision, a rollback and the fallback.

In `Throttle`:

- `OnlyRacersSlip`: a lockout lets through only failures of threads that were
  past the check when it began.
- `SweepSparesTheBusy`: what a sweep is about to drop has not failed for the longest
  lockout, or failed at most a second ago: between the list and its `del` another
  thread may count a failure of a listed key, which is then dropped with its entry.
  The docstring of `_throttle_entry` says without exception that "an entry doing work
  is never touched" (`app/auth.py:64`); the exemption is that race, and no wider.
- `LockoutEnds`: attempts made during a lockout do not prolong it.

In `Preview`:

- `MarkerSurvives`: an applied transaction carries its whole marker and is not
  proposed again, whatever its memo, in bytes or in characters.
- `KeepsWhatFits`: of the old memo as many whole characters are kept as fit.
- `RateIsOfTheDay`: a market rate is the last one quoted up to the day, although
  one window of quotes is fetched for all days.
- `FailsOnlyUnquoted`: a preview fails only for a day without a usable quote.
- `AmountsAreNearest`: amounts and recorded equivalents are the nearest in minor
  units, ties away from zero, for refunds as for payments.

## Runs

Two tabs are enough to have one request overtake another at every step; three
requests are used for tokens, where one may refresh, one wait and one act on an
old token. Tabs, requests and threads are symmetric; only the liveness run does
without symmetry.

| Run | Instance | Question |
|---|---|---|
| `apply_races` | 2 tabs, 1 conversion, 2 transactions dated 2 and 3 of 3; imports, restarts; convert and skip | the ledger, the lock, the floor, under all failures of YNAB |
| `apply_edits` | 1 transaction, amounts 0, 1, 2; convert and skip | edits and hand-typed markers in YNAB, PATCHes that take effect late |
| `apply_all` | 2 conversions on 2 accounts, the second created meanwhile; dashboards; convert only | groups in either order, one or all, and the badges |
| `apply_settings` | 1 conversion, 2 accounts, 3 transactions dated 1 and 2, the older a split; imports, restarts | editing, moving and deleting a conversion under an apply |
| `apply_ends` | 1 conversion, 1 transaction; deletions, dashboards, restarts, late PATCHes, edited amounts | liveness, and the ledger when nothing is calm |
| `oauth_connect` | 3 requests, 3 pairs, everything | refreshing under every failure and refusal, and OAuth callbacks |
| `accounts` | 1 user, 2 accounts, 2 ids, 2 requests and a `delete_user` | the check-then-insert, the fallback, deletion |
| `throttle` | 2 threads, 2 emails, a dict of 1; lockout from 2 failures, at most 2 seconds | every interleaving of check, count, lockout and sweep |
| `preview` | memos of up to 8 characters, quotes of 4 days, amounts at the ties | the pure functions against their reference definitions |
| `apply_overtaken`, `oauth_handler`, `oauth_disconnect` | as their neighbours, with the moves the trace needs | see below; TLC finds the violation |

Bounds. `Today` and the dates bound the calendar: a property compares a date
with a floor and with another date, so three dates show every order. `Values`
bounds what users type; `k` needs no bound, since it stays at most 1. `Convs` is
also the number of ids ever handed out, which bounds creation and deletion.
`MaxTokens` bounds how many pairs YNAB issues: two more after the first, by
refreshes or callbacks. `Moves` and `Picks` choose what the environment does in an
instance, so that each run explores one hazard in depth; a property that does not
survive a move is not claimed under it: `BadgeNeverHidesWork` is checked without
imports, edits and amounts typed over a zero, since nothing updates a badge when
those happen, and `FloorKeepsOwed` and `FloorOnlyAdvances` without settings edits.
In `apply_settings` a split and an ordinary transaction of one account and one of the
other are dated 1 and 2 of 3 days: a floor computed past the split, or carried from
one account to the other, hides something. The calendar day does not change while a
behaviour runs. In `accounts`, nothing relates two users except by being
different, and two ids with two requests and a console give a collision, a
rollback and a deletion at once. In `throttle`, a dict of one entry with two
emails is always full when a second one comes; `Top` stops the count where the
wait has reached its limit. In `preview`, a memo of 8 bytes is as long as the
longest marker and a few characters, so a cut happens before, in and after every
character; a lookback of 2 in 4 days has gaps shorter and longer than it.

Deadlock is checked except where the environment can remove everything there is
to act on (all conversions deleted and all ids used; no connection and no more
pairs), and in `preview`, where a row that is excluded stays so.

Fairness. `ConversionApply!Fairness`: a request that can take a step of its own
does (weak), because every YNAB call has a timeout and every database call
returns; a request waiting for an `asyncio.Lock` gets it if it becomes free again
and again (strong), because that lock serves its waiters in order. Nothing is
assumed of users, YNAB or restarts. The other modules assume no fairness: a
`threading.Lock` promises no order, so that every waiter gets it is not claimed.

## Disagreements of text and code

Each of these is a run in which TLC finds what a comment or a document excludes.

- `apply_overtaken`: an apply fetches by the account it read before the lock and, after
  its PATCH, compares the floor it found with the one it read under the lock and
  writes it blindly (`app/routes/conversions.py:881`, `:954`). If the conversion was
  moved to another account meanwhile, the old account's floor hides older pending
  transactions of the new one; a `start_date` the user has just lowered goes the same
  way. The change log says that it never passes "a transaction still waiting to be
  converted" (`CHANGELOG.md:203-207`), as does `TODOS.md:634-635`.
- `oauth_handler`: the 401 handler deletes the user's connection without
  comparing it with the token that was refused (`app/main.py:123`).
- `oauth_disconnect`: a refresh in flight inserts the connection again after the
  user disconnected, since it is an upsert (`app/connections.py:75`).

The actions show more such disagreements, which no run checks:

- A conversion deleted after the apply's re-read is still followed by the PATCH
  (`ConversionGone` is only enabled before it), which the docstring of
  `ConversionGoneError` excludes (`app/routes/conversions.py:525-530`); the change log
  admits it for the deletion of an account (`CHANGELOG.md:33-39`).
- Every 4xx of the token endpoint counts as a dead grant (`app/oauth.py:76`), also a 429,
  a 408 or rejected client credentials, and the connection is deleted
  (`app/oauth.py:158-166`) though YNAB would still accept it. The docstrings of both
  functions equate a rejection with a revoked grant. This is the move `"refuse"`, after
  which `StoredTokenWorks` holds because nothing is stored.
- `delete_user` is a process of its own, so clearing the throttle there
  (`app/delete_user.py:50`) clears an empty dict; the email stays in the server's memory
  (`ConsoleDeletes` leaves `store` alone), which the docstring of
  `clear_login_failures` excludes (`app/auth.py:127-130`).
- A login that is verifying a password when the account is deleted from the settings
  counts its failure after `ForgetEmail` (`app/auth.py:290`), and the email is back in
  the dict from which it has just been removed, against the same docstring.
- Another thread that adds or removes a key while a full store is swept makes the sweep
  raise (`ListFails`, `DropFails`; `app/auth.py:71-72`): the request is a 500 and the new
  key is not tracked, although "nothing that is merely full stops a new key being
  tracked" (`app/auth.py:64-65`).

And what contradicts nothing that is written down:

- A preview or a refresh can overwrite a newer badge with an older, larger one.
- An edit of a conversion that has just been deleted changes nothing and is
  logged as an update.
- The apply lock is one per conversion, not per account. Delete a conversion and
  create one on the same account, and an old apply and a new one hold different
  locks: `AtMostOnce` is about one conversion. Across two the amount is safe
  (`NoDoubleConversion` is proved for this too); the marker of one can replace
  that of the other.

## Proofs

`tlapm X_proofs.tla` checks every proof of a module, for any number of tabs,
requests, threads, conversions, transactions, dates and amounts, from the named
assumptions of the modules (finite sets of conversions, transactions and threads,
dates between 1 and `Today`, distinct accounts initially, positive thresholds, the
model values outside the sets they must differ from).

`ConversionApply_proofs`:

- `TypeCorrect`. `TypeOK` alone is not inductive: the head of a queue is only
  taken when there is one, so the invariant adds that a tab whose request is
  under way has a group. `NewStartIsMinimal` shows that `min` over the dates is a
  date, by well-founded induction over the naturals as a library theorem.
- `MutualExclusion`. The invariant says that the tab past the lock of its group
  holds it; a restart clears both.
- `WrittenOnce`, assuming that no PATCH takes effect after the client gave up.
  Invariant: what a conversion wrote carries a marker, markers are not removed,
  and a tab between fetch and PATCH holds nothing its conversion wrote (the lock
  keeps other tabs from writing it in between).
- `NeverConvertedTwice`, with no assumption on the environment. Invariant: an
  unmarked amount was typed, and every row of a page, every submitted update,
  every update in flight and every late one was computed from a typed amount. It
  does not need the lock: this is why the amount is safe with two locks too.
- `TypedIsKept`, with no assumption either. Invariant (`KeptInv`): the amount of every
  transaction, and every one that a late PATCH or one about to be sent would convert,
  is one the user meant: typed last, or under way then. `FetchForApply` lets only the
  amount through that it finds, and whatever the user types later is added to what is
  under way, so a page's age does not matter.
- `OnlyEditsOvertake`, with none. Invariant (`HideInv`): the tab past its lock works on
  an id that was given out and, unless overtaken, on the account its conversion has;
  what is owed then was in its own fetch, above the start date it read; what YNAB
  confirmed carries a marker. So the floor it sets, below all it left, is below all
  that is owed.
- `FloorNeverHides`, assuming no settings edits, which is where the code needs it
  (`apply_overtaken`). Invariant: `HideInv`, nobody is overtaken, and what is owed and
  unmarked lies above the floor (`FloorInv`).
- `FloorAdvances`, assuming no edits. Invariant: a tab past its lock works on an id
  that was given out, and has read the floor its conversion still has, since the
  lock keeps the other applies out and an id is given out once (`LockedFrame`,
  `FloorMoves`). So the comparison before the write compares with the floor itself.

`Badge_proofs`, `BadgeNeverLow`, assuming no imports, no settings edits and nothing
typed over a zero. Without them what there is to do for a conversion only gets less
(`WorkShrinks`): no transaction becomes convertible, its account stays and its
floor does not go back (`FloorBack`). Invariant: the row a request works from has
the conversion's account and its floor or a lower one, so what it fetched holds all
there is to do, and goes on doing so until it is counted; what an apply takes off
the count is marked, and a new row has no count.

`LedgerRefinement_proofs`, `LedgerImplemented`: the initial states map to initial
states and every step to a step of the ledger or a stutter. Invariant: the tab
past a lock holds it and, when nobody else writes, no two conversions have one
account, a request past its re-read works on the account its conversion has, and
what it is about to patch is unmarked and has the amount that was shown. So a
PATCH settles what it writes, and nothing twice.

`OAuthTokens_proofs`:

- `TypeCorrect`, with the addition that a request that refreshes or has received
  a pair has one in hand.
- `RotationKeepsConnection`, `DeletedHasNoToken`, `OnlyStoredTokensUsed`, from
  one invariant: only the lock's holder is in the refresh; what a request received
  is issued, unused, not stored, and in no other request's hands; a stored pair
  that is spent is the one whose successor the holder is about to store.
- `RejectedDropsOnlyRefused`: after a rejection the request's pair is dead or was
  refused, and the stored connection is that one, none, or one granted after the
  re-check.

`Accounts_proofs`:

- `TypeCorrect`, with the addition that a request under way has a user.
- `OneConversionPerAccount`. Invariant: a conversion's id has been given out and
  to it alone, and an edit has one target. `Evolution` says once what a step may
  do to a request.
- `DeletedLeavesNothing`, adding that what is logged belongs to a user.
- `NobodyForgotten`. Invariant: an account leaves `todo` only taken, and a removal
  notes its account in `freed`; users do not come back (`Known`), so a request
  whose user is gone has nothing to answer for.
- `MarkedOnce`. Invariant: users do not come back, whoever is about to write a
  marker has deleted the user, and nobody else has.

`Throttle_proofs`. Statement by statement there are many actions and few things
that happen to an entry: `Fate` says that a step leaves it alone, drops it, counts
a failure, locks it out or creates it, and the other proofs go by these cases.

- `TypeCorrect`, with what a thread holds where it is.
- `BusySpared`: from the list of a sweep to its last `del`, at most one second ends.
- `OnlyRacers`, `LockoutsEnd`. Invariant (`LockInv`): while a lockout lasts, the
  threads past the check are some of those that were when it began; failures
  counted and threads that may still count one are fewer than the threads, and the
  time passed, the time left and `MaxLock` for each thread that may still lock are
  together at most `MaxLock` for every thread.

The ledger is proved about too, by itself. `LedgerConvertsOnce`: from its steps alone,
an amount that is not marked was typed, and so was every one on offer; so whoever
implements the ledger never writes the conversion of a conversion.
`SettledOnceForAll` goes through the refinement: when nobody else writes, a marked
transaction keeps its marker and its amount in every step of the ledger, and so in
every step of the tabs (but for what somebody types over it, which the ledger allows).

`Preview_proofs`, for memos of any length, any size of the field, any quotes, days and
lookback, every amount, rate, override and sequence of recomputations:

- `TypeCorrect`, from the two invariants that follow.
- `AmountsAlwaysNearest`: what `RoundHalfUp` returns is nearest and ties go away from
  zero, by integer division (`HalfUp`, `RoundNearest`), in the minor unit of the
  currency (`InUnits`, `RowNearest`).
- `MarkerAlwaysSurvives`, `KeepsAllThatFits`. Invariant (`MemoInv`): the memo is the
  first one or, once a row has been applied, that one with the marker appended, and a
  row holds what each action makes of it. The rest is about the operators. What is
  encoded is decoded again, and of a character cut in two nothing is
  (`DecodeEncode`, `DecodeChar`); so a text is cut after the longest prefix that
  fits (`TruncatesToFit`); what is appended to is never longer than the field and
  ends in the marker (`AppendKeeps`, `AppendFits`); a text of such a length comes back
  from the browser as it was and is stored whole, in bytes or in characters
  (`ComesBack`, `KeptWhole`, with `LengthOfText`: a text has no more characters than
  bytes).
- `RateAlwaysOfTheDay`, `FailsForWantOnly`. Invariant: the two properties themselves.
  `RateFound` says what the recursive lookup returns: the first day with a quote, or
  none; `WindowCovers` that no day looks outside the window fetched for all of them.

Induction over texts and over days goes by sets of numbers (`SequenceLemmas`): a set
of numbers that is not empty has a least one, by the library's well-founded
induction, and what holds of 0 and of n + 1 with n holds of all (`InductiveSet`,
`InductiveSeqs`). That a recursive function exists is shown by giving it
(`LooksExists`) or by induction (`FlattensExists`).

Only model-checked: liveness (`EveryRequestEnds`), out of this prover's reach. Every
other property of the passing runs is a theorem; `AtMostOnce`, `FloorKeepsOwed`,
`FloorOnlyAdvances` and `BadgeNeverHidesWork` under the assumptions on the environment
given above, which are those of their runs.

## Plan

What would come next, in this order:

1. The rest of an apply's payload: the memo's snapshot, the category that was
   checked when the page was built, approval.
2. The start-up de-duplication of conversions in `db.py`.

## Not modelled, and why

- The checkpoint and `VACUUM` after a deletion (`db.py`): what is left on disk is
  decided inside SQLite.
- `deploy/autodeploy.sh`: a sequential script under `flock`. What it does to the
  application is a restart, which every module it matters to has.
- The OAuth `state` and the session cookie: each request carries its own, nothing
  is shared.
- Rendering, formatting, logging and configuration: no state worth a model. So are
  `set_admin` (one UPDATE) and the admin pages (read-only).
- Migrations and `import_legacy.py`: they run before anything else does.
- The retries of `app/http.py`: they repeat reads only.
- Database errors other than constraint violations: they end a request as a
  restart does.
- In `Preview`: the 28 digits of Python's decimals and the digits a rate is shown
  with, a carriage return typed without a newline, and lone surrogates.
