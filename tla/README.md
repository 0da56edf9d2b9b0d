# Verification of the Qunuf backend

TLA+ modules, TLC configurations and TLAPS proofs about the NestJS backend in `src/`:
a rental platform in which tenants ask for contracts, landlords and an administrator
agree to them, and nightly jobs end and renew them.

One Node process serves all requests over one Postgres database (READ COMMITTED). There
are no locks, no version columns and no conditional updates: a handler is a sequence of
awaits, and other handlers and the `@Cron` jobs of the same process run between any two
of them. TypeORM's `save(entity)` reads the row again and writes every column in which
the entity differs from it. What a handler loaded early it can therefore write back
late. This is where the hard behaviour of the program lies, and what the modules are
about.

## 1. Inventory

| part | state | operations | interacts with | what makes it correct |
|---|---|---|---|---|
| Contracts (`modules/contracts`) | `contracts`, `renew_requests`, `properties.is_rented` | create, adminCreate, landlordUpdateTerms, accept, cancel, activate, terminate, accept/reject renewal | nightly jobs, reviews, notifications | no stage skipped or taken back; isRented agrees with the live lease; a notice of 60 days is honoured; one renewal per lease, after its end |
| Nightly contract jobs (`common/backgroundServices`) | none kept between runs | end notices served, end leases past their date and make offers, expire offers | contracts | what a crash or an exception left undone is done another night |
| Reviews (`modules/reviews`) | `reviews`, `contracts.isReviewed`, `properties.averageRating` | create, list; a subscriber recomputes the average | contracts, properties | one review per contract that was activated; a review changes nothing else of the contract |
| Properties (`modules/properties`) | `properties` (status, isRented, images), files on disk | create, update, delete file, archive, moderate, search | contracts, reviews | an edit is moderated before it is shown; a whole-row save does not undo isRented; the files of a listing exist |
| Conversations (`modules/conversations`) | `conversations` (two unread counters, last message), `messages` | get or create, send, mark as read, count unread | gateway | one conversation per pair; counters tell the number of unread messages |
| Notifications (`modules/notification`) | `notifications`, `users.notificationUnreadCount` | create, mark one or all as read, retention; a subscriber keeps the counter | all modules, gateway | the counter agrees with the unread rows |
| Sessions (`modules/sessions`, `modules/auth`) | `sessions` (refreshTokenHash, revokedAt) | login, refresh, logout, logout everywhere | accounts, JWT strategy | a revoked session stays revoked; the stored hash is of the newest token; a replaced token is refused |
| Accounts (`modules/auth`, `modules/users`) | `users` (status, address, password, pending address, codes) | register, verify, reset, change e-mail and password, deactivate, administrator's status | e-mail, sessions | an active account has a proved address; a new password holds; a shut account stays shut |
| Maintenance (`modules/maintenance`) | `work_orders`, `maintenance_schedules`, `service_providers.averageRating` | create, update, set status, rate, delete; overdue job; advance and remind jobs | notifications, properties | the average is that of the ratings; a completed order is dated; each run is announced, once per period |
| Gateway (`common/websocket`) | `onlineUsers`, socket rooms | connect, disconnect, emit | conversations, notifications | a user is listed as online exactly while a socket is open |
| Lists (`crud.service`, `crud.util`, the services that list) | none | pages by cursor, pages by number | every table | a client that turns all pages sees each row once |
| Content: blogs, sections about the company, departments, team | their rows, one picture each on disk | create, update, remove, list | file system | the picture of an article exists |
| Newsletter, contact messages, settings, user profiles, maintenance items and providers' contact data | independent rows | create, read, update, delete | | rows do not depend on one another |
| Export, validation, masking, calendar, e-mail, countries, seeds, migrations | none, or static | read, format, send | | not modelled |

The hazards, each at its line with the properties that cover it, are in `PROJECT.json`.

## 2. Plan

Done, in this order; each module has its runs, and proofs where they say more than TLC.

1. `ContractLifecycle`, with the abstract `LeaseStages`; `ContractLifecycle_proofs` for any
   overlap, `ContractSerial_proofs` for one handler at a time.
2. `PropertyListing`, with proofs: whole-row saves against each other and against the
   isRented writes of `ContractLifecycle`.
3. `Notifications` and `Conversations`, with proofs: counters against rows.
4. `Sessions`, with proofs: refresh rotation, logout, and who is listed as online.
5. `WorkOrders`, with proofs: orders, ratings, the provider's average, the overdue job.
6. `Schedules` and `MonthlyRuns`, with proofs: the two daily jobs of recurring maintenance,
   under the fairness of the scheduler; the arithmetic of months.
7. `Accounts`, with proofs: every route that saves a user.
8. `Paging`, with proofs: all twenty lists, while rows come, go and move.
9. `Content`, with proofs: what the administrator publishes.

Left:

1. `NoticeHonoured` for two handlers in flight on one contract, which is model-checked (it is
   proved for one, and false for three, section 10).
2. The averageRating of properties, as that of providers in `WorkOrders`.
3. The payment schedule as a recursive function.

How the modules meet. `PropertyListing` and `ContractLifecycle` meet in isRented: the
first has one action, `WriteIsRented`, for every write the contract service makes of it,
at any time and with any value, which includes all that `ContractLifecycle` can do.
`Sessions` and `Accounts` meet in login: the first has the session, the second the row
of the user. `Schedules` and `MonthlyRuns` meet in `ComputeNextRunDate`: a number of days in
the first, months in the second. The gateway is in `Sessions` because a socket needs an
access token. The other parts share no state that a guard reads.

`MCNotifications` and `MCConversations` each instantiate three modules that share no state,
and `MCAccounts` two. Their `part` says which of them a behaviour is about, so that the
state graph is the sum of their graphs and not their product.

## 3. ContractLifecycle

State and code:

| variable | stands for |
|---|---|
| `row[c]` | the mutable columns of a contract: status, contractNumber set, isReviewed, terminationEffectiveDate, shouldSendRenewalNotify |
| `lease[c]`, `ends[c]` | property, the contract it renews (history), activated at creation (history); days to endDate |
| `offer[c]`, `offerLeft[c]` | the `renew_requests` row of the contract (its original_contract_id is unique), days until it is 60 days old |
| `isRented[p]`, `reviewed` | the flag of the property; contracts with a review row |
| `slot[w]` | the handler in flight of each request, and of the nightly job (`Cron`) |
| `daily`, `expiring`, `due` | where the two jobs are in their loops; jobs midnight has triggered |
| `faults`, `reached` | failures so far (bound); every status a contract was committed with (history) |

A date is the number of days until it: the code only ever compares dates with now.
Months are 30 days in the code, so a lease that has reached its end date has always
spent the months a landlord may require for an offer (`acceptContract` caps them).

A handler that edits a contract takes three steps: *load* (`findOne`, its guards, the
change in memory), *select* (the SELECT inside `save`, which decides the columns to be
written) and *commit* (the UPDATE of those columns and the other writes of its
transaction). Between them every other action can happen, up to `MaxInFlight` handlers
at once. Handlers that do not save a loaded contract (create, adminCreate, the two
answers to an offer) have the steps their statements have. `DailyItemFails`,
`AbandonExpiredOffers`, `RequestFails` and `Crash` are the error paths. Notifications are
sent after the commit, from no state the model keeps, and are left out; a handler that
throws before its commit is `RequestFails`.

Each operation is one action or, where the code awaits in the middle, one action per
step; `PROJECT.json` maps them to their lines. TypeORM's `findOne` and `save` are
external code, modelled from how `src/` relies on them.

`LeaseStages` is what the service promises about one lease: unborn, negotiating, agreed,
live, notice, over, withdrawn, each reached from the one before, and at most one renewal
after the end. The refinement mapping reads the stage off the status and `renewed` off
the contracts that renew another one.

## 4. PropertyListing

| variable | stands for |
|---|---|
| `row` | one row of `properties`: status, what the owner describes it by (`content`, the number of the edit), images, ownership document, isRented |
| `disk`, `uploaded` | uploaded files on disk; names already given out (the interceptor never reuses one) |
| `slot[r]` | the handler in flight: the entity it holds, the files it will unlink, the columns its save will write |
| `edits`, `failures`, `rents` | how often the owner has edited, a request has failed, isRented has been written (bounds) |
| `approved`, `lost` | history, see below |

`Create` (create, bulkCreate), `Update`, `DeleteFile`, `ToggleArchive`, `UpdateStatus` are
the handlers up to their save: guards, upload, change in memory. `SaveSelect` unlinks what
is no longer wanted and is the SELECT inside save; `SaveCommit` is its UPDATE. `Fail` is an
error or restart between the two once files are gone.

Two flags of a slot say whether the row has changed since the handler last looked:
`fresh`, between its load and its SELECT; `clean`, between its SELECT and its UPDATE. They
are history, no action's guard reads them, and they make the properties exact. Of the
two windows only some matter: a stale load is harmless for what is shown
(`ActiveWasApproved` excuses `~clean` only, through `approved`), because save then puts back
status and content together; a change after the SELECT is harmless for isRented
(`RentedIsTheContracts` excuses `~fresh` only), because save no longer writes the column.

## 5. Notifications and Conversations

`Notifications` has the rows of one user (`note`), the count in `users` (`count`) and the
handlers in flight. `Send` is one action because the subscriber's increments are part of
the transaction of the save. `MarkAsRead` (load), `SaveSelect`, and then one of
`CommitUpdate`, `CommitNothing`, `CommitInsert` are markAsRead: what save found decides
whether it updates, does nothing, or inserts a row that retention deleted, and which
hook of the subscriber runs. `MarkAllAsRead` and `ResetCount` are two statements outside
any transaction; `DeleteOldNotifications` fires no hook. `dropped` counts the unread rows
that were deleted since the last reset, and `raced` records that one of the three races
`CountExplained` names has happened since then. The property is an equation: the count
is wrong by exactly `dropped`, never by anything else.

`Conversations` has one conversation: whether its row exists, who sent each message,
`lastMessageId`, the two counts and the handlers in flight. Each of its three operations
is two statements outside a transaction: `GetOrCreateConversation` and
`InsertConversation` (the unique index refuses the second of two), `SendMessage` (INSERT)
and `CountMessage` (UPDATE), `MarkAsRead` (SELECT) and `ResetUnread` (UPDATE). History:
`counted`, the messages whose UPDATE has run; `seen`, what there was to read when a
participant last read; `miscounted` and `overtaken`, the races. `UnreadCountExplained` is
again an equation outside these.

## 6. Sessions

| variable | stands for |
|---|---|
| `session[id]` | a row of `sessions`: not there, open or revoked; the number of the refresh token whose hash it holds |
| `issued[id]`, `given[id]` | refresh tokens signed for it; those the client has |
| `handler[r]` | the handler in flight: login, refresh, logout or logoutAll, the entity it holds, the columns its save will write |
| `socket[k]`, `online` | a web socket (off, being looked up, on, gone: closed before its user was found); whether the gateway lists the user |
| `mishaps` | failed requests, answers and lookups so far (bound) |
| `latest`, `quiet`, `overlapped`, `ghost` | history, see below |

`CreateSession`, `Refresh` and `Logout` are the checks: of the credentials and the insertion
of the session, of the refresh token, of the session by the guard of the route
(`JwtStrategy.validate`). `LoadSession` is the second `findOne` that `updateRefreshTokenHash`
and `revokeSession` make, `SelectSession` and `CommitSession` their save. `RevokeAll` is the
one conditional UPDATE of logoutAll, a step after its check. The answer of login and refresh
follows the UPDATE; `LoseAnswer` is an answer the client does not receive, which leaves a
hash the client has no token for.

`Matches` is a fact about the code: bcrypt compares 72 bytes, and the first 72 bytes of a
token are its header and the beginning of the user's id, so every refresh token of the user
matches every stored hash. Rotation therefore refuses no token, which is the disagreement
`session_rotation` shows (section 12). What does hold of rotation is `NewestOnRecord`: the
hash on record is of the token the client was answered with last (`latest`), or of one it
never received, whatever overlaps; a comparison of whole tokens would accept that one only.

`LogoutIsFinal` is exact about the one way back: a login or refresh that had loaded the
session before the revocation saves `revokedAt` as null (`quiet` leaves such sessions out).

`PresenceSettles` says when a user is listed wrongly, and there are two ways. Two sockets
were there at once, because closing either shows the user offline: `overlapped`, until a
socket is found or closes while no other is there. And a socket, be it the only one, that
closed before its user was found: `handleDisconnect` finds no user and does nothing, and
then `handleConnection` lists the user with no socket behind it. That is `ghost`; it lasts
until a later socket closes or is found open, and the user stays listed for good if none
comes. Neither excuses the other: with `ghost` and no overlap the user is listed for certain.

## 7. Accounts

One row per user with the columns some guard reads; the others (identity documents,
names) are `Profile`, which saves them with whatever else it loaded. Passwords are numbered
as they are chosen. A code or token stands for the address it was mailed to, because
that is all a later comparison can tell. `Carried(op)` lists the columns the entity of a
handler has, which depends on its `select`: columns declared `select: false` are not read
again by save, and are therefore always written by a handler that carries them. This is
why a login, which only means to store `lastLogin`, can undo a password reset.

Each route is one action up to its first await after the load, then `Insert` or
`CheckFree` where it has a further query, then `SaveSelect` and `SaveCommit`; `Refused` is
an address taken meanwhile, found by the query or by the unique index. History:
`accounted` (addresses proved, or vouched for by an administrator), `crossed` (see below),
`held` (the password that should hold), `closed` (accounts shut).

`EmailProved` has one exception, `crossed`. A requestEmailChange is in flight together with
another save of the user that carries the pending address (`Meet`): a second request, or a
login, register, changePassword, profile, deactivate, updateStatus, resend, cancel or
confirm, which all save the pending address as they loaded it. The row can then be left
with the pending address of the one and the code that was mailed for the other, and
confirmEmailChange takes that code. The user counts as crossed until a requestEmailChange
has been alone. Stale saves that do not meet a request are no exception.

Not there, because no route leads to it: `usersService.remove`, `validateUser` and
`generateOTP`. A status of suspended is never distinguished from inactive by any guard;
the administrator of the run therefore only activates (`AdminStatuses`), and users
deactivate themselves. Cool-downs and expiries only refuse requests.

## 8. Maintenance

`WorkOrders`: a handler loads an order, changes it, saves it in two steps, and after a
rating computes the average (`SelectAverage`) and stores it with the provider
(`UpdateAverage`). The average stands in the model as the ratings it is computed from, so
that two different sets of ratings with one mean are told apart. Three facts about TypeORM
that `src/` relies on, without saying so, enter here: the provider is an eager relation and
overrides a new providerId once there is one (`UpdateWorkOrder`); save reads deleted rows
too and writes `deleted_at` back as it was loaded, so a stale save restores a deleted
order; a provider that is saved whole carries the average it was loaded with
(`SelectProvider`). `AverageExplained` names every way in which the average and the ratings
part, and says that the next undisturbed rating heals them.

`Schedules`: `plan` is the table, `phase` which of the two jobs the day has come to, `batch`
and `held` the schedules it has loaded, `saving` the one it is saving, `editor` the one user
who edits. A date is the number of days until it; a run is late if its time of day is after
00:30, so that it is due a night later. `Begin`, the steps per schedule and `End` are the
loops; both loops are inside one try, so `AdvanceFails` and `RemindFails` end the job for all
remaining schedules. `notificationDaysBefore` is an array in the code; each of its entries
is announced independently, so one notice per plan stands for it.

What the runs and the reading have shown about schedules, and what the properties
therefore do not claim: a daily schedule that is behind advances one day per night and
never catches up; a run whose notice is 0 and whose time is before 00:30 is moved on before
it could be announced, and so is one that comes into being with less than its notice left;
a schedule that recurs `once` is never completed; monthly runs from the 31st drift to the
28th and stay there (`MonthlyRunsSlip`, which also shows that no month is skipped).

## 9. Paging and Content

`Paging` has one list (`list` says which of the twenty), its rows, a client (`walk`) and
how often the client was shown each row. `PaginateCursor` is one query for one row more
than the page, and the cursor of the last row kept. `FindAll` and `Count` are the two
queries of `findAndCount`. Between them `Come`, `Go` and `Move` change the table. Filters,
roles and searches only decide which rows match: a row that stops matching has gone. The
creation time of a row is fixed; its key, what the list is ordered by, is that time, a sort
id, the activity of a conversation or a column of the client's choice. Cursors that do not
decode start at the first page and are left out.

`EachRowOnce` holds for cursors but for two reasons, both caught by one flag: the cursor has
milliseconds where the table has microseconds, so rows of the same millisecond as the end
of a page are lost; and the inbox is ordered by its last messages but cut by the creation
of its conversations. `PagesShift` says what numbered pages promise: rows are missed only
if rows went, moved or tied, and repeated only if rows came, moved or tied. There is no
tie-breaker in any numbered list. The total is a second query, so the last page may be
announced one too early or too late.

`Content` has the articles of one of four tables that differ in what is unique and what is
asked first (`Kinds`), and the pictures on disk. `UploadPicture` is the interceptor,
`CreateArticle` with `InsertArticle`, `UpdateArticle` and `RemoveArticle` the handlers,
`Unlink` the deletion of the old picture, which comes before `SelectArticle` and
`CommitArticle` (the two halves of save) or `DeleteArticle`. `PicturesShown` names the
exceptions: a section renamed to a name that exists is refused by the unique index only
after its picture has been unlinked, because `updateInfo` does not ask; a failure after the
unlink; and a save of a stale article, which puts a replaced picture back on record, or
inserts an article again that has been removed in the meantime.

## 10. Runs

| run | instance | shows |
|---|---|---|
| `contract_serial` | three contract rows, one property, one request and the jobs, one handler at a time, one fault | types; a renewal follows a full term; isRented tracks the leases; `LeaseStages` is implemented |
| `contract_overlap` | one row, two requests and the jobs, two handlers in flight | history is never skipped; numbers and reviews belong to signed leases; a notice is honoured, under stale saves |
| `contract_jobs` | one row, one request and the jobs, two in flight, one fault, fairness | notices are served, leases end, offers are decided |
| `listing` | two images for one place, two documents, two requests, three edits, two writes of isRented, one failure | types; what is shown was approved; only the administrator revives a listing; a save does not undo isRented after its SELECT; the image limit; a missing file is accounted for |
| `notifications` | three notifications, two requests, two nights, one failure; one schedule with three edits and one early end of a job, fairness; run dates over five years | types; the count is explained; runs are announced, lagging schedules catch up, schedules end; by how much monthly runs slip |
| `conversations` | four messages, three requests, one failure; four rows of a list, pages of two, two changes; two articles, two pictures, two editors, one failure | types; both counts and the last message are explained; which rows a client misses or sees twice; which articles lose their picture |
| `work_orders` | two orders, two requests, one failure | types; the average is explained; completed orders are dated; deletion is final |
| `accounts` | two users, three addresses, two requests, three codes, two passwords, one failure; two sessions of three tokens between them, two sockets, two requests, one failure | types; addresses are proved; a chosen password holds; a shut account stays shut; a logout is final; the newest token is on record; presence settles |
| `contract_direct` | violation | a contract activated at creation leaves isRented FALSE |
| `contract_offer` | violation | an accepted offer is overwritten with expired |
| `contract_review` | violation | a review brings a terminated contract back |
| `session_rotation` | violation | a refresh token that was replaced is still accepted |

Bounds.

*Contracts.* Terms, notices and offers last one day (`MaxTerm`, `NoticeDays`, `OfferDays`):
what matters is whether a date has passed, passes next midnight, or is set at all, and a
lease, its notice and its offer already expire on the same and on different nights. In
`contract_overlap` a term may last two days: with one, a notice never runs before the lease
does, and a lease that ended early could not be told from one that ran out. Two
contract rows are the least for a renewal and for two leases of one property; a second
renewal of the same lease needs three. `TwoRowsOrOneFamily` admits a third row only as a
renewal in one family: three independent contracts of one property add nothing that two do
not show. Two handlers in flight suffice for a load of one to be overtaken by the whole of
another, and the nightly job is a third worker. `MaxFaults` bounds restarts and failures of
the jobs; a request may fail at any time without bound. `contract_overlap` has no fault: a
fault only removes a handler, which `RequestFails` does as well.

*Listing.* Two requests let one save be overtaken before its SELECT and after it; three
contents, of the creation and of two updates, let one update be saved stale over the other
one's approved content; two writes of isRented take and free the property behind one
handler's back. A deletion of a file the row does not have saves the row as it was, so it is
kept among the first edit, write of isRented and uploads (`NothingDeletedEarly`). One place
for two images is the least at which an upload is cut short and at which overlapping uploads
could exceed the limit. Files and moderation do not meet in the code except through the row,
so `FilesOrModeration` stops behaviours in which files were uploaded and the administrator
or a lease has touched the listing as well, and those with four files; the proofs cover all
of them.

*Notifications, conversations.* Three notifications and two requests let markAsRead,
markAllAsRead, a new notification and two deletions meet. Two sends and one read are the
least in which messages are counted in another order than they were inserted while someone
reads; four messages leave one to come after that.

*Schedules.* One plan: plans meet only in the early end of a job, which `AdvanceFails` and
`RemindFails` have with one plan too. Its kind is any of four (`KindsUsed`): once, daily,
every second day late in the day with notice on the day or two days before (so that an
update can change the notice alone); it can begin two days ago or today, end tomorrow or not
at all, and be edited twice after its creation. Dates are remembered up to three days back
(`MaxBehind`), more than the longest period. `MonthlyRuns` starts on any day of four years,
has a run every month, every sixth or every twelfth, and stops 60 months after the first of
those years began (`MaxMonths`): it meets each length of month, the leap February included.

*Sessions.* A token of the login, one of a refresh and one more: with two tokens of one
session a refresh can overtake another, and the third is for the other session, which is
there for logout everywhere, or for a third of the first (`FewerTokens`). Two sockets to
overlap; they are opened while no request is in flight, since all they read of the sessions
is that the user has a token. `session_rotation` needs one session with two tokens.

*Work orders.* `Sets` is completed only, the status on which dates and ratings depend; the
overdue job sets another one. Ratings are null or 1: a changed rating and a lost one are
both told apart. `OneAstray` stops behaviours with two orders that are late, deleted,
without a provider or overwritten, and those where one is and a request has failed; the
proofs cover them.

*Accounts.* Two users race for one address, and each can have one of its own and one
pending. `FewerAtOnce` keeps, while there is one user, behaviours with at most four codes,
passwords and failures in all, and no reset of the password beside a change of address; of
two users, those without a failure in which one is yet to be verified and no two requests
are of one user: what is left are their races for an address. `FewerOnceMet` stops, once a
request for another address has met another save, what is not about addresses: a second
user, another password, a failure. The proofs cover all of them.

*Paging.* Pages of two of four rows have a first, a middle (of a walk during which rows
come) and a last page; times of creation are three microseconds of two milliseconds, so
there are rows of the same microsecond, of the same millisecond only, and of different
ones. Two changes are the least for a row to come and another to go between two pages.

*Content.* Two articles for a name to be taken; two pictures for one to replace the other;
two requests; one failure.

Where failures are modelled there is one: it stops a handler between two statements and
leaves what it has committed, and what a second one would leave behind differs only in how
many rows or files it concerns. Requests, files, contracts, sessions and sockets are
interchangeable, so the runs use symmetry (not the runs with liveness). Deadlock is checked
in every run: where the bounds leave nothing to do (`LastRun`, `AllGone`) the MC module has
a step that says so.

Which properties need one handler at a time is itself a result: `RentedTracksLeases`
and `ImplementsLeaseStages` do (with two acceptances of one offer in flight a lease is
renewed twice). `NoticeHonoured` holds of one
handler (proved) and of two (model-checked, on one contract). It is false of three, as
TLC shows from a state that two can reach: the save of a revised draft, selected before
the contract was agreed upon and committed after the landlord gave notice, leaves a
contract in negotiation with a date that then passes. When it is agreed upon and
terminated again, stale saves first restore that passed date, the nightly job lists the
contract by it, a last save writes the new date, and the job, which does not compare
dates again, ends the contract early. The other safety properties hold under any
overlap.

Midnight happens when no handler or job is in flight. They take far less than a day; one
that straddles midnight is ordered after it.

## 11. Fairness

Assumed in `contract_jobs` and for the schedules of `notifications` only. Handlers in flight
return or throw (weak fairness of `Finish(r) \/ RequestFails(r)`, and of `Saves`), the jobs'
steps are taken by the event loop (weak fairness of the jobs: `@Cron` triggers them every
night and nothing blocks them), and days pass (strong fairness of `Midnight`, because
requests can delay it but, being short, not for ever). No fairness is assumed of requests
being made, nor of any particular one succeeding.

## 12. Disagreements between code and comments

* `contracts.service.ts:233`: `directActivate` makes a contract active without setting
  isRented, which `allowToCreateContract` (line 376) and the search read as "occupied".
* `contracts.service.ts:1405`: the expiry job saves offers it loaded before its loop; one
  that was accepted meanwhile ends as EXPIRED beside its renewal, although a decision is
  only made of an offer that is PENDING (line 1183).
* `reviews.service.ts:74`: the save that should only "update the contract marker" writes
  the status as it was loaded; a contract terminated in between is active again, and
  `isRented` stays FALSE.
* `auth.service.ts:407`: refresh compares the token with the stored hash by bcrypt, which
  sees 72 bytes, the same in every refresh token of a user. A token that was replaced is
  accepted while the session is open, although the code stores the hash "for rotation &
  revocation" (line 105), means to "Rotate tokens" (line 418) and has an answer for others,
  "Refresh token revoked" (line 409). What closes a session is `revokedAt`.

## 13. Proofs

`ContractLifecycle_proofs` proves, for all values of the constants that satisfy the
named assumptions (so for any number of contracts, requests and handlers in flight, any
length of lease, notice and offer, and any number of faults), as theorems of `Spec`:
`TypeCorrect`, `StagesInOrder`, `NumberedSigned` and `RenewalAfterFullTerm`.

The properties speak of rows and of history, and what may break them is in memory: the
entity a handler loaded a while ago. The inductive invariant `IInv` therefore says of
every handler in flight what it will write and why its contract has earned it
(`SlotInv`), that the lists of the nightly jobs name contracts that were active and have
run out (`JobInv`), that a row's status is on record (`RowInv`) and that an offer implies
the end of a full term (`OfferInv`). The argument rests on monotonicity: `Grows` says what
no step takes back (a contract's lease, its history, a passed end date, an offer on
record), and what is sound for a handler stays sound while the tables grow
(`SoundGrows`). Hence each action needs only be examined for the one handler and the one
contract it touches; steps that leave the tables alone, loads, the select, commits,
inserts, offers and midnight each have a lemma, and `NextIInv` collects them. TLC checked
`IInv` as an invariant on the instances above before it was proved.

`PropertyListing_proofs` proves all of that module's properties: `TypeCorrect`, `ActiveIsApproved`,
`OnlyAdmin`, `ContractsOwnIsRented`, `ImagesAreLimited` and `FilesAreOnDisk`, for any number
of files, edits, requests, failures and any limit. A handler's *outcome* is the row it
would leave behind if it committed now. `SaveSelect` forgets most of the entity but leaves
the outcome as it is (`SelectKeepsOutcome`); only another write changes it, column by
column, and such a write clears `fresh` or `clean`. `Sound` states what is right about an
outcome under each flag: few images, an approved content if it is active, files that are
either the row's own or new and nobody else's. When the handler commits, its outcome
becomes the row, so `ActiveWasApproved`, `ImagesLimited` and `FilesExist` follow from
`Sound` of the one handler, and the two action properties from the flags.

`Notifications_proofs` (`CountIsExplained`) and `Conversations_proofs` (`UnreadIsExplained`,
`LastIsNewest`) prove equations about cardinalities for any number of rows and requests.
They are inductive once one knows what a handler in flight is about: that the row it will
write was created (`SlotInv`), that numbers not yet given out have no row (`RowInv`), and of
a message in flight that it was inserted, is its sender's, is not counted yet and is
nobody else's (`SendInv`).

`Sessions_proofs` proves `TypeCorrect`, `FinalLogout`, `RecordIsNewest` and `SettledPresence` for
any number of sessions, tokens, requests, failures and sockets. The invariant adds to the
types what a handler in flight holds (`HandlerInv`); that a hash is of a token that was signed
(`HashInv`); that of two handlers none has the other's token and that a token in flight has
not been given out (`TokenInv`), so that the hash on record can only be of the last answer
or of none; and that a revocation that counts as final left no handler that would undo it
(`QuietInv`). `PresenceInv` says what the sockets look like while they have not overlapped: at
most one of them is not off, and the user is listed for it or for a ghost.

`WorkOrders_proofs` proves all properties of `WorkOrders` for any number of orders, requests
and failures and any scale of ratings. The heart is that a save leaves exactly its entity
behind while nothing has changed since its SELECT: `Sound` says it of each handler with a
dirty set, `SlotInv` collects it, and `FinalInv` says that of a deleted order that counts as
final no handler holds a live entity. The average follows because each step either leaves
the counted ratings alone, sets `skewed`, or is a rating that is still to be averaged.

In the same two modules are the proofs of what shares a run with them.

* `Schedules` (`RunsAreAnnounced`). The property is about one step of the 00:30 job; behind it
  stands `RunInv`, of every state: the next run of a schedule has been announced, counts as
  spoilt, or can still be announced. What the job loads is due (`AdvanceInv`), and a run that
  is due can not be announced any more. The set of kinds must not be empty, and the bounds on
  dates must leave room for one period (`KindsAssumption`, `RoomAssumption`).
* `MonthlyRuns` (`RunsSlip`). The day never grows, and each new one is the day of the run
  before or the length of its own month; of the calendar only that months have 28 to 31 days
  is used.
* `Paging` (`PagesAreExplained`), for any rows, limit and number of changes. With cursors, the
  rows beyond the cursor have not been shown and the others have, once, if they stayed
  (`CursorInv`). With numbers the argument counts: a row that was missed has at least as many
  rows above it as the pages shown so far have places, if none went; a row that was shown has
  at most so many, itself included, if none came (`NumberInv`). That needs only
  cardinalities of subsets, not the order as a sequence.
* `Content` (`PicturesAreShown`). A picture belongs to one article (`OwnInv`): it is in its
  row, or a handler that has loaded that article will write it or unlinks it; so what happens
  to one article cannot explain what is missing of another. The picture of an article in
  creation is on disk and nobody else's (`CreateInv`). A handler whose row has not changed
  since either keeps the row's picture and unlinks none, or brings a new one that nobody has
  unlinked (`NewInv`). So only a save that was overtaken, or an unlink whose handler did not
  finish, can leave an article without its picture, and those are the exceptions.

`TypesHold` of both modules puts the types of the three parts together.

`ContractSerial_proofs` proves what holds of handlers that do not overlap, under the named
hypothesis `MaxInFlight = 1` of its theorems and for everything else at large, crashes and
failures between any two steps included: `RentedSerial`, `NoticeIsHonoured` and
`Implementation`, which is the refinement of `LeaseStages` (its safety part, which is all of
it: `StagesSpec` has no fairness). The hypothesis is needed: each of the three is false
without it. `SInv` adds to `IInv` what being alone gives a handler. The row it loaded is the row
it will write to, so the status it leaves behind follows from its guard (`Fit`, `Moves`); what
the nightly job has listed is still as it was listed, or has been ended by itself
(`TodoInv`); an offer is of a lease that is over, an accepted one has its one renewal
(`RenewalInv`); and a flag of a property changes only together with the one contract that is
live on it. For the refinement each action is mapped to one move of one lease
(`CommitMapped`, `DirectMapped`, `CreateMapped`, `AcceptMapped`) or to a stutter (`StageKept`).

`Accounts_proofs` proves the four properties of `Accounts` for any users, addresses, statuses,
bounds and number of requests in flight (`TypeCorrect`, `AddressIsProved`, `PasswordStays`,
`ShutAccountsStayShut`). What a handler will write is what it carries, until its SELECT, and
what was dirty, after it (`Holds`, `SlotInv`). `EmailProved` rests on a dichotomy: either the
address of a user is accounted for, and then every address that a handler of that user will
write is (`ProvedInv`); or it is not, and then the user has never been active or entered, so
that only five kinds of handlers can be in flight, all of which write the one address the
user has (`FreshInv`). A confirmed change of address needs that the pending address and its
code are of one request. They are while the user is not crossed: the row, and every handler
that bears a pending address and has not met a request for another, know one such address
(`PendingInv`), and a request for another that has been alone writes both together
(`AloneInv`).
`PasswordInv` and `ShutInv` say of the handlers in flight what the two properties say of the
row. `RowsKept` and `RowWritten` reduce each action to the one handler and the one user it is
about. Requests are assumed to be finitely many (`RequestsAssumption`), because the codes that
handlers will still make are counted.

The assumptions are the named ones of the modules: bounds are numbers, null values are not
values, constants are sets of what they stand for. They are evaluated by TLC on every run.

Model-checked only: `NoticeHonoured` of two handlers in flight, and liveness
(`NoticesAreServed`, `LeasesEnd`, `OffersAreDecided`, `CatchesUp`, `SchedulesEnd`), which is out
of the prover's reach as it rests on fairness and ENABLED.

## 14. Not modelled

The parts marked so in `PROJECT.json`: formatting, exports (one query without pages),
validation of request bodies, masking, the calendar and its external service, e-mail,
countries, seeds, migrations and bootstrap. Of contracts: payment schedule, fees, snapshots
of users and properties, notification texts, dashboards. Of reviews and properties: the
average rating (written as isRented is), which image is the primary one, searching beyond
its pages. Of notifications and conversations: socket events, and the total that markAsRead
answers with, which another conversation's counts enter. Of sessions: expiry, device data.
Of users: profile data and identity documents. Of maintenance: items, creating and deleting
providers (once its provider is deleted an order is loaded without one, and a save may clear
the column), and `tenantApproveAccess`, to which no route leads. The newsletter (an address
is subscribed once, by a unique index), the contact messages and the one row of settings
have no state that another part relies on.
