# StoneTrail: models and proofs

StoneTrail is the site of a dealer in natural stone: a catalogue, promotions,
articles, news, a forum and the accounts behind them. The backend is FastAPI
over PostgreSQL (`src/backend`), the frontend Next.js (`src/frontend`). This
directory holds TLA+ modules of the parts of both whose state is hard to keep
right, the TLC configurations that check them, and TLAPS proofs of what matters
most of them.

1. [How the system runs](#how-the-system-runs)
2. [Inventory](#inventory)
3. [Modules](#modules): what stands for what
4. [Runs](#runs): what is checked, within which bounds
5. [What the code does otherwise than it says](#what-the-code-does-otherwise-than-it-says)
6. [Proofs](#proofs)
7. [Fairness and liveness](#fairness-and-liveness)
8. [What is not modelled](#what-is-not-modelled)
9. [Plan](#plan)

## How the system runs

**Backend.** Every request has an `AsyncSession` of its own (`core/db.py`). One
process runs one event loop; requests interleave at every `await`, and several
processes interleave at every statement. The database is left at READ
COMMITTED, nothing is read `FOR UPDATE`, and nothing is retried. What one
operation may rely on is:

- **its reads**: each statement sees what is committed when it runs, so that
  what was read earlier may be out of date when the operation writes;
- **the identity map**: a row loaded once keeps the attributes of that first
  load, whatever later statements of the same session return;
- **the mapper**: at a flush only the columns whose value differs from the
  loaded one are written. Two requests that change different columns of a row
  do not undo each other; two that decide on each other's columns do;
- **the database**: unique indexes (partial ones, over rows that are not
  deleted), foreign keys with ON DELETE CASCADE, SET NULL or RESTRICT, checks.
  Whoever comes second gets an `IntegrityError` and everything is rolled back.
  An UPDATE of a row that is gone is an error too; a DELETE of one is not.

`Accounts`, `Forum` and `Catalog` have this shape. A *request* is a record with
a program counter. It is begun by an action that makes the reads and guards
which follow one another up to the first point where another request can
matter, and ends in a `...Commit` action that makes its writes at once, guarded
by what the database enforces. `Abort` ends a request at any point before that:
it stands for an error, a lost connection and a process that dies, all of which
leave the tables as they were. There is therefore no separate crash action, and
nothing to recover; the exception is what lives outside the transaction (the
limiter's buckets, mail, the object store), noted where it matters.

**Frontend.** A page is a React component with state of its own. A handler, or
an effect after a render, runs to its end before another does, in any tab; what
it asks of the backend is answered later, in any order with other answers, or
fails, and the rest of the handler then runs on whatever the page has become.
Few handlers ask whether their answer is still wanted. Two tabs share the cookie
and `localStorage`. The pages of the catalogue are put together on the server,
each from several requests sent at once.

The modules of pages have this shape: the *server* (what the routes promise,
one step per request, with others at work too), the *page*, and the *calls*
between them, each sent, served at one moment and answered at a later one.
"Calm" or "clean" are history: they say whether calls have overlapped, for the
properties that only hold if they do not.

## Inventory

| Component | State | Operations | Hard behaviour | Correct when | Module |
| --- | --- | --- | --- | --- | --- |
| Rate limiter `core/rate_limit.py` | buckets of the process: count, window start | `retry_after`, `hit`, `clear`, `reset` | checked before awaits, hit after them; window boundaries; restart | the excess is bounded; a refused caller learns a wait that is long enough | `RateLimiter` |
| Accounts `services/auth.py` | `users`, `sessions`, `auth_tokens` | register, login, logout, profile, resend, change email, verify, forgotten and reset password | check-then-write over awaits, links and sessions used twice, mail lost after a commit | addresses and nicknames unique; verified only for a proved address; no session outlives its password; a spent link stays spent | `Accounts` |
| Forum `services/forum.py` | topics, comments, likes | create, open, hide, restore, destroy; comment; like | two actors hide and answer at once, threads while comments are destroyed, slugs of hidden topics | staff's hiding stands; nothing answered is hidden by its author; threads are trees; no reply is lost | `Forum` |
| Catalogue editing `services/catalog_admin.py` | stones, lots, products, `product_stones` | create, edit, delete, restore of each | dependents counted before a deletion, overlapping edits | slugs unique; what lives is made of stones that live; a product has a stone | `Catalog` |
| Articles `services/articles.py` with the editor's form and the pages of staff | articles, the right to publish; form, run, lists | write, save, submit, publish, decide, revoke, hide, restore | a request given up and carried out later; decisions on a list loaded earlier | one article per form; the queue holds what was submitted; only the trusted publish | `Press` |
| Article page `app/articles/[slug]` | the article as loaded, a reply chosen | load, heart, comment, reply, moderate | answers that overtake each other, others at work | shows what is served; offers what is accepted | `Reader` |
| Session of a tab `lib/auth-context.tsx` | visitor, dialog, page, letter; cookie | every form of accounts, guards of pages | answers out of order, lost, or to a form that is gone; another tab | the visitor shown is the cookie's; no form busy for ever | `Session` |
| Inquiry `lib/inquiry-draft.ts`, `inquiry-form.tsx` | a draft per user in storage, a waiting line per tab, the form | add, remove, log in, send | two tabs, storage full, a send answered after another edit | lines stay with their user and leave by an act | `Inquiry` |
| Topic page `app/community/[slug]` | the topic as loaded and patched | load, comment, edit, hide, restore, delete, like | as for articles | shows what is served; every comment is drawn | `Topic` |
| Topic list `app/community` | category, list, search, author | turn, load, search, create | loads that overtake each other | the tab's topics; something is shown | `Threads` |
| Topic dialog `create-topic-modal.tsx` | files with their uploads, sending | pick, remove, upload, send, close | closed and opened again under uploads | files of this dialog only, within limits; sent once; what was attached stays | `Composer` |
| Lots and products `lot-table.tsx`, `variant-table.tsx`, `block-detail.tsx` | filters, menus, the row enlarged | filter, open, leaf | menus left open by the keyboard; items that change under a highlight | what is picked is what was highlighted; a row opens itself | `Lot` |
| Product listing `product-catalog.tsx` | filters, order, length, address | pick, reset, turn, show more | filters that outlive their view; an address that comes later | no filter of another view; an empty list has a way out | `Shelf` |
| Stone pages `catalog-index.tsx`, `lib/stone-inventory.ts` | the answers a page is joined from | open, follow, be redirected | joins by address and by name, of different moments | a link keeps its word; a stone with a link is found | `Stones` |
| Promotions desk `app/admin/promotions` | form, lines read from a sheet, sheets, savings | read, edit, save, reset | savings in several requests that may fail; a sheet read into another form | lines and sheets go to the promotion they were chosen for | `Desk` |
| Catalogue desk `app/admin/catalog` | forms that show one row of several | fetch, save, reset, turn | fetches that overtake; a save that replaces all rows | no row of another entry; none lost | `Stock` |
| News desk, hearts `app/admin/news`, `feed-like-button.tsx` | two lists, a form; a heart | create, edit, hide, restore; tap | lists out of date; taps that overlap | lists as served; an act hits its entry; the heart is true when at rest | `News`, `Likes` |
| Header `notification-dropdown.tsx`, `search-modal.tsx` | notes; lists to search | list, mark; open, shut, search | the visitor changes under a request | no notes of another; asks once, finds what is there | `Bell`, `Feed`, `Search` |
| Media `services/media.py` | `media`, `media_links`, the object store | presign, confirm, complete, link, avatar, expire | two stores and one transaction; orphans | what is linked exists; one avatar each | - |
| Yandex sign-in `services/yandex_auth.py` | `oauth_states`, `auth_identities` | start, callback, complete, link | a state presented twice | a state is spent once | - |
| Promotion lines `services/promotion_offers.py` | lines bound to items of the catalogue | replace, publish, publish again | lines replaced twice; products deleted under them | every published line has its item | - |
| Roles, pages, audit | a role; blocks; a log | set, save, append | two administrators demoted at once | one is left | - |
| Mail, Rutube, offer sheets, health, logging, static data | none | one message, one parse or one read each | none that outlasts the request | the output is right for the input | - |

How they interact: every service takes the user of the session from Accounts;
Accounts, Media, Inquiries and Yandex call the limiter; Yandex opens sessions
and registers users in the tables of Accounts; Forum topics, articles, the
catalogue and avatars own Media links; Promotions write products, lots and
stones of the catalogue; Articles grant a right kept in `users`; most services
append to Audit in their own transaction. The frontend reaches all of it by HTTP
only; its pages share the session context (who the visitor is), the cookie and
the storage of the browser, and the address.

`PROJECT.json` lists the components with what is modelled of each, and under
`hazards` the places where the code can go wrong in a way a test would hardly
reach.

## Modules

### Backend

**RateLimiter**: `core/rate_limit.py`, with its three kinds of caller. Time is a
count of ticks, `Second` of them to a second, because the wait is truncated to
seconds while windows end between them. `CheckAndHit` are callers with no await
between the two (`forgot_password`, `init_upload`, `submit_inquiry`, the OAuth
start); `CheckAttempt`, `HitAttempt`, `ClearAttempt` and `DropAttempt` are
`register` and `login`; `HitUnchecked` is `change_email`, which counts against
the cooldown of `resend_verification` without asking; `Restart` empties the
buckets. `admitted` and `promised` are history.

**Accounts**: `services/auth.py` with its repositories and tables (`auth_tokens`
are called links, as they are mailed). It has the accounts these operations
make and change; a sign-up with Yandex inserts rows of the same table that are
verified without a link (`services/yandex_auth.py:244`), which are left out.
`proved` and `uses` are history: the addresses whose link a user has followed,
and how often a link was spent. So are `overtaken`, `shared` and `outrun`, which
`Racing` keeps: the users whose address was changed while another request
changed it, issued a link or had accepted one; the links two requests had accepted
before either committed; the users for whom a login that had read the old password
was in progress while a reset was committing. They name the very races that
can take a promise back, and nothing else is excluded. Each operation is two to four actions, e.g. `ChangeLookup`, `ChangeFlush`,
`ChangeCommit`, `Deliver`. Two facts about the database are modelled because
the properties depend on them: the row lock an early flush takes (`Holds`,
`RowFree`, `Unclaimed`, `Picked`), and that a bulk UPDATE picks its rows when it
runs (`captured`). `ExpireLink` and `ExpireSession` are the clock.

**Forum**: `services/forum.py` with `repositories/forum.py` and the tables'
constraints. A slug is a title with a number, as `_unique_slug` makes it.
Comments are numbered in the order they are written. `Visible` and `Below`
decide which comments a page shows; the walk of `_has_living_descendant` is
stated as the least set that is closed under replies, which needs no recursion.
`opened`, `staffhid` and `crossed` are history; `crossed` says whether two
requests have ever overlapped.

**Catalog**: `services/catalog_admin.py` with `repositories/catalog.py`. One
table `rows` holds stones, lots and products; `Write` says what differs between
them. `main` is `stone_id`; `links` is `product_stones`. `set` holds the columns
a request has changed since its load and `Merged` writes just those.
`LinksRead` is `replace_product_stones`, which reads again what it deletes.
`touched` is history.

### Frontend

| Module | State and what it stands for | Actions and their handlers |
| --- | --- | --- |
| `Session` | `tab` (visitor, dialog, page, link, who is busy), `cookie`, `call`, `server` | `Visit` and what its forms ask; `Serve` the routes; `Answer` with `Learned`, `Released`, `Directed`, `Taken` (what context, form and page each make of it); `Stored` (the form of a new member goes on once the browser has dealt with the password offered to it, `offers` of them waiting); `Lose`, `Tear`, `Load`, `LoadLink`, `Navigate`, `OpenModal`, `CloseModal` |
| `Inquiry` | `draft` (localStorage), `tab`, `holder` (sessionStorage), `send` | `RequestAsGuest`, `RequestAsMember`, `Remove`, `OpenLogin`, `LogIn`, `LogOut`, `TypeMessage`, `Reset`, `Submit`, `Succeed`, `Fail`, ...; writes fail while storage is `full` |
| `Topic` | `role` (guest, member or staff, the two with a verified address or without), `server` rows, `page`, `call` | `Click` for every button, `Serve` (`LetIn` is the router's `get_verified_user`, `Accepts` the service), `Answer` (patches or reloads), `Fail`, `Retry`, `Other` |
| `Reader` | `server`, `article`, `reply`, `sending`, `calls`; `ahead` (which answers come before which) | `Like`, `Submit`, `Act` (publish, request changes, reject, hide, restore), `Serve`, `LandLoad`, `LandLike`, `LandAct`, `Fail`, `Reply`, `Elsewhere` |
| `Threads` | `tab`, `posts`, `author`, `finding`, `flights` (loads on their way) | `SelectTab`, `Search`, `ChooseAuthor`, `Reset`, `Serve`, `Answer`, `Fail`, `Send`, `Created`, `Return` |
| `Composer` | `drafts`, `uploads`, `video`, `link`, `submitting` | `Open`, `Close`, `AddImages`, `AddVideo`, `TakeAway`, `SetVideo`, `TypeLink`, `Submit`, `Uploaded`, `Linked`, `Sent`, `Renewed` (the topic under the open dialog is loaded again, and the effect fills the dialog anew) |
| `Lot` | `table`, `items`, `filters`, `menu`, `active` | `Toggle`, `Arrow`, `Hover`, `SelectOption`, `EnterOption`, `ResetFilters`, `PressOutside`, `Escape`, `OpenItem`, `OpenLightboxAt`, `Navigate`, `Close`; statuses, ranges and options as functions |
| `Shelf` | `url` and the `target` the router goes to, `filters`, `sort`, `pages`, `picked` | `Follow`, `SelectCategory`, `SelectGroup`, `Commit`, `Pick`, `TypeSearch`, `Sort`, `ShowMore`, `Reset`; option lists and matching as functions |
| `Stones` | `served` (the catalogue), `page` with the answers it has, the `link` that led to it | `Answered`, `Failed`, `Follow`, `Return`, `Change` (an editor); the joins of `stone-inventory.ts` as functions |
| `Press` | `articles`, `right`, `form`, `route`, `busy`, `call`, `late`, `seen`; `onward`, what the form of the staff asks for | `Click`, `Serve`, `GiveUp`, `ServeLate`, `Return`, `Fail`; `LoadLists`, `Decide`, `Revoke`, `Hide`, `Restore`; `Edited` and `GoOn`, the staff with an author's article in the form |
| `Desk` | `table`, `items`, `editing`, `lines`, `sheet`, `imports`, `gets`, `saves` | `ChooseFile`, `Imported`, `ChooseSheet`, `Edit`, `Opened`, `Save`, `Request`, `Saved`, `Reset`, `Remove`, `Restore` |
| `Stock` | `stock`, `shown`, `panel`, `fetches`, `puts`, `reloads` | `Fetch`, `Fetched`, `Delete`, `TypeLabel`, `Put`, `PutDone`, `PutFailed`, `Reloaded` (the list asked for after a save comes or fails) |
| `News` | `news`, two lists, `form`, `editing`, `calls`, `loads` | `Edit`, `Type`, `Save`, `Press`, `Serve`, `ServeLate`, `Refuse`, `Succeed`, `Fail`, `Read`, `Land`, ... |
| `Likes` | `liked`, `loaded`, `heart`, `taps` | `Tap`, `Elsewhere`, `DrawnAnew`, `Find`, `Write`, `Answer`, `Fail` |
| `Bell` | `user`, `cookie`, `notifications`, `loaded`, `error`, `asks` | `Login`, `Refresh`, `Logout`, `MarkOne`, `MarkAll`, `Write`, `Served`, `Answered`, ... |
| `Feed` | `user`, `view`, `whose` | `Turn`, `Show`, `Fail`: the abstract specification `Bell` implements |
| `Search` | `opened`, `query`, `category`, `asked`, `lists`, `searches` | `Open`, `Close`, `Searched`, `Type`, `Choose` |

`Feed` is what a list that belongs to a user promises: for every user that comes
it is shown once or fails, and what is shown is his. `Bell` implements it under
the mapping `View`, `Whose` (`Promise` in `Bell.tla`), safety and liveness: a
property of the run `storefront`, and for the safety part a theorem.

### MC modules, scenes and mutants

The `MC...` modules give constants their values. Several of them hold *scenes*:
a variable `scene`, fixed in the initial state, says which part of the instance
is open, and the rest stays closed. `MCAccounts` and `MCForum` have scenes that
narrow the operations to what a question needs; `MCStones` (the desk of the
catalogue and its pages), `MCStorefront` (lot, shelf, bell), `MCPages` (topic,
news, likes, promotions), `MCOffice` (press, composer, stock, threads) and
`MCVisitor` (inquiry, article, search) put parts that share no state into one
run. Nothing is lost by that: a behaviour of a scene is one of its module. At
most one part of a run is EXTENDed, the others are instances; the properties of
the run name the parts they are made of. The module of the proofs extends the
`MC...` module where it holds several parts, so that a theorem states the very
definition the run checks. It uses nothing of what an instance is given there
but the named assumption.

An operator whose comment begins with "Mutant" is not part of the
specification; it states how a plausible bug would read, and shows that a
property notices it.

## Runs

Deadlock is not checked where slots or clicks are finite: rows are consumed and
never given back, visitors stop, and a run in which all is used up may stop.
`RateLimiter` is checked for deadlock: it can always restart.

| Run | Asks | Instance |
| --- | --- | --- |
| `limiter` | `TwoWindowsBound`: a stretch of one window lets in at most twice the limit. `AttemptOvershoot`: register and login exceed theirs by no more than the requests in flight less one. `PromiseKept`: who waits what it was told, and a second more, is let in | a key of each kind, limit 2 or 1, window 5 or 3 half seconds, 6 ticks, 2 requests |
| `accounts` | alone, in races of resets, of newcomers, and of changes of address with links sent again and mailed late: `LinksProve`, `SessionsOfPassword`, `LinksInHand`, `NothingRevives` | 2 users, 2 requests, 2 addresses, nicknames and passwords, 3 links, 2 sessions |
| `accounts_race_address` | `AddressProved`, violated by two requests | the scene `changes` |
| `forum` | alone: `KeptAlone`, and most of `AnswersKept`; in all scenes: `NothingDangles`, and of `AnswersKept` that no reply is lost | 2 users, 2 topics of one title, 3 comments, 2 requests |
| `forum_same_slug` | `StaffOpens`, violated by one request at a time | 2 topics of one title |
| `catalog` | desk: `AlwaysLinked`, `UsedStoneStays` in races. Pages: `LinksHold`, `IndexFinds` | 2 stones, 1 lot, 1 product, 2 slugs, 2 requests; pages: 2 stones of one or two names, 2 lots, 2 products, 1 change, 1 click |
| `catalog_restore` | `StonesLive`, violated by one request at a time | 1 stone, 1 lot, 1 product |
| `session` | `ShownIsSession`, `ConfirmedOnSight`, `FormsComeBack` | 2 users, 2 sessions, 2 calls at a time, 2 asked beyond the first |
| `visitor` | inquiry: `LinesOwned`, `LinesLeaveByAct`, `FormsComeBack`. Article: `ArticleTrue`. Search: `SearchSound` | 2 users, 2 tabs, 2 lines, 1 send, 6 steps, storage may fill; 2 calls, 2 taps, 1 act of others |
| `pages` | topic, news and heart: `PagesTrue`. Topic: `OfferedIsAccepted`. News: `ActsOnItsEntry`. Promotions: `LinesAndSheets`. Topic and promotions: `LoadsEnd` | 5 roles, 2 comments, 2 calls, 2 clicks, 1 act of others; 2 entries, 2 titles, 2 loads, 3 moves; 3 flights, 4 turns; 2 promotions, 4 moves |
| `storefront` | lot: `RowsTold`, `PicksStand`. Shelf: `FiltersSound`. Bell: `NotesTrue`, `KeepsPromise` | up to 3 rows, none included, 2 lengths; pages of 1, 4 steps; 2 users, 2 notes, 3 presses |
| `office` | press: `QueueHoldsSubmitted`, `TrustIsGiven`, `ArticlesApart`. Dialog: `FilesKept`. Stock: `RowsKept`. Threads: `TopicsShown`. Press, dialog, threads: `WaitingEnds` | 2 articles, 2 titles, 2 clicks, 3 acts; 3 images of which 2 fit, 2 videos and a link, 4 turns; 4 deeds; 2 flights, 3 rounds |

The types of `RateLimiter`, `Accounts`, `Forum`, `Catalog`, `Session`, `Bell`,
`Search`, `Desk` and `Press` are theorems and not run again; those of the other
pages are the first conjunct of the property of their run, and so of its theorem.

What they say, in words:

- `LinksProve`: whatever overlaps, an account of these operations is verified
  only for an address whose link was followed, unless that address is
  `overtaken`; and a link is spent once, unless it is `shared`.
  `SessionsOfPassword`: whatever overlaps, a session opened with a password was
  opened with the one its account has, unless its user was `outrun`. Links left
  over, mail that goes out late, changes that race a reset or a login that races
  anything else take nothing back. `LinksInHand`: no more links in hand than
  there can be requests.
- `NothingDangles`: threads are trees of comments of one topic, likes are of
  what exists, and no reply is shown without what it answers. `KeptAlone`: what
  staff hid only staff restores, and opens are counted, while requests do not
  overlap. `AnswersKept`: no answer is lost to a destruction; and while requests
  do not overlap, replies move to where the destroyed comment stood, an author
  hides nothing that is answered, and only what is hidden is destroyed.
- `ShownIsSession`: as long as calls come one at a time and are answered well,
  every form leaves the tab, the cookie and the backend agreeing on the visitor.
  `ConfirmedOnSight` needs no such condition. `FormsComeBack`: no form is busy
  for ever, and the tab learns who its visitor is.
- `PagesTrue`, `ArticleTrue`: a page that has taken all its answers shows
  what it would be given if it were loaded now, unless calls crossed or others
  wrote. `OfferedIsAccepted`: no button of a topic leads a visitor with a verified
  address to a refusal; another is refused for the address alone, and only for the
  buttons where the page does not ask for it (`Unasked`); and every comment is
  drawn under its own.
- `LinesOwned`, `LinesLeaveByAct`: whatever two tabs do to one draft, lines are
  their user's, and a line leaves only because its user removed it, emptied
  the draft, or got it sent.
- `QueueHoldsSubmitted`: what moderators find in the queue is what the author
  sent or what the staff have made of it since, and never what the author has
  changed since, though a request the form gave up may be carried out long after.
  `TrustIsGiven`: who publishes without a moderator has been published by one.
  `ArticlesApart`: one form makes one article, and no two share an address.
- `LinesAndSheets`: lines that are read for one promotion are not saved with
  another, however many savings overlap and fail half way; nor is a sheet that is
  chosen for one, except that a reset leaves the sheets in the form, and what
  was chosen before it goes with the new promotion made there next.
- `LinksHold`: the page behind a link finds in its own answers what the link
  was offered for, while nobody edits. `IndexFinds`: the filter by warehouse,
  which goes by what the service counted, never hides a stone whose links, which
  go by what the page has joined, say there is something.
- `PicksStand`: what a menu picks leaves something to show, though its items
  change, and the dialog opens at the row that was pressed. `RowsTold`,
  `FiltersSound`: a highlight is of an entry, the badge of a lot that has
  blocks agrees with its link (one without says "in stock" and has none), a
  filter holds only in the view it was picked in, and an empty view has a way
  out.
- `NotesTrue`: the bell shows the notes of whose answer it took, marked only
  when marked; `KeepsPromise`: it implements `Feed`. `SearchSound`: the search
  asks once, and finds what is there.
- `FilesKept`, `RowsKept`, `TopicsShown`: a file goes with the dialog it was
  chosen in and an edit loses no attachment; no product, and no lot that is
  changed, gets a row of another entry (a new lot does: it keeps the rows of the
  lot shown before); under a tab there are topics of that tab.

Why these bounds are enough for what is asked: a check-then-write goes wrong
between two requests, so two in progress suffice; whoever finished earlier has
left its rows behind and needs no slot. Two rows are needed for a clash
of slugs, addresses or nicknames, two stones for the further stone of a
product and for two of one name, two lots for a lot that hides another. Three
links let a user hold one while two requests issue. Three comments are a chain
with a middle that can be hidden or destroyed. On a page, one answer can
overtake one other, so two calls at a time suffice, and the bounds on clicks,
moves and turns leave room for: act, act again before the answer, leave, come
back, act. One act of others makes a page stale; a second makes it no staler.
Three images of which two fit reach the limit from both sides; a page size of
one reaches the end of a list of three.

Some runs begin in fewer states than the specification that the theorems are
about (`MCSpec` in their modules):

- stone pages: the first page is opened at any address but a section, one click
  leads on, and one change falls anywhere in between; catalogues are taken up to
  swapping the stones or their names, with at most three lots and products
  together (two where both stones have one name), and without the rows the
  first page does not read (`Distinct` in `MCStones`);
- topics: of two comments the second answers the first and one is the visitor's
  own; staff, verified or not, read a topic that is not theirs (`Typical` in
  `MCPages`); news
  begins with a table of each size, all of it published (`Tables`);
- articles: one that is liked is one that is commented on, and of the two roles
  of staff the one that can do more is taken;
- accounts, alone: three links with one session or two links with two; in
  races two links, of resets with one session or a third link, and nothing
  expires; letters: two links, one session, and up to the point where the address
  is overtaken, from where on nothing is promised of it; forum, races: two topics
  with one comment or one topic with two, all acts by the moderator.

What these leave out are other combinations of the same cases; the theorems are
stated without any of it.

## What the code does otherwise than it says

Three runs are expected to find a violation, each of one property that a test or
a message of the repository states:

- `accounts_race_address`: `verify_email` reads its link, `change_email` commits
  a new address, and the verification marks the new one verified
  (`services/auth.py:291`; tests/test_auth.py:276 expects a changed address to
  be unverified until its own link is followed).
- `forum_same_slug`: a topic takes the slug of a hidden one, which
  `slug_taken` and the partial index allow; lookups that include hidden topics
  expect one row and find two, so that staff can open, restore or destroy
  neither (`repositories/forum.py:78`; tests/test_forum.py:358).
- `catalog_restore`: a lot or a product is restored whether or not its stone is
  there, although a stone is not deleted while something is made of it
  (`services/catalog_admin.py:184`; `core/messages.py:61`).

Other things met while reading, which contradict no text precise enough for a
run, or are an ordinary price of READ COMMITTED:

- *Backend.* The docstring of the limiter calls its fixed window a sliding one
  (`core/rate_limit.py:14`), hence twice the limit in `TwoWindowsBound`. An author
  may hide a topic that is being answered (`services/forum.py:247`), author and
  moderator may both hide and the last decides who restores, opens of a topic at
  once count as one, a topic restored between the check and the deletion is
  destroyed alive. A login that read the old password commits after the reset
  (`outrun`); one link is spent by two requests (`shared`). Nothing asks a user
  of a sign-up with Yandex for a link. Of two edits of a product one names the
  stone the other removes.
- *Inquiry and catalogue.* Lines of a draft that have lost their shape in storage
  are kept by the form though `inquiry-draft.ts:42` filters them elsewhere. A
  lot without blocks is "В наличии" and offers no link to them (`block-utils.ts:67`;
  `block-utils.test.ts` expects the badge). Ranges
  with the service's multiplication signs are never parsed
  (`block-utils.ts:82`, `104`). Two stones of one name mix up lots and products.
  A stone of two lots of which the first by slug is sold out offers no link to
  blocks, while "К блоку" does. The filter by warehouse and the links go by
  different counts. Nothing leads to `/catalog/[id]/slabs` and `/tiles`. Spaces
  alone filter names but leave the reset disabled (`catalog-index.tsx:49`, `61`).
  A restored lot may be of a deleted stone, so that its page shows none.
- *Desks.* A new lot keeps the rows of the one shown before. A reset empties the
  form of a promotion but not its two sheet fields (`admin/promotions/page.tsx:287`),
  so that sheets chosen for one promotion go with the next new one. Staff may edit
  an article that waits for review (`services/articles.py:377`), and it stays in
  the queue (200): author and staff overwrite each other, as no save compares what
  it replaces. An answer to a save
  of news empties whatever is in the form by then; a double click creates two
  entries; restoring by address takes any entry that has it. An answer to the
  list of categories wipes what was typed in the dialog of a topic, and an answer
  to a like or a comment of the topic resets what was put into the dialog that
  edits it (`create-topic-modal.tsx:108`). The media desk
  shows the first owner and sends an empty one (`admin/media/page.tsx:91`).
- *Pages.* Author and staff of a topic are offered to edit, hide, restore and
  destroy whether or not their address is verified (`[slug]/page.tsx:35`,
  `comment-thread.tsx:200`), which the routes refuse (`core/deps.py:78`); a change of
  address makes such an author. The search, shut while it loads, never loads again. Notes of the last
  visitor stay in the bell until the next list. In the list of topics an
  overtaking answer leaves another tab's topics, an earlier failure's message
  hides a later success (`community/page.tsx:37`), and a topic created reloads
  the tab the dialog was drawn with. Pages of news, promotions and articles load
  for ever when they fail otherwise than by 404; the error page's reset asks for
  nothing anew. A heart tapped is lost when the card is drawn anew. On an article,
  text typed and a reply chosen while a comment is sent are wiped by its success,
  a draft offers a heart and a form that are refused, decisions need a note the
  page does not ask for, and of a quote only the first line is quoted. The list of
  articles keeps the previous list when a guest asks for favourites.

The properties are stated with these in mind: their conditions ("calm",
"overtaken", "while nobody edits", "unless the lot has no blocks") name just what
has to be excluded, so that a further case would be found.

## Proofs

Every invariant and every action property of a passing run is a theorem, and so
is the safety part of the refinement. Each holds for every value of the
constants that satisfies the named assumptions of its module. TLC evaluates
these on the instance of its run. They say

- that the value for absence is none of the others (of slots, rows, names,
  addresses, answers), and that kinds of rows and keys are disjoint;
- that what is counted is finite, that bounds are numbers, and that a page or a
  flight is at least one;
- what the types of the code say: that there are columns, groups and sorted
  values in some order, and that rows are counted, possibly none
  (`LotAssumption`), that the keys by which a group of
  custom products is filtered are keys of filters other than the search
  (`ShelfAssumption`; `ProductFilterKey` in `product-catalog.ts`), that a row of
  stock is not the absence of one (`StockAssumption`);
- what the service promises of its input to a page: that the files of a stored
  topic are within the limits it enforces itself (`Stored` in
  `ComposerAssumption`).

`OfficeAssumption`, `PagesAssumption` (in `MCPages` and in `MCStones`),
`StorefrontAssumption` and `VisitorAssumption` put together those of the parts of
a run; `LimitsAssumption`, `KeysAssumption`, `AccountsAssumption`,
`ForumAssumption`, `CatalogAssumption`, `SessionAssumption` and
`SearchAssumption` stand in their modules. The invariants were checked by TLC
before they were proved.

| Theorem | Says | Because |
| --- | --- | --- |
| `AccessProofs!LimiterTyped` | `LimiterTypeOK` | inductive as it stands |
| `AccessProofs!OvershootBounded` | `AttemptOvershoot` | inductive with `TypeOK`: a check passes only below the limit and moves a free request into flight, a hit moves one out of flight into the count |
| `AccessProofs!TwoWindowsHold` | `TwoWindowsBound` | `AllCounted`: the windows of a key do not overlap and none lets in more than the limit; a stretch of one window meets at most two of them (`TwoWindows`) |
| `AccessProofs!PromisesHold` | `PromiseKept` | `WaitsOut`: what is told, and a second more, is not less than the rest of the window (`WholeSeconds`), and only an admission touches the bucket meanwhile |
| `AccessProofs!SessionTyped` | `TypeOK` of `Session` | the types are a part of `SessionInv` |
| `AccessProofs!ShownIsOwner` | `ShownIsSession` | `SessionInv`: while calls come one at a time, the call under way is alone, it goes with the cookie that the browser holds, and its answer brings the visitor for whom its cookie will stand |
| `AccessProofs!ConfirmsOnSight` | `ConfirmedOnSight` | the panel says "confirmed" only after a verification that was answered well, whose user is verified, or where the context has just seen a verified visitor |
| `AccountsProofs!TypeCorrect` | `TypeOK` and `Owned` | a request refers only to rows that exist, and a uuid being registered is nobody else's; without this, typing is not inductive |
| `AccountsProofs!NeverRevives` | `NothingRevives` | no commit writes the state of a link or session but to end it or to fill an unused row |
| `AccountsProofs!LinksInHandBounded` | `LinksInHand` | `OnePerIssuer`: a slot that issues a link has captured every earlier one of its own (`IssuerCaptures`), so that links in hand map one-to-one into slots |
| `AccountsProofs!AddressesProved` | `LinksProve` | `AddressInv`: as long as the address of a user is not overtaken, its row is proved, and every link in hand, every mail still to go out and every accepted link carries the address that the account has (`AddressOf`); the commit that changes the address has captured every link of the old one. `SpentInv`: a link that no two requests held at once is spent by the one that holds it. Both with `LinksHandled`: what a request may know of its link |
| `AccountsProofs!PasswordsHold` | `SessionsOfPassword` | `PasswordInv`: as long as no login has outrun a reset, every login under way has read the password of the row, and a reset about to commit has captured every living session |
| `ForumProofs!TypeCorrect` | `TypeOK` | a row names who hid it exactly while it is hidden |
| `ForumProofs!ThreadsKept` | `ThreadsOK` | `Numbered` (a new comment is younger than all others) and `Loaded` (what a request holds may still become a parent or a child when it writes: of the same topic and older, or gone) |
| `ForumProofs!LikesKept` | `LikesOK` | a topic or comment that goes takes its likes with it, and a like is refused if what it is of has gone |
| `ForumProofs!NothingShownAlone` | `VisibleClosed` | what is below a reply is below what it replies to (`BelowBelow`), and `ThreadsOK` |
| `ForumProofs!NothingLeftDangling` | `NothingDangles` | the three before |
| `ForumProofs!StaffsWordStands` | `KeptAlone` | `SerialInv`: while no two requests have overlapped, what the one in progress has read is still so (`Timely`), and a row that staff has hidden names one of the staff (`Handled`), so that no author passes `MayRestore` |
| `ForumProofs!AnswersStay` | `AnswersKept` | whatever overlaps, `IInv`: only the two destructions take a comment (`OnlyTheseDestroy`), that of a topic takes its thread as a whole, that of a comment moves each reply (`Moves`); alone, `SerialInv`: the replies loaded are all there are |
| `CatalogProofs!TypeCorrect` | `TypeOK` of `Catalog` | `Fresh` and `Whole`: whoever creates a row sets its state and its slug |
| `CatalogProofs!SlugsStayUnique` | `SlugsUnique` | the index, seen from both rows |
| `CatalogProofs!ProductsKeepAStone` | `AlwaysLinked` | `Linking`: a request either brings stones or takes none away |
| `CatalogProofs!DeletionLooks` | `UsedStoneStays` | `Watching`: whatever uses a stone on its way to deletion was written meanwhile |
| `CatalogProofs!LinksKeepTheirWord` | `LinksHold` | `StonesInv`: what is served is of living stones (`Sound`), and as long as nobody edits each answer a page has is what is answered now (`Current`) and what the link promised is found where the page stands (`Keeps`): what a page joins to offer the link (`LinksKeep`), and to lead on from a stone to its lot (`BlockLotIs`), is there |
| `CatalogProofs!LinkedIsFound` | `IndexFinds` | `StonesInv`, and of stones with names of their own: what is joined by name is of that stone, so the service has counted it (`CountedLot`, `CountedMade`) |
| `OfficeProofs!TypeCorrect` | `TypeOK` of `Press` | a request carries values of the form, and what a page lists was a row |
| `OfficeProofs!TrustHolds` | `TrustIsGiven` | `TrustInv`: trust comes of a publication by the staff, the right never without trust |
| `OfficeProofs!QueueHolds` | `QueueHoldsSubmitted` | `QueueInv`: the same of removed articles, which a restore brings back to the queue; an edit by the author takes the article out of it, one by the staff is recorded in `submitted` |
| `OfficeProofs!ArticlesStayApart` | `ArticlesApart` | `SlugsApart`, because a title has more numbers than there are articles to take them (`SomeNumberFree`, by counting) and the least free one is chosen (`UniqueSlugFree`); and `FormInv`: a form that has been told of its article asks to change that one |
| `OfficeProofs!FilesAreKept` | `FilesKept` | `ComposerInv`: the files on their way are just those being uploaded, and so none of a stored topic or of a message sent; what is in the dialog and not of the topic was chosen in this showing; what stands is within the limits; what the topic had is in the dialog or was taken away; one message at most is sent, and only while the dialog is submitting |
| `OfficeProofs!RowsAreKept` | `RowsKept` | `StockInv`: a form on an entry has its rows as they were fetched, the first behind the fields it shows, the others in `rest`; each saving on its way was made of such a form (`SentFine`, from `BehindFirst`); the form of a new lot is exempt |
| `OfficeProofs!TopicsAreShown` | `TopicsShown` | `ThreadsInv`: each list on its way is of its tab; the last that was asked for, or what is shown when none is, is of the tab that is chosen unless answers crossed; the author chosen is in the list |
| `PagesProofs!TypeCorrect` | `TypeOK` of `Desk` | inductive as it stands |
| `PagesProofs!FormShowsItsLines` | `LinesBelong` | a list that is read, or a promotion that is fetched, is dropped unless the form still waits for it |
| `PagesProofs!SavedLinesBelong` | `PromotionsKeepLines` | `LinesInv`: each request of a saving carries the lines of the form it was sent from, also after an earlier one of it failed |
| `PagesProofs!SheetsStay` | `SheetsOfForm` and `PromotionsKeepSheets` | `SheetsInv`: a sheet in the form was chosen in this showing of it, or in the one reset just before a new promotion; what a saving carries was in the form it was sent from (`SheetsSent`) |
| `PagesProofs!LinesAndSheetsStay` | `LinesAndSheets` | the three before |
| `PagesProofs!PagesAreTrue` | `PagesTrue` | `TopicInv`: while calm at most one request is under way, and the page agrees with the service before it or will with its answer; `NewsInv`: a change is yet to be told, or the last load has read nothing stale, or the lists are the service's; `LikesInv`: the latest tap is shown and its answer on its way, or nothing was written since |
| `PagesProofs!ButtonsAndTree` | `OfferedIsAccepted` | where page and service agree, what offers each button is, case by case, what the service asks behind its route, and, but for `Unasked`, what the route asks before it; and every comment answers an earlier one, so that counting those before it finds the level it is drawn on |
| `PagesProofs!ActsOnEntries` | `ActsOnItsEntry` | `NewsInv`: a request carries an address and an entry that had it, and who is found by an address is one of those |
| `StorefrontProofs!TypeCorrect` | `TypeOK` of `Bell` | inductive as it stands |
| `StorefrontProofs!NothingOfAnother`, `MarksAreTrue`, `NotesAreTrue` | `NotesTrue`, in two parts and together | `BellInv`: a list on its way is marked with whose it is, and is shown only while that user is there |
| `StorefrontProofs!BellIsFeed` | the safety part of `KeepsPromise` | `OneList`: at most one list is on its way that may still be shown; with it every step of the bell is a step of `Feed` or leaves its variables alone, under the mapping `View`, `Whose` |
| `StorefrontProofs!FiltersAreSound` | `FiltersSound` | `ShelfInv`: a filter is of the view it was picked in; an option finds the product it was collected from, because `Matches` and `FilterValues` read the same values (`OptionFinds`); what hides everything is a filter that the reset sees (`WayOut`) |
| `StorefrontProofs!RowsAreTold` | `RowsTold` | `LotInv`: an open menu highlights an entry, the filters leave a row where there is one, the row enlarged is shown; the counts of the statuses share out the rows (`StatusAgrees`), and finitely many numbers have a least and a greatest (`RangeIs`) |
| `StorefrontProofs!PicksAlwaysStand` | `PicksStand` | a row that the other filters leave and that has the value picked has every value picked, so that nothing is dropped (`NothingDropped`) |
| `VisitorProofs!TypeCorrect` | `TypeOK` of `Search` | inductive as it stands |
| `VisitorProofs!AsksOnce`, `FindsWhatIsThere`, `SearchIsSound` | `SearchSound`, in two parts and together | `SearchInv`: what was asked is awaited, was shut or has failed, and lists come together |
| `VisitorProofs!LinesAreOwned` | `LinesOwned` | `InquiryInv`: where lines wait, in drafts, forms, tabs and requests, only their user has put them, a form away from the contacts page holds none, a request under way carries only lines that its user asked for, and the lines attached and waiting are never more than were asked (`Counted`) |
| `VisitorProofs!LinesLeaveOnlyByAct` | `LinesLeaveByAct` | every other act that writes a draft writes what is stored and more (`LeavesByAct`), which needs `InquiryInv` |
| `VisitorProofs!ArticleIsTrue` | `ArticleTrue` | `ReaderInv`: as long as nothing was lost and nobody interfered, a load is still to come, or the last of the answers under way, taken in the order the service gave them, is what is there (`Comes`: by the last load for the thread, by the last answer that has one for the heart); loads are no longer than what is there and do not shrink in that order (`InOrder`, `NoLonger`), so that a quoted comment is not lost to them (`InTurn`) |

Each proof has the same shape: the initial states, then one step per action under
the strengthened invariant, then a last step by temporal logic. Operators of a
module that the steps share have lemmas of their own (what an issued link, a
hidden row, a renamed article may be).

The proof of `AnswersKept` changed what it says. That a reply always moves to
where the destroyed comment stands holds on the instance of the run, whose races
have two comments, but it is not so in general: with five comments in a chain
overlapping destructions, two at a time, can leave a comment moved by a request that
read its place before another had moved it, and its replies then go where it no
longer stands. What holds for any number of requests is that no reply is lost
and that each goes to the place its request has read, or to the root; the place
itself is claimed only while requests do not overlap.

Only model-checked: liveness under fairness (`FormsComeBack`, `LoadsEnd`,
`WaitingEnds` and the liveness of `KeepsPromise`), which with `ENABLED` is out of
reach of the provers. The library's theorems of induction are too; where a proof
needs one it takes a least counterexample instead (`LeastIs`, from the order of
the naturals being well-founded), as for the levels on which a topic's comments
are drawn. What the code works out by a loop is stated, where it can be, as the
set or the function it amounts to: what is below a reply, what a pruning of
filters drops.

## Fairness and liveness

The backend's modules state no fairness. Nothing in it runs by itself: there is
no worker, no queue, no retry. A request ends because its client and the
database keep going, and the code gives no promise when either does not; the only
waits are row locks, taken by one statement at a time and released at the end
of the request.

The pages state weak fairness of answers and failures only: browser and network
end every request somehow, and the handler that awaits it then runs.

| Module | Weakly fair | What follows |
| --- | --- | --- |
| `Session` | a call is refused, or answered | `FormsComeBack` of `session` |
| `Inquiry` | a send succeeds or fails | `FormsComeBack` of `visitor` |
| `Topic` | a call is answered or fails | `LoadEnds` in `LoadsEnd` |
| `Desk` | a sheet that is being read is read (`Imported`, well or not) | `ReadingEnds` in `LoadsEnd` |
| `Press` | `Serve`, `Return`, `Fail`, `Refresh` | `RunEnds` in `WaitingEnds` |
| `Composer` | each upload ends | `UploadsEnd` in `WaitingEnds` |
| `Threads` | the oldest load is served, and answered or fails | `ListComes` in `WaitingEnds` |
| `Bell` | a list is served, and answered | `KeepsPromise` |

Visitors, editors and whoever else writes owe nothing: no action of theirs is
fair. `Reader`, `News`, `Likes`, `Search`, `Stock`, `Lot`, `Shelf` and `Stones`
state no fairness: either they wait for nothing, or what they wait for may be
dropped for good by design of the page (a list that failed is not asked again
until somebody presses), so that nothing is promised.

## What is not modelled

Of the parts that are modelled:

- texts, names, prices, pictures and the layout of answers: no property is
  about them, and validation that only rejects input is left out with them;
- the edits of topics and comments (`update_post`, `update_comment`) in the
  backend, which change texts only; items of lots and products;
- who may call an administrator's route, which a dependency checks before the
  operation; the forum's distinction of staff, author and others is modelled,
  because its rules depend on it;
- statements of one operation between which no other request could change
  anything for it: they are one step. Where the gap matters (limiter, links,
  sessions, answers, dependents, `product_stones`) it is two;
- the lock an early flush takes in the catalogue: without it the module allows
  more interleavings than the code, never fewer;
- in the pages, the old page kept while a new one is being fetched, pictures and
  layout, and the overlap of requests of one page within the backend.

Parts without a module, and what can go wrong there:

- Media: `services/media.py` writes an object store beside the rows of a
  transaction, and deletes from it after the commit (485). Two uploads of one
  avatar may each find the same one to replace (498), one upload is attached to
  two topics between the check and the commit (570), and an object is dropped as
  an orphan while somebody links it (602).
- Sign-in with Yandex: a sign-up inserts a user whose address counts as verified
  (`services/yandex_auth.py:252`), which `Accounts` has no action for. A state is looked up unused and marked used in a later
  commit (`services/yandex_auth.py:147`), and an identity is linked by two
  accounts at once, of which the unique index refuses one (308).
- Promotion lines: two savings replace all of them at once
  (`services/promotion_offers.py:88`), and a publication brings a product back
  that somebody deleted (315) and labels its items apart from those it has
  read (361).
- Roles: administrators are counted before one is demoted (`admin_users.py:54`).
- Articles within the backend: two decisions overlap (`services/articles.py:253`),
  an edit overlaps a decision (181).
- Pages: a draft saved while the page is being published is published or not,
  by the order of the reads (`services/pages.py:450`).
- Static data, the selection of stones, the desk's pages for media, pages and
  users, the list of articles, audit, offer sheets, embedded video, health,
  schema, seeds and deployment: no state that changes, or a list that is loaded
  and acted on as in `Press`, `News` and `Threads`.

## Plan

In this order:

1. Media: the upload from presign to link over both stores.
2. The OAuth state of Yandex with `Accounts`, promotion lines with `Catalog`,
   Roles, overlapping requests of articles.
