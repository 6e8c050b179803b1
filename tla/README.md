# A verification project for the nginx authentication server

The program is a FastCGI server that answers nginx's `auth_request`
sub-requests and runs the login that goes with them: a visitor without a token
is sent to a login page, from there to Microsoft's OpenID Connect provider,
comes back with an authorisation code, and gets an `auth` cookie with the id
token that the code was exchanged for. The modules in this directory model the
part of the program that decides who gets in and where they land; TLC checks
them on small instances and TLAPS proves the main safety properties for every
value of the constants.

Paths below are relative to the repository's root.

## 1. The system

### 1.1 Parts, state and operations

| Part | Source | State it keeps | Operations |
|---|---|---|---|
| key store | `src/JWKSVerifierStore.cpp`, loaded by `appsrc/auth.cpp` | `verifiers_` (key id to verifier), `last_fetch_time_`, the backing file `conf/microsoft.jwks.json` and its mtime | load at start-up, `verify_jwt`, `find_verifier` with its refresh (download, save, parse, add) |
| code exchange cache | `get_tokens_from_microsoft` in `src/appauth.cpp` | `g_codes_to_jwts` (code to token and `expires_at`) | hit, miss with POST, sweep of what has expired |
| HTTP client | `src/httpclient.c` | the receive buffer of one call, and what it has allocated | `http_post`, `write_callback`, `http_response_free` |
| login state argument | `process_login_page_*`, `process_code_response`, `src/openidconnect.c` | none: the state travels through the browser and is made verifiable by a hash | make, verify, cut up |
| request handling | `appsrc/auth.cpp`, `src/appauth.cpp`, `src/application.cpp`, `src/jwtinterface.cpp` | the FastCGI request being served | the accept loop, the router, and the handlers of login, logout, verify, call-back, direct token, debug |
| cookies | `src/HTTPUtils.cpp` | the Cookie header, cut up in place | `parse_cookies`, `get_cookie`, `restore_cookies` |
| paths | `src/HTTPUtils.cpp`, `appauth_parse_first_number` | none | `parse_path`, `consume_read`, `parse_first_number` |
| form decoder | `src/formdecoder.c`, `src/formdecoder_fastcgi.c` | a chain of fields, temporary files | multipart and urlencoded bodies, piece by piece |
| content disposition | `src/contentdisposition.c`, `src/quotedstringparser.c` | none | attribute look-up, quoted strings |
| authorisation database | `src/application.cpp`, `appauth_parse_first_number` | one SQLite file that processes share | set-up when there is no file, look-up by user and group |
| page templates | `src/simpletemplate.hpp`, `src/application.cpp` | the page after its first rendering | substitution of variables, twice for the login page |
| hash | `src/minisha256.c` | the context of one message | init, update, final |
| file manager | `src/appfileman.cpp`, `appsrc/filemannospawn.cpp` | its own request, SQLite | a second, experimental FastCGI program |
| the rest | `src/errorinfo.c`, `appsrc/*_creator.cpp`, `testsrc/`, `htdocs/` | | messages, command line tools, tests, pages |

### 1.2 How they interact

The server is one process with one thread, and serves one request at a time:
`FCGX_InitRequest`, `FCGX_Accept_r`, the router, the handler, `FCGX_Finish_r`.
A handler calls the code cache (call-back only), which may wait for the
provider's token end point, and the key store, which may wait for the
provider's JWKS document and writes its backing file. Both waits hold up every
other request. libcurl calls back into `write_callback` while a POST is under
way. The cookie header is parsed before the router runs. A site's hook takes
the group of a page from its path and asks the database. Nothing is shared
between threads; what is concurrent is the world outside: the provider rotates
keys and redeems codes, the browser repeats requests, files age, the process is
killed and restarted, and another process is started on the same database.

### 1.3 What is hard

* **Crashes and torn files.** The backing file is written in place, before
  anybody parsed what is written, and read at the next start by a parser whose
  errors are not looked at. The cache is in memory only.
* **Partial failure.** A refresh can fail in the download, in the save, or in
  the middle of adding keys (an exception thrown after some are in).
* **Staleness and time.** A throttle measured from a clock that has three
  sources (the file's mtime, the epoch, nothing); cache entries past their
  `expires_at`; keys the provider has replaced under a known key id.
* **Repetition.** A browser repeats a call-back whose code was redeemed; the
  provider's answer is lost after it redeemed the code.
* **Protocol.** Every accepted connection has to be finished once, with one
  answer, on every path of every handler.
* **In-place parsing.** The state argument and the Cookie header are cut up in
  the buffers they arrive in.
* **Several processes on one file.** The database is set up, statement by
  statement, by whoever found no file; others may have found none at the same
  time, or find one that is not complete.
* **Pieces of any size.** Answers and forms arrive in pieces against a limit.
* **Boundaries.** Numbers at the widths of `int` and `long`, escapes and
  segments at the end of a path, the last bytes of a hash block.
* **Headers in any order.** A posted form is taken apart by callbacks; what
  each may rely on depends on the headers the browser sent before.

`PROJECT.json` lists each of these hazards at its line, with the properties
that cover it.

### 1.4 What makes each part correct

* *Key store*: trusted keys come from the provider, and after a save that was
  cut short inside an entry from what was left of one of its entries, and from
  nowhere else; a token is accepted only under such a key; memory never knows
  less of the provider's key ids than the file; known keys are stable; a refused
  key id is learnt in the end; the throttle has a basis in the file's age.
* *Code cache*: a repeated call-back is answered while the entry lives; a
  redeemed code is taken to the provider again only for a reason; every
  exchange ends.
* *State argument*: the server never refuses its own; the browser lands where
  it asked to.
* *Request handling*: the cookie is set to genuine tokens only; a call-back that
  has signed a browser in does so again when it is repeated; one that fails has
  a reason; every connection is finished.
* *Cookies*: no access outside the header or the array; only separators are
  overwritten; a list of pairs is parsed into these pairs; restoring undoes
  parsing.
* *HTTP client*: an answer comes back whole or not at all, in whatever pieces;
  whichever step fails, what was allocated is freed but for the headers.
* *Exchange over the client*: a cached token is the provider's for that very
  code, whole.
* *Database*: no member is ever lost, and a process that serves has its table,
  but for two named accidents; admission follows the members.
* *Paths*: segments are the decoded texts between slashes; the two parsers of a
  group's number agree.
* *Content disposition*: the attribute that is asked for is found whatever the
  values hold.
* *Templates*: the two renderings of a page amount to one.
* *Hash*: the blocks are the message and its padding, at every length.
* *Form decoder*: its context leaves no temporary file and no descriptor
  behind; a descriptor is closed once, by its owner; a form that is handed out
  is whole.

## 2. Modules

```
KeyNames <-- KeyRing, JWKSStore, AuthService
KeyRing  <---- implements ----  JWKSStore  <-- MCJWKSStore, MCThrottle
   ^                                ^--------- JWKSStoreProofs
   | INSTANCE
AuthService -- EXTENDS --> CodeCache <--- implements --- TokenExchange
   ^                           ^                           |  ^--- MCTokenExchange
   +-- MCAuthService           +-- CodeCacheProofs         |  +--- TokenExchangeProofs
   +-- AuthServiceProofs                    HttpClient <---+ EXTENDS
FormDecoder <-- MCFormDecoder, FormDecoderProofs
PathNumber <-- Database <-- MCDatabase
   ^---------- Paths <------+
Cookies, LoginState <-------+
ContentDisposition <--------+-- MCText
Template, Sha256 <----------+
Cookies <-- CookiesProofs
Database, Paths <-- DatabaseProofs
LoginState, ContentDisposition, Template, Sha256 <-- TextProofs
```

Every module is parameterised by CONSTANTS with named assumptions. Definitions
keep the source's names; `PROJECT.json` maps each to its lines. Some modules
hold faulty variants of an action or an operator next to the true one, such as
`get_tokens_hit_without_renewal`. No specification uses them: each says what
plausible mistake in the code a property would find, and `PROJECT.json`
("mutants") names the property that finds it.

### KeyNames

The names that the other modules speak of: the key ids and keys of the
provider, and one of each that a torn file can make up. `CutKid` is the
beginning of a key id and `CutKey` the key that the beginning of a key's text
says. Both are taken by `add_key_from_json_object` like any others: it looks at
types and builds a verifier from whatever text there is. No key id of the
provider is the beginning of another, which is an assumption on the provider;
that all beginnings of key ids, and all beginnings of keys, are one value each
makes the models accept more tokens than the program would.

### KeyRing

What callers of the key store may rely on: at most one key per key id, entries
only added while the process runs, every entry added then published by the
provider, and a verdict that follows from the ring. A process starts with
published entries or with what a torn write left of one (`LeftOver`), which
needs that one has happened (`torn`, a history variable). It knows nothing of
files, downloads or clocks.

### JWKSStore

`verifiers` is `verifiers_`, `fetchAge` the hours since `last_fetch_time_`,
`backingFile` and `fileAge` the file and its age. `main` is the start-up code;
`find_verifier_known`, `_too_soon` and `_refresh` are the three ways
`find_verifier` begins. A refresh is cut where the outside can act: while the
download runs (`fetch_jwks_json_*`), while the file is written
(`save_backing_file*`) and before the keys are added
(`add_jwks_verifiers_from_string*`). `Crash` may happen at each point; during
the save it leaves the old file, the whole new one or any torn version of it.

A document is abstracted to the way the parser takes it and the keys it yields:
`jwks` when it is taken without complaint, `throws` when an entry that is no
object ends the adding half-way, `missing` for no file. A document of which only
a beginning was written (`Torn`) has lost some entries and, at most, been cut
inside one, the last: then its key was cut (`CutKey` under the same key id), or
its key id was, in an entry whose fields end with it (the same key under
`CutKid`). That any subset of the other entries may be left stands for the
orders in which a document can list them. picojson keeps what it had built when
the text ends and nobody looks at the result of the parse, so the next start
trusts what is there.

A token is abstracted to the key id it names and the key that signed it. A cut
key may have signed one: the verifier is a live one.

Undefined behaviour is a choice: a document without `"keys"` dereferences
`end()`, which is taken as "no keys" or as the end of the process.
The expiry of tokens is left out: the verifier allows a leeway of several
years, and the rest of the code does not depend on it.

What the properties do not say. `Provenance` and `AcceptedTokensWereIssued`
bound what a torn save can do and do not exclude it. `KnownKeysStable` says that
a key which the provider has replaced stays trusted until the process ends:
this is the code's `try_emplace`, and a property that asked for the opposite
would fail. `FetchClockFollowsFile` allows a throttle that is off, as it is after
every completed download; that this is wrong is what `throttle` shows.

### CodeCache

`cache` and `life` are `g_codes_to_jwts` and the time until `expires_at`;
`get_tokens_hit` serves and renews an entry, also one past its time, as
expired entries are swept on misses only; `get_tokens_miss` sweeps and POSTs;
the POST ends in a token, in a document without one, or in a failure that may
have lost the token. The provider's rule that a code is redeemed once is an
external assumption, and is why the cache exists. `mislaid`, `expired` and
`sinceAnswer` are history variables.

### HttpClient and TokenExchange

HttpClient is one call of `http_post`. `doing` says whether it is under way,
has returned 0 or has returned -1; `sent` is the body as the server sends it,
`taken` how much of it `write_callback` has seen, `buffer` is `ResponseBuffer`
and later `response->data`, and `held` is what the call has allocated and
nobody has freed (the handle, the list of headers, the text of the header, the
body, the content type). libcurl is external: it hands over pieces of any size,
gives up when the callback returns less than the piece, and knows the length of
the body, so that a broken connection is an error.

TokenExchange joins it with CodeCache, which knows an exchange only as
something that ends in a token, in no token or in a failure: `Miss` starts a
POST, `Performing` is libcurl at work, `TokenTaken`, `NoTokenTaken` and
`NothingTaken` are what `get_tokens_from_microsoft` does with the outcome.
`token` is the `value` of a cache entry, and `given` a history of what the
provider gave for which code. A body that is parsed is one of `TokenBodies`,
each of which stands for its token; one may be the beginning of another, so
that a body cut short would be a different token. The JSON library is external.

### LoginState

The return path through login form, state argument and call-back. Strings are
sequences of characters of which only `/` and `.` matter; the hash is a
constant operator whose digits are not dots; nothing else of it is assumed.
The cut at the second last dot, the test for a path on this site and the test
`redirect_to_len > 4` are as in the code.

### AuthService

All endpoints, over KeyRing and CodeCache. A handler that waits for nobody is
one step; the others are cut at the wait (`pc` is `"exchange"` or `"verify"`).
`replies` holds the `Status:` lines of the current response, `open` the
accepted connections that are not finished, `granted` the tokens that were
sent in a `Set-Cookie`. The router's comparison of method and `PATH_INFO` is
abstracted to the endpoint. How the arguments of a request fare (a form that
decodes, a state that verifies) is part of the request, as LoginState and
FormDecoder are about that. `HookPresent` says whether the build has
the authorisation hook; the hook may then refuse any user.

A token has one of four forms (`Forms`), and the provider may give any of them
for a code: `get_tokens_from_microsoft` keeps whatever string is called an id
token. A missing claim that is read *after* the verification makes
`verify_jwks_authentication_jwt` throw `std::out_of_range`, which is a
`std::logic_error` that neither handler catches, and the process ends: a request
that would get there has no answer (`Unreturned`) and is followed by a `Stop`.
One that is read before ends the process as the request arrives, also a `Stop`.

A request has one token, the one its endpoint takes. The gate takes the first
`auth` cookie of the header and the login page the last, so that one browser
may present them two tokens; the model has these as requests of their own, and
nothing is claimed of what a browser with two such cookies goes through (see
section 5). `SaveTorn` is the write of the key store's backing file that was cut
short while a request waited for a key, which a later `Start` may read.

`signedIn` is a history of the codes that this process has answered with a
cookie. `ReloadSignsInAgain` says of them that a repeated call-back is answered
with another 302, unless the token was dropped from the cache: between the two,
keys are published, the store refreshes or fails to, other codes sweep the
cache, and the key that signed may be one that only this process still knows.
The tokens' own expiry is not modelled here either. `ConnectionsAccounted` sets
apart the forms that were dropped without an answer (`dropped`), and shows that
no other path of any handler leaves a connection open.

### Cookies

`parse_cookies` and `restore_cookies`, one step per turn of a loop, over a
buffer of characters with a terminator. A pointer is an index. The model keeps
the scan for `=` that runs past a `;` when a segment has no `=`, the count of
the first pass that bounds the second, and the order in which `restore_cookies`
puts separators back. The four kinds of white space are one character.

### FormDecoder

One form: the method and content type choose between the two read loops, and
`phase` says where the decoding is. For a multipart body an action is one
callback: `header_*` are the cases of a header (with a name, with a file name
only, a type before any disposition), `element_begin`, `element_chunk` and
`element_end` a part's body in pieces of any size. `fields` is the chain of
fields, `current` the index of `current_field`, `gathered` the bytes of
`current_field_data`. A temporary file and the descriptor it was opened with
are one value; `descriptors` and `disk` say what of it there still is, and
`content` what was written. `body` is a history of what the parser called back
with, `orphans` of the files that a field was made to forget. `mkstemp` and
`write` may fail. For an urlencoded body only its size matters.

The MIME parser is external (a sub-project whose source is not here). From the
way it is used the model takes that it calls back for the headers of a part,
then for its body; that it stops at the first callback that is not 0; that it
may break off anywhere (`stream_fails`); and that it does not finish well in
the middle of a part (`stream_ends`). Memory always suffices.

A Content-Type header before any Content-Disposition goes through a null
pointer: the process ends, and nothing is promised of its files.

### PathNumber and Paths

PathNumber is `appauth_parse_first_number`: the text after the n-th slash must
be digits up to the next one, and must fit in a `long` (`strtol`, `errno`) and
in an `int`. Paths is `parse_path` with `append_percent_decoded`, `get_idx` and
`consume_read` of an `int`. A parsed path is its storage and the ranges in it,
as in the code; an operator that can fail returns a set, empty on failure. The
base of digits and of escapes is a parameter.

### Database

One SQLite file and the processes that use it. `database_init_looks`,
`database_init_opens` and the statements (`drop_users`, `create_users`,
`drop_and_create_groups`, `initdb_statements`) are the steps of
`application_database_init`; `application_check_authorisation` is the query,
and `GroupOf` the hook of a site, which is external and calls
`appauth_parse_first_number`. A statement is atomic, and may throw, which ends
the process, as may anything else (`ServerEnds`). `AddMember` is the operator.
`members`, `drops`, `interrupted` and `verdict` are history variables. The
table `groups` is created but never read, so its contents are left out.

### ContentDisposition

`find_attribute_value` and `qsp_append_to_dynstring`, character by character,
over headers written by a browser (external: `Written`, `Protected`). What is
asked is whether the look-up undoes the writing. A browser here protects a
quote with a backslash, which is what the parser undoes. Browsers that follow
WHATWG write `%22` instead: to the parser that is an ordinary run of
characters, which it leaves encoded, and no property is about it.

### Template

`Render` with `Trim` and `IsValidVariableName`, and the two renderings of the
login page: the site's variables when the page is loaded, those of the request
later, in what came of the first. The assumption `TemplateAssumption` says what
is needed of the site's texts: that they do not hold or complete markup.
Values of a request may be anything.

### Sha256

How a message becomes blocks. The compression function is represented by the
sequence of blocks it is given. `SHA256_Init` leaves the context's buffer as it
was, so it holds any sequence of `OldBytes`, a parameter: TLC takes two bytes
that occur in no padding, in every arrangement, and the theorem holds for every
set of bytes. Block and length sizes are parameters.

### MCText

Cookies, LoginState, Paths, ContentDisposition, Template and Sha256 share no
state, and most of them have no behaviour beyond a call. One module checks
them: `job` picks the part that is at work, and the others stay idle. This is a
sum of models, not an interaction.

## 3. Runs

| Run | Config | Distinct states | What it shows |
|---|---|---|---|
| `keystore` | `MCJWKSStore.cfg` | 932,785 (with symmetry) | safety of the key store through torn saves and restarts, and that it implements KeyRing |
| `keystore_live` | `MCJWKSStoreLive.cfg` | 107,058 | `LockoutEnds`: a published key id is learnt in the end; the throttle's clock is the file's age or off |
| `exchange` | `MCTokenExchange.cfg` | 13,295 | reloads work, codes are repeated only for a reason, answers and cached tokens are whole, calls leave only headers behind, every exchange ends |
| `service` | `MCAuthService.cfg` | 593,352 | cookies are genuine, connections are accounted for |
| `service_codes` | `MCAuthServiceCodes.cfg` | 663,564 | a call-back fails with 500 only for a reason; one that has signed in signs in again |
| `formdecoder` | `MCFormDecoder.cfg` | 53,247 (with symmetry) | files are closed and removed however a form ends; what is handed out is whole |
| `text` | `MCText.cfg` | 257,788 | cookie headers are parsed and restored; own states verify and land where asked; segments, numbers, attributes, pages and hash blocks are what they should be |
| `authorisation` | `MCDatabase.cfg` | 101,639 (with symmetry) | rows and tables survive starts, failures and restarts; who is admitted is who was entered |
| `throttle` | `MCThrottle.cfg` | violation | finding 1 |
| `gate` | `MCGate.cfg` | violation | finding 2 |
| `login_page` | `MCLoginPage.cfg` | violation | finding 3 |
| `bearer` | `MCBearer.cfg` | violation | finding 4 |

Deadlock is checked everywhere but in `text` and `formdecoder`, where the
program is a function that returns.

### Bounds

* `RefetchHours` = 2 for 24 hours in `keystore_live` and `throttle`. Ages
  saturate at the bound, and the code only compares them with it: with 2 there
  is a fresh age, one between, and one that is old enough. `keystore` has 1
  (fresh or old enough), as its properties are about keys and not about clocks:
  what matters is that a refresh is refused or not.
* Two key ids and two keys, a cut key id and a cut key: a known and an unknown
  key id in one document, two keys that compete for one key id, and an entry
  cut short beside a whole one. In `keystore_live` one key is enough, as the
  property is about key ids.
* `EntryLife` = 3 and `PostTimeout` = 2 steps of ten seconds are the code's
  30 s and 20 s. Two codes: one that is posted while the other is in the cache
  or expires.
* `MaxResponse` = 2 and bodies of up to three bytes: shorter than the limit,
  exactly at it, and one over, in one piece, two or three. One token's body is
  the beginning of the next one's.
* Tokens: in `service` each form for one key, which may be published or not, and
  tokens that name the cut key id or were signed by the cut key, with one code
  of a short life (`EntryLife` = 2, `PostTimeout` = 1). `service_codes` has two
  codes, so that the sweep for one drops another, the code's 30 s and 20 s, and
  tokens that sign in, that name nobody and that do not decode. `gate`,
  `login_page` and `bearer` have two keys, one of which may never be published.
* `MaxDropped` = 1: one connection that was left open, which suffices to tell
  `open` from the number of waits. It bounds a guard of the undecodable form
  only.
* Return paths of up to five characters: the code tells lengths up to 4 from
  longer ones, and five characters hold every arrangement of dots and slashes
  that `truncate_at_second_last_dot` and the test for this site look at. The
  theorems have no such bound.
* Paths of up to six characters, digits and escapes in base two, and `IntMax` =
  `LongMax` = 2: with two widths that are the same, `strtol` saturates exactly
  where the number would have to be refused. `authorisation` has the other case
  (`IntMax` = 3, `LongMax` = 31, base three, numbers beyond both).
* Content dispositions of a type and up to two attributes, with values of up to
  two characters out of quote, backslash, `;`, `=`, space and a letter: a value
  that ends in a backslash or a quote, and an attribute after it.
* Templates of up to four pieces, with known, unknown and malformed expressions
  and every fragment of markup; values that are markup, half of one, or empty.
* Blocks of four bytes, two of them for the length, and messages of up to nine
  bytes: every remainder, twice.
* Two processes, two users, one group and the group that sees everything: two
  processes suffice for one that drops what another has set up, and the
  theorems hold of any number. `drops` is counted to two.
* Cookie headers of up to six characters over two letters, space, `=` and `;`:
  two pairs with a separator and a blank or a malformed segment between.
  `InsideTheHeader` and `SeparatorsOnly` have no such bound.
* Forms of up to three parts with bodies of up to two bytes (`MaxFields`,
  `MaxBody`): a part that is done, one in progress and one to come; a body in
  one piece or two. Three files, so that a field can be given a second one
  beside another's, or find none left. Urlencoded bodies up to one byte over
  a limit of three (`MaxSize`), as `read_piece` reads any number of bytes.
  The theorems hold for every value of these.

### Fairness

Safety runs assume none. `keystore_live` and `exchange` assume:

* the clock runs (`Tick`, `CacheTick`);
* `CURLOPT_TIMEOUT` ends a POST (`PostReturns /\ TimedOut`,
  `TimedOut /\ perform_fails`): the code sets it to 20 s;
* the server's own next step is taken (`Save`, `Add`,
  `TokenTaken \/ NoTokenTaken \/ NothingTaken`): there is one thread and it does
  not block there;
* in `keystore_live`, a download of the JWKS document ends (`FetchReturns`).
  **The code sets no timeout on it**: this is an assumption on the network, and
  without it a request can wait for ever. For that reason nothing is promised
  anywhere of how long a request waits for a key, and AuthService states no
  fairness;
* for `LockoutEnds`, strong fairness of an intact answer and of requests with
  every key id: the provider's document arrives again and again if it is asked
  for again and again, and users keep coming. Nothing is assumed of broken
  documents, failed saves or restarts, but the property is about behaviours
  where the process stays up in the end.

## 4. Proofs

tlapm checks all proofs with Z3, Zenon and LS4. The assumptions are the named
ASSUMEs of the modules: constants are distinct where the code tells them
apart, bounds are natural numbers, hash digits and times hold no dot, digits
are no slash and no minus sign, and headers, paths, templates and names are
sequences of strings, the characters. What a browser sends unquoted in a
content disposition has none of the marks that the decoder looks for
(`AttributesAssumption`). No digit of an escape is a slash or a per cent sign
(`HexDigitsAssumption`), and there is a character for every pair of them
(`CharOfAssumption`).

Loops over texts are proved by induction all the same. The library's induction
theorems cannot be used, so `LeastNatural` (a set of naturals that is not
empty has a least element) is derived from `WFMin` and
`NatLessThanWellFounded`, `SetInduction` and `Descending` follow from it, and
an induction is stated as what a set of numbers has for members. A model's
recursive function is a CHOOSE, of which nothing is known until a function that
satisfies its equation exists: `Recursion` gives one for every equation that
looks ahead, at later places of a text only (`LooksAhead`), and
`ValueExists` and `StoresExists` for two that look back.

**JWKSStoreProofs.** `IInv` strengthens the five safety invariants of the runs.
`AcceptedTokensWereIssued` alone is not inductive: it needs `Provenance` of
every place a key can come from (map, file, body in flight), which needs what a
torn document can hold: entries of the whole one (`PartsAre`) and at most one
that was cut (`CutPartsAre`), so that every entry still has a source
(`TornSource`) and every key id of the provider in it is one of the whole
(`TornCovers`). A source is never lost, as histories only grow (`SourceKept`).
`MemoryCoversFile` needs `FileIsCovered`: while a refresh is under way the
file is covered by the map or is (a part of) the body about to be added.
`FetchClockFollowsFile` needs `ClockFollows`: a refresh runs only while it is
due, so the file may become young under it without the clock being wrong.
From `IInv` follow all five, the action property `KnownKeysStable`, and
`Implementation`: `Spec => ImplementsKeyRing`, step by step, under the mapping
`up <- pc # "down", ring <- verifiers`; a save that is cut short inside an entry
maps to KeyRing's `Tear`, or to its `Stop` if the process ends over it.

**CodeCacheProofs.** `CacheInv` adds to the type invariant that an entry's
life and the time since the last answer add up (`LifeMatchesAnswer`), and that
a spent code is in the cache, mislaid or expired (`NoTokenVanishes`).

**TokenExchangeProofs.** `ImplementsCodeCache` says that the exchange over the
HTTP client implements CodeCache, so that its two safety properties carry over
without another induction. `ExchangeInv` adds that the buffer is the beginning
of what the server sends that `write_callback` has seen (`Received`, by
`TakeMore`), what is allocated at each point (`Allocated`), and that a token's
body on its way is the one given for the code that is posted
(`TokensInOrder`). The last needs that a code that is posted has no entry,
which comes from `CacheInv`: otherwise a second answer could change what was
given for a token that is already kept.

**DatabaseProofs.** `MembersKept` is not inductive: `DropsCounted` adds that
before the first drop nobody is on the way to drop a table that exists, as
`initialise_database` is set only while there is no file. `TablesWhenServing`
needs `TableOnItsWay`: if the table is missing while a process is past
creating it, then another has dropped it and is about to create it, or ended
before it did. Both hold for any number of processes. `VerdictsFollowMembers`
follows from `MembersKept` and from what the number in a path is
(`GroupIsSaid`): digits say a natural number (`NumeralIsNat`), no two places of
a path come after as many slashes (`OneComponent`), and the rows that the
statement counts are the user's for that group or for everything
(`CountsMembers`).

`GroupCheckedIsGroupRead` compares two ways through one path. `ComponentIs` and
`OneEnd` say where a component ends, the trimmed path included
(`TrimmedComponent`). `SegmentsFound` goes back from the end of the path:
after a slash, the segments that `parse_path` has yet to find are, in their
order, the components that `appauth_parse_first_number` finds for each greater
number of slashes (`Agrees`), and where it has no more there is none or an
empty one. Segments without escapes are their own decoding (`PlainDecoded`) and
lie in the storage where their ranges say (`Kept`, which `PushKeeps`); and on
one text `from_chars` and `strtol` read the same positive numbers
(`BothRead`), because a number that fits in an `int` fits in a `long` and a
minus sign is no digit.

`SegmentsExact` is about every path, escapes and empty segments included. Its
two sides are written in different ways: the code walks forwards and skips two
digits after each per cent sign, the property speaks of sets of places. The
proof joins them in three steps.

* Cutting. `Lists` says that a list of stretches, one after the other, holds
  every place that is no slash, and that the segments are their texts. From the
  end of the path backwards `SegmentsListed` shows it of what `SegmentsOf`
  finds, and `PathListed` that the slash cut off at the end makes no
  difference. As stretches do not overlap (`StretchesApart`), the list has each
  of them once, at the number of stretches before it (`ListedAtIndex`).
* Decoding. `DecodedIs` unfolds `append_percent_decoded`, and `PartDecoded`
  does so within the path. The characters of a decoded text come from the
  places that are no digit of an escape, in their order: `TextGrows` puts one
  place before the others (`Ranked`, `RankFirst`, `RankOne`), and
  `SoundDecoded` goes back over a stretch with it. Its hypothesis is made only
  of places that count (`Counts`): inside an escape the decoder never starts.
  That an escape of a well-formed path does not reach out of its segment needs
  that a slash is no digit. One broken escape anywhere in a segment makes the
  decoder fail (`BrokenRefused`), wherever the escapes before it end.
* Storing. `StoresTexts` keeps with the texts that the storage is no longer
  than the path up to the end of the last segment stored, from which "Decoding
  can only shrink" follows; `StoresNothing` that no later segment makes up for
  one that was refused. `ParsedTexts` and `ParsedNothing` put these together.

**TextProofs.** Four proofs about texts.

* A login: `RoundTrip` is the lemma: for a path and a time without dots,
  cutting the verifiable string at its second last dot gives the path. It
  rests on `LastDotSplits`, a fact about the last dot of a concatenation.
* The hash: `ShaInv` is the inductive invariant, for every sequence of `OldBytes`
  that the buffer began with. `TakenIn` says that the
  message so far is what was compressed, in whole blocks, and then the first
  `datalen` bytes of the buffer, and that `bitlen` counts the compressed ones.
  `FinalPads` has two cases, padding in one block (`OneBlock`) and in two
  (`TwoBlocks`); old bytes in the buffer end up in neither.
* Pages: `TurnsAgree` goes back from the end of a file. What one rendering with
  all variables makes of the rest is what a second rendering makes of the first
  one's result, at the place where that rest begins in it. An expression of the
  first rendering's variables is a text without markup; one of the second's, or
  of nobody's, is moved unchanged (`PairMoves`) and means the same there.
* Attributes: `RunOutside` and `RunQuoted` say what the string parser does with
  a run of characters, from the last to the first: outside quotes up to a
  delimiter, in quotes up to the closing quote, whatever is escaped in between.
  `AttributeRead` puts them together: where an attribute stands as a browser
  writes it, one turn of `find_attribute_value` reads its name and value and
  ends at what follows. `HeaderSearched` goes back from the last attribute of a
  header: a turn that begins at an attribute or the space before it finds the
  first attribute of that name from there on.

**AuthServiceProofs.** `CookieInv` adds to `CookiesAreGenuine` that every key
in the ring has a source (`RingSources`), so that a cookie survives the
retirement of its key, and what tokens wait for a verdict (`TokensKnown`). It
uses only what KeyRing promises, and so holds of any key store that implements
it, which `Implementation` says of this one. `ConnectionsAccounted` is inductive
with the range of `pc` (`Counts`). `CallbackFailsForReason` relates an answer to
what the cache knows: `ServiceStepsCache` says that every step of the server is
one of CodeCache's, so `CacheInv` holds here too, and `ExchangeIsCallback` that
what is being exchanged is the code of the call-back that waits.

`ReloadSignsInAgain` follows from `SignInv`. `SignedInIsCached` says what the
process still has of a code that signed a browser in and has not expired: its
token is in the cache, names a user, and the ring holds the key that signed it
under the key id it names. It joins both stores: an entry leaves the cache only
by expiry and its token is not replaced while it is there (`EntryStays`, which
needs `NoTokenVanishes` of CodeCache), and a key leaves the ring only with the
process (`RingStays`, which is KeyRing's `Grows`). `CallbackVerifies` carries
this to the call-back that waits for its verdict, which then can only be
"accepted": the store fails to answer for key ids it does not know, and this one
it knows.

**CookiesProofs.** For headers of every length and shape. `IInv` adds that
every value follows a `=` of the header and values come in order (`Ordered`),
and that every value that is not restored yet still ends where it was cut, at
a `;` of the header before the next value, unless it is the last
(`StillEnded`). Without that, what `restore_cookies` finds with `strlen` could
be any Nul.

`RestoreUndoesParse` needs the opposite direction too: that nothing else was
overwritten. `Tracking` says so in three parts. `Tracked`: every character that
differs from the header was cut out by an entry that is not restored yet, or is
the `;` after the last pair. `Ahead`, while the header is split: nothing has
changed from the cursor on, which is at the start of a segment, and there is
room for one more entry. `Finished`: the restorer goes through all entries, and
of a list of pairs the parser leaves only blanks unread.

`ParsesWellFormed` needs what the entries are. `Entries` says, of a header that
is a list of pairs, that every entry is the pair of a segment before the cursor
and that every pair before the cursor has an entry. At the end every pair is
before the cursor (`AllEntered`); that the values come in order makes the
entries as many as the pairs and in their order (`EntriesOrdered`), and a
look-up finds the first with its name (`FoundFirst`).

**FormDecoderProofs.** The typing theorem carries that a body is gathered in
memory exactly if its part has no file, without which `element_chunk` would
append to nothing. `NothingLeftBehind` and `OwnsWhatItCloses` follow from
`Ownership`: while there is a process, every open descriptor and every file
belongs to exactly one field or is an orphan, and the current field still has
the descriptor of its file (`CurrentOwns`). The last part is why forgetting a
file can be stated exactly: a field that is made to forget has both the file
and its descriptor, so both become orphans.

`FormsAreWhole` follows from `WholeFields` and `WholeRead`. `WholeFields` says
of every field where what has arrived of its body is: in the file, if it has
one; otherwise in the field, or, while the part is being read, in the buffer
that the pieces are gathered in. It needs `Ownership`: if two fields shared a
file, a piece of one would be written into the other's. `WholeRead` says that
an urlencoded body is only handed over when it was read to its announced
length, with room for one byte more, and that no form is handed over inside a
part's body. A short write gives the form up, so that nothing is promised of
it.

**Model-checked only.** Liveness (`LockoutEnds`, `ExchangeEnds`) and ENABLED are
out of the prover's reach. Every invariant and
action property that a passing run checks is proved.

## 5. Findings

1. `throttle`: a download does not set the time of the last fetch, so after the
   first completed refresh of a process the 24 hour throttle is off: every
   unknown key id causes a download (`src/JWKSVerifierStore.cpp:436`).
2. `gate`: the answer of `/verify` depends on whether the token names a user,
   not on the outcome of its verification (`src/appauth.cpp:548`).
3. `login_page`: an authenticated visitor of the login page gets a 302 and the
   login page in one response (`src/appauth.cpp:643`).
4. `bearer`: a token in an `Authorization` header is not read
   (`src/jwtinterface.cpp:40`).

Smaller observations, which no run states: `restore_cookies` does not restore a
trailing `;` (the property says so); `HTTPUtils_get_cookie` with `idx` > 0
never advances past the first match; the gate takes the first `auth` cookie and
`jwtinterface_get_token_from_cookie` the last, so that a browser with two of
them may be sent back and forth between the two, refused by the one and
recognised by the other; the backing file is written in place, so a write that
is cut short inside an entry can leave a key or a key id that nobody published,
and the next start trusts it for as long as the process runs (`LeftOver`); with
the nginx configuration of the repository's README a request for `/auth` has an
empty `PATH_INFO`, which the router answers with 404. In the form decoder: a
second Content-Disposition header of a part, with a file name and without a
name, leaves the part's first temporary file open and on disk for good
(`orphans`); `max_size` is described as the size that is accepted
(`src/formdecoder_fastcgi.c:167`), but an urlencoded body of exactly that size
is refused; `formdecoder_setfield` leaves a field's descriptor 0, which dispose
would close, and `formdecoder_takefieldvalue` forgets a field's file, but no
program calls either.

In the HTTP client: `http_post` frees its list of headers only on success, so
every call that fails leaks it (`OnlyHeadersLeak` says that this is all);
`src/httpclient.h:17` has the content type in every response, while it is only
kept for status 200. In the paths: `parse_path` drops empty segments and
decodes escapes and `appauth_parse_first_number` does neither, so that the two
may find different numbers in a path that has either, which is why
`GroupCheckedIsGroupRead` leaves these out and shows nothing of them;
`consume_read` writes its output also when it then refuses the segment, of
which `from_chars` may have read a beginning. In the content disposition: names
are compared over the length of the name in the header, so a name that is a
beginning of the one that is asked for, or the empty one after a `;` at the
end, is taken for it, although the comment there says that the requested
attribute was found. In the database: an initialisation that was interrupted is
never repeated, as its file exists, and two processes that start without a file
may drop each other's rows. Both are what the code does; `TablesWhenServing`
and `MembersKept` name them as their only exceptions, and so show that nothing
less does such damage, not that it is excluded. In the pages: the second
rendering reads what the first put in, so a site's own texts must hold no
markup.

## 6. Not modelled, and why

* `get_cookie` as an action of its own: it changes nothing; `ParsesWellFormed`
  takes it in. `find_store`, `get_or_create_store`: look-ups in a map that has
  one entry. Members of the store manager that the server never calls. Large
  parts of `src/JWKSVerifierStore.cpp` (from line 16 to 298) and of its header
  are commented out.
* Signature algorithms, SHA-256's compression function, JSON, X.509, SQLite and
  libcurl: external, or a parameter; a signature is the key that made it.
* `formdecoder_setfield`, `formdecoder_takefieldvalue` (not called) and the
  form decoder's look-ups. The parts of `src/quotedstringparser.c` that
  `find_attribute_value` does not use. `consume_read` of other types than `int`.
  Members of the template engine that no page uses.
* The browser's cookie jar, and an operator who repairs a backing file.
* The file manager: its program does not compile (`appsrc/filemannospawn.cpp:231`
  calls `fileman_init()` without its argument), and nothing else calls its
  handlers. It is a reason why Database has several processes: it names the
  same file.
* `src/errorinfo.c`, message formatting, HTML, styles, command line tools,
  tests.

## 7. Plan

| Order | Module | What it adds | Runs and theorems |
|---|---|---|---|
| done | KeyNames, KeyRing, JWKSStore | keys, files, restarts | `keystore`, `keystore_live`, `throttle`; refinement proved |
| done | CodeCache, LoginState | the login | in `exchange` and `text`; proved |
| done | AuthService | all endpoints composed | `service`, `service_codes`, `gate`, `login_page`, `bearer`; all properties of `service` and `service_codes` proved |
| done | Cookies | in-place parsing | in `text`; all properties proved |
| done | FormDecoder | bodies in pieces of any size, temporary files, header order, the FastCGI read loops | `formdecoder`; all properties proved |
| done | HttpClient, TokenExchange | answers in pieces, failing steps, the exchange over it | `exchange`; refinement and all safety properties proved |
| done | Database, PathNumber | set-up by several processes, who may see what | `authorisation`; all properties proved |
| done | Paths, ContentDisposition, Template, Sha256 | parsers and functions against reference definitions | `text`; all properties proved |

What is left of the code that decides anything is the store manager's part
for several issuers, which the server does not use.
