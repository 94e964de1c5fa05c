# Elastos Hive Native SDK: verification

TLA+ models of the Elastos Hive Native SDK (`src/src`), checked with TLC and,
in part, proved with TLAPS. Paths below are relative to `src/src` unless they
begin with `src/`.

The library gives applications a file API and a key-value API over two
backends: OneDrive, reached with an OAuth token over HTTPS, and IPFS, reached
over plain HTTP at one of several configured nodes. It has no threads of its own
except one that runs the application's authorization callback; what makes it
hard is that every API call is a sequence of requests and file operations, that
other processes and devices work on the same account, the same keystore and the
same local paths in between, and that any of them can fail.

## Inventory

| Component | Source | State | Operations | Correct when |
|---|---|---|---|---|
| OAuth token | `oauth/oauth_token.c` | access and refresh token, expiry, in memory | restore, request (authorize, redeem), check_expire, refresh, set_expired, writeback | the tokens belong together and to this application; a rejected token is not sent again; a caller that retries gets through |
| Keystore | `vendors/onedrive/onedrive.c` (load_keystore_in_json, oauth_writeback, onedrive_client_connect) | a JSON file in the data location | load, truncate and write | it holds the current token, and is whole whenever nobody writes it |
| Key-value store | `vendors/onedrive/onedrive.c`, `hive_key.c` | one file per key in the OneDrive | put_value, set_value, get_values, delete_key | each call takes effect at one moment; a key file can always be read |
| File transfer | `hive_file.c`, both backends | local files, remote files | get_file, get_file_to_buffer, get_file_length, put_file, delete_file | success means the whole file; failure leaves nothing behind |
| File listing | `vendors/onedrive/onedrive.c` (list_files) | an array collected from pages | list_files | every file once, or an error |
| IPFS node selection | `vendors/ipfs/ipfs_rpc.c`, `ipfs.c` | current node, configured nodes | select_bootstrap, check_reachable, mark_node_unreachable | requests go to nodes that answered; giving up only when none does |
| Redirect server | `oauth_token.c` (get_authorize_code), `sandbird/sandbird.c` | sockets and streams, the code buffer | poll, receive, dispatch, send, close | the code arrives, the server stops |
| HTTP client | `http/http_client.c` | a curl handle, a growing response buffer | set options, request, move the body | the body is what the server sent |
| Errors | `hive_error.c`, `http_status.c` | one error per thread | set, get, describe | codes survive packing and the sign of the return type |
| Clients | `hive_client.c`, `mkdirs.c` | data location, connections | new, connect, disconnect, close | directories exist, connections are released |
| hivecmd | `src/apps/cmd/cmd.c` | client, connection, table of operations | one command per operation | no command uses what is not there |

Interactions: the application calls `hive_file.c`, `hive_key.c` and
`hive_client.c`, which check arguments, dispatch through the function pointers of
the connection and store negative return codes with `hive_set_error`. The
OneDrive backend calls `oauth_token_check_expire` before its requests and
`oauth_token_set_expired` on 401; the token calls back `oauth_writeback` after
each change. The IPFS backend calls `ipfs_rpc_check_reachable` before a request
and `ipfs_rpc_mark_node_unreachable` after a failed one. Both report
`HIVEERR_TRY_AGAIN` in that case.

Hard behaviours: connections of several processes on one keystore; crashes
between the truncation and the write of the keystore; answers that are lost after
they took effect; stale expiry, stale lengths and stale URLs between requests;
concurrent read-modify-write of key files; retries after `HIVEERR_TRY_AGAIN`;
partial failures in the middle of a download or a listing; folders that change
between two pages; connections to the redirect server that come in any order and
never ask for anything; processes that create the same directories at once.
`PROJECT.json` lists them line by line with the properties that cover them.

## Modules

| Module | What it is |
|---|---|
| `OAuthToken` | the token of each connection, the shared keystore, the authorization server |
| `AuthRedirect` | the wait for the authorization code: the redirect server, its streams, the browser |
| `KVEntries` | the byte format of key files: writing and reading as operators |
| `KVStore` | the abstract key-value store for one key: atomic effects between call and return |
| `OneDriveKV` | the four key-value operations as HTTP requests; refines `KVStore`; EXTENDS `KVEntries` |
| `HiveFile` | downloads, uploads and deletion over both backends, with the local file system |
| `ListFiles` | the listing of a folder in pages |
| `IpfsRpc` | node selection and its use by the calls |
| `Clients` | clients, connections and their directories, and the commands of hivecmd |
| `HttpBody` | the buffer that collects the body of an answer, as operators |
| `UrlQuery` | the parameters of a query: `sb_get_var` and what it calls, as operators, and the query that a browser sends |
| `Formats` | what the code promises of the formats of `KVEntries`, `HttpBody` and `UrlQuery`, of one input; EXTENDS them |
| `MC...` | constants for TLC; `MCFormats` enumerates the inputs of `Formats` |
| `FormatsProofs` | the theorems about `Formats`, and what they need of induction and recursion |
| `...Proofs` | the theorems about the module of that name; `OneDriveKVProofs` also EXTENDS `FormatsProofs` |

Operators commented *Mutated form* are the plausible bugs that the mutants of
`PROJECT.json` put in the place of the operator that follows: with each of them
TLC finds the property violated. They belong to no specification.

### OAuthToken

One program counter per connection. The connect is `StatKeystore`,
`LoadKeystore`, `Authorize`, `RedeemToken`; a writeback is `OpenKeystore`
(O_TRUNC) and `WriteKeystore`, and goes back to where it was called from
(`cont`); an API call is `Call`, `CheckExpire`, `RefreshToken`, `SendRequest`,
where `left` counts the requests the call still has to send. `Crash` ends a
process anywhere.

One answer of the token endpoint is a *grant*; access token, refresh token and
expiry carry its name, so that a mixture of two answers would be visible. The
clock is the set of grants whose expiry has passed. `owner`, `accepted` and
`refreshable` are the server's; a grant may be made and its answer lost. The
content of the keystore is absent, empty, torn or a token with the client id that
wrote it. History variables (`rejected`, `unsaved`, `saver`, `damaged`) exist for
the properties only.

A refresh whose refresh token is NULL dereferences it in the code; the model
ends the process there (`CheckExpire`). Each connection is driven by one thread, and is
opened with whichever `client_id` its application chooses (`app`), again with
each connect.

### AuthRedirect

What `Authorize` of `OAuthToken` does in one step. The calling thread sets up the
server, starts the thread of the application's callback and runs `sb_poll_server`
until a flag is set, which the close of any stream does. A call of
`sb_poll_server` is `Select`, one `Serve` per stream (`todo` is what the turn has
not looked at yet, `streams` what it kept), `ServeEnds`, one `Accept` per
connection in the backlog, `PollEnds`; then `Join`, `CloseServer` stream by
stream, `Return`. The stream states are those of sandbird; "status" is a stream
with nothing to send, "answer" one with a status line to send, "sent" one whose
buffer is empty again.

The other ends of the connections connect, send a request in one or two parts, and
close, in any order. A request is a path, which is the redirect path or not, and
perhaps the variable `code`. `Copied` is the text it leaves in the buffer, `Found`
whether `sb_get_var` reports success, and the two are independent: a code that
fills the buffer is reported as truncated though it has been written, and an empty
one (`code=`, `code=%00`) as a success, with an empty text (`UrlQuery` has the
characters). The handler looks at the report, the `return` of
`get_authorize_code` at the text. Time is the
free choice of the streams whose 30 seconds are over. Running out of memory or
descriptors is left out, and so is a signal that interrupts `select`.

### KVEntries, KVStore, OneDriveKV

`KVEntries` is the format: a length in network order and the bytes. `Malformed` is
the bounds checks of the loop of `get_values` for the entry at one offset,
`EntriesFrom` the loop from each offset, `DeliverAll` the loop over a file and
`Deliver` the same with a callback that stops it: the entries behind that one are
not looked at, so that a file whose later entries are malformed still delivers.
`ReadsBack` and `Canonical` say what the format promises of a list of values and
of a content. `HIVE_MAX_VALUE_LEN` is `MaxValueLen`, anything up to 32768.

`OneDriveKV` has one action per request. `put_value` and `get_values` begin with
`GetLength` (`__get_file_length`), `GetInfo` (the second `__get_file_info`) and
`Download`; `put_value` goes on with the upload, which is one request up to
`SimpleLimit` bytes (4 MiB in the code) and a folder, a session and one part
above it. `Refused` is any failing request, with `HIVEERR_TRY_AGAIN` for 401;
`Answer` may lose the answer of a request that took effect. A download URL is
taken to stay with the version it was given for: the code relies on it
(`__download_file` does not compare the length it received with the one
announced) and nothing in the request ensures it. Were it to deliver the current
version, a file that became shorter would be padded with zeros and stored again.

`ImplementsKVStore` is the refinement: the values are what `DeliverAll` reads in
the file, and a call has taken effect when the server stored or deleted the file.

### HiveFile

One program counter per thread. A download is length, creation with O_EXCL, second
length (OneDrive: with the URL), download, write, unlink; `get_file_to_buffer`
begins at the second length. An upload is `Seek` (open and lseek), `ReadSource`
and `Send`; `Delete` is one request. `remote` is the file in each backend; that of
the OneDrive is replaced or deleted by other clients, and by the uploads and
deletions of the module itself; `local` and `creator` are the files of the machine
and who made them; `source` is the file that is uploaded, which somebody may
append to byte by byte or cut while it is being read. `window` is the history the
properties speak of: what the file in question has held since the call began.

An error code that reaches an `ssize_t` without passing through an `int` is
positive; `ErrorLength` stands for all of them, and a write of so many bytes stops
short. The URL is pinned here. The requests of an upload are one step: what
they are is in `OneDriveKV`, which shares `__put_file_from_buffer`.

### ListFiles

`Request` is a request for a page, `Merge` the checks of its JSON and
`__merge_array`, `Notify` one call of the application, which may stop the
listing; `heap` counts the parsed pages. The skip token is opaque to the code; the
server is taken to order the names and to go on behind the last one delivered.
Under this assumption `ListedWhole` says what the code adds to it: no page is
dropped, repeated or told by halves. `Change` is another client.

### IpfsRpc

The ring of configured nodes, `at` the address the loop of `select_bootstrap`
probes next. Connecting and `check_reachable` share the loop (`connecting`). A
request of a call is answered, or finds the node unreachable (dropped, try
again), or fails in another way (kept). Addresses come and go at any moment.

### Clients

Processes over one chain of directories. `Stat` and `Mkdir` are the two steps of
`mkdir_internal` for one component; `Advance` goes on to the next. `New` and
`Connect` call it; `Keystore` and `Token` are what remains of a OneDrive connect.
The processes in `Tools` are hivecmd: they make the last component of their data
location themselves (`Start`), and run commands on `ctx->connect` and `ctx->ops`,
some of which look whether the table has the entry (`OtherCommand`) and some do
not (`FileCommand`). Every process is taken to hold one connection at a time, as
hivecmd does. Processes are killed and started again anywhere; `hindered` is set
when somebody removes a directory or puts a file in its place, or when the system
refuses a call.

### HttpBody, UrlQuery

Pure functions of the code as recursive functions. A `size_t` of `HttpBody` is a
number modulo `Word`, so that the growth of the buffer wraps around at small
sizes; the bytes are left out. Characters of `UrlQuery` are their codes.
`DecodeFrom` is the loop of `url_decode` with room for everything: the length of
the buffer counts characters written, so that `UrlDecode` cuts its result and
reports a text as truncated when its last byte was reached. Both are checked in
`MCFormats` against a reference: the sum of the chunks, and the text that an
escaping browser started from (`Query`, `ReadsQuery`).

## Runs

| Run | Instance | Shows |
|---|---|---|
| `token_shared` | 2 connections, 2 applications, 3 grants, 2 requests per call, 2 faults | type, own and paired tokens, no reuse after 401, keystore follows memory, whole when quiet |
| `token_retry` | 1 connection, 5 grants (one too long for the keystore), 3 faults, fairness | a retried call recovers |
| `auth_redirect` | 2 connections, 2 codes (one too long) and the empty one, fairness | type, streams closed once, the right code or a told error unless it came empty, the answer is sent, the wait ends |
| `formats` | key files up to 10 bytes over {0,1,2}, up to 3 values, 5 chunks of 7 lengths at a word of 64, 3 parameters | round trips of the key file and of queries, accepted files are canonical, bodies are whole and in their memory |
| `kv_one` | 1 client, 4 calls, 3 faults, values of 1 and 2 bytes | refinement of `KVStore` |
| `kv_many` | 3 clients, 3 calls, 1 fault, no file at first, a good one, or one nobody of them wrote | type, readable files stay readable, a successful get_values is a snapshot, a put_value appends to one |
| `file_transfer` | a OneDrive and an IPFS client with one local path, 3 calls, 2 faults, replacements or edits | type, success means the whole of one version, both ways; no partial files from IPFS |
| `list_files` | 5 names, pages of 2, 2 calls, 2 faults, 4 changes, fairness | type, a listing is whole or nothing, pages are freed once, it ends |
| `ipfs` | 3 nodes (both families, IPv4 only, IPv6 only), 3 requests per call, 4 changes, fairness | type, no request to a failed address, giving up last, a retried call is served or ends otherwise |
| `clients` | hivecmd and a program of the library, 3 directories, unbounded, fairness | type, directories there, no needless failure, no connection lost, no call through a missing entry, calls return |

Two more runs end in a violation and are listed under *Findings*.

Bounds. The bound of each module (`MaxFaults`, `MaxCalls`, `MaxRequests`,
`MaxChanges`, the grants) limits how often something happens, never which
combination; `AuthRedirect` and `Clients` have none. Two connections are enough
for every race on the keystore, since a third can only do what one of the two
does; three grants allow both connections to hold one and one of them to refresh;
two faults allow, for example, a failed writeback followed by a crash, or an
expiry and a revocation. `SimpleLimit` is 11 in the cfgs, so that two appended
values of different lengths lie on both sides of it. In the probing ring three
nodes of different kinds give every start and every wrap-around. Two connections
to the redirect server are the browser's and another one, which is any of the
others as far as the first is concerned; the proofs are for any number. Five
names in pages of two make three pages, so that there is one in the middle, and
four changes can empty and refill a page. Three directories are one above the
data location, the data location and the one below it. A word of 64 with a first
size of 2 lets the doubling wrap around in both of its checks. Connections,
applications and grants of `token_shared`, and the clients of the key-value runs,
are interchangeable and declared symmetric; no liveness is checked there. `kv_one`,
which checks the refinement, has one client and hence no symmetry to use.

`StaysReadable` is stated of the file together with the copies that clients hold,
because a client that read a damaged file may store it again after another has
replaced it. `OnlyDestination` and, for OneDrive, `NoPartialFile` do not hold: see
`file_source`. `GetIsWhole` holds when no destination is the path that
`hive_get_file` unlinks by mistake.

`CHECK_DEADLOCK FALSE` stands in the key-value, file, listing and format instances,
where everything ends when the bounded number of calls is used up, and in that of
the redirect server, which ends when `get_authorize_code` has returned. The token,
IPFS and client instances are checked for deadlock.

## Fairness

`OAuthToken.FairSpec`: a thread inside the library keeps running, requests end
(curl has time limits, or the peer closes), so each connection is weakly fair in
its saving and working steps; and the application repeats a call that failed, as
the comment of `HIVEERR_TRY_AGAIN` asks. Nothing is assumed of the server or of
the clock. `RetryRecovers` exempts a connection that was closed and one whose
refresh token is refused, which only a new authorization could help, which the
library does not begin by itself.

`IpfsRpc.FairSpec`: the same for probes, requests and repeated calls; nothing is
assumed of the network, which changes a bounded number of times.

`AuthRedirect.FairSpec`: the thread that waits keeps running, `select` returns
after its limit at the latest, and the callback returns. Nothing is assumed of the
browser: `WaitEnds` says that the wait ends once anybody has connected. That
nobody ever connects is possible, and then the call does not return.

`ListFiles.FairSpec`: requests end, with an answer or an error, and the callback
returns. `Clients.FairSpec`: `stat`, `mkdir` and the reading of the keystore
return; `CallsReturn` lets the authorization wait for the user (`Token` is not
fair).

## Proofs

For every value of the constants that satisfies the assumptions named in the
modules, the following are proved. In each case `Spec` without fairness is
enough. The invariants are inductive, with one lemma per action; a frame lemma
says what a step of one actor leaves to the others. The refinement alone has
hypotheses of its own, and `GetIsWhole` one; they are given below.

`OAuthTokenProofs`: `TypeOK`, `OwnToken`, `PairedTokens`, `NoReuseAfter401`,
`KeystoreFollowsMemory`, `WholeWhenQuiet`. The first four follow from `IInv`,
which is `TypeOK` with

- `Held`, about each connection: its tokens are of one grant that was given to
  some application; an expiry that is not zero belongs to a token, and a connection
  that writes back or sends a request has one; a token that was rejected has its
  expiry zeroed, so that `CheckExpire` cannot let it pass; no rejected token is
  a grant still to be given; a connection that has not connected yet has no token.
- `Named`, about each connection: an open one has a client id, and its token was
  given to that client id.
- `Kept`, about the file: a token in the keystore is of one grant, given to the
  client id recorded beside it.

`NoReuseAfter401` needs `Held` because the request is sent without looking at the
expiry again; `OwnToken` needs `Kept` because the check of `restore_access_token`
compares the recorded id, not the owner. `KeystoreFollowsMemory` and
`WholeWhenQuiet` are inductive relative to `IInv` and to `TypeOK`.

`IpfsRpcProofs`: `TypeOK`, `NoRequestToFailed`, `GivesUpLast`. For the
last one the invariant `Covered` says that the selection has tried whatever lies
between its first node and the address it probes next (`Dist` measures the way
round the ring); one turn of the loop adds the address probed (`PassedNext`), and
when the next node is the first one again, nothing is left (`PassedAll`).

`AuthRedirectProofs`: all invariants of the run. The strengthening says which
streams are in the lists of the loop (each at most once, none of them gone), what
the buffer and the thread's error say of the requests handled so far (no error of
this call means that every one was for the redirect path and had its variable in
full; if the buffer then has no whole code, one of them was empty), and which
states a stream passes between its request and its close.

`ListFilesProofs`: `TypeOK`, `ListedWhole`, `AllOrNothing`, `PagesFreedOnce`. The
invariant places the collected names: they increase, lie before the link, were all
there at some time, and contain every lasting name up to the link; a page yet to be
merged continues them.

`FormatsProofs` is about the bytes of key files and of bodies and the characters of
queries. Reading and writing are recursive functions, and TLA+ defines those with
CHOOSE, so that the first thing to prove is that a
function with the equations exists and is the only one. `Induction` and
`RankInduction` are stated of sets, not of predicates, and follow from the
well-foundedness of the naturals; `Recursion` is built from them: where each place
refers to at most one place of smaller rank, the equations have a solution. The
loop of `get_values` is such a recursion on offsets (`EntriesDefined`), because
`Malformed` lets it go on only to an offset where another header fits. Then:

- `AppendReadable`: an entry stored behind a content that can be read to its end
  makes another such content, whose values are the old ones and the new one. The
  entries before it are found where they were (`EntryStaysInPlace`), and what was
  the end of the file is now an offset where a header fits.
- `AlwaysReadsBack`: any number of storable values, written one after the other,
  is delivered whole and in order, and a callback that stops gets the first ones.
- `AlwaysCanonical`: a content that is accepted is the encoding of what it
  delivers, byte for byte, and its last value is not empty; the four bytes of a
  length that passes the check are those that htonl makes of it
  (`LengthFromHeader`).
- `BodyHolds`: any two answers, in any number of chunks of any lengths, one after
  the other on one client: the body lies within its memory and is the sum of its
  chunks, or the request is given up, and then the answer fills half of a `size_t`.
  The doubling ends because the size rises until it passes what is needed or wraps
  around (`GrownFits`, by recursion on the distance to `Word`); where it wraps
  around, the exact sum still has its place, because of the check before the loop
  (`WrapsAround`). A chunk that does not fit is longer than what is left, so that a
  sum that wraps around is at most twice what has been sent (`ReceivedHolds`).

- `AlwaysReadsQuery`: from a query with any number of parameters, whose texts were
  escaped, `sb_get_var` returns the text of the first one with the name asked for,
  or its beginning, and says which, for every length of the buffer. `QueryLaid`
  places the parameters one behind the other; nothing inside one ends it
  (`InsideParameter`), so that `FindFrom` goes from each to the next (`FindNext`);
  a name holds no "=", so that at the beginning of a parameter exactly its own name
  is found (`NamedThere`). What was escaped is decoded from the last character to
  the first (`EscapedIsRead`). A name is taken to hold no blank, "&" or "=".

The last four are the formulas of which the invariants of `formats` are made.
`AlwaysRoundTrip`, `AlwaysAcceptedIsCanonical`, `AlwaysBodyFits` and
`AlwaysQueryRoundTrip` state those invariants themselves (`Formats`) of every input
of its kind, where TLC enumerates short ones: values and contents of any length
over all 256 bytes, chunks of any number below `Word` for any word and first size,
texts over the characters 1 to 255. Their only hypothesis is the type of the input;
that the names asked for are names and that a buffer has room for its 0 are
assumptions on the constants of `Formats`. (`OneDriveKVProofs` inherits the
constants and the variables of `Formats` with the lemmas it takes from here, and
makes no use of them.)

`OneDriveKVProofs`: `PutIsAppend`, `TypeOK`, `GetIsSnapshot`, `StaysReadable`, and
the refinement of `KVStore`. For the first, `IInv`: the window of a call holds the
file from its first request on; a URL is given for one of the contents in it, whose
length is that of the first request, so that nothing is filled up; what is uploaded
is that content and the entry. `PInv` adds `Results`, the types of what clients
report, and `Progress`: an idle client holds no buffer, a client in a call has
nothing to report yet, and its request is one that its operation makes. A snapshot
is then what `Download` finds in its buffer, which is a content of the window.
`StaysReadable` takes `AppendReadable` for an upload, and for its stronger form
(`AllSound`) that no value is empty, which keeps an entry of length 0 from ending
the file.

`Refinement` assumes `Single`, that there is one client, and `Fresh`, that there is
no file at first or an empty one. Both are needed and neither is about the proof:
with two clients the upload of a `put_value` replaces what the other has stored
since its first request, and `KVStore` appends; a file that somebody else has
damaged has no values. `RInv` says that the window of the only client is the file
as it is (`Alone`); the mapping is that of `ImplementsKVStore`, and each action maps
to one action of `KVStore` or to a stutter: `Call` to the invocation, the storing or
deleting request to `Effect`, also when its answer is lost, what ends a
`get_values` or finds nothing to delete to `Read`, and every other end of a call to
`Return`.

`HiveFileProofs`: `TypeOK`, `PutIsWhole`, `NoPartialFile`, and `GetIsWhole` under
the hypothesis that no destination is `Filename`. `Calls` says what each call
knows: its window holds the present content; what it was promised, fetched or has
read is in the window; a length it works with is not an error code. For an upload
the interesting part is `Readable`: whatever happens to the file, as long as it is
not shorter than `lseek` said, its beginning of that length is a content of the
window. On top of it `Disks` says that a file made by an IPFS download lies at its
destination and is empty, whole, or about to be unlinked, and `Owners` that a
download between creation and unlink has its file to itself; this needs O_EXCL.

`ClientsProofs`: all invariants of the run and `NoNeedlessFailure`. The invariant
says that `mkdirs` has made everything before the component it looks at, unless
somebody interfered, and counts connection objects by program counter.

Assumed are only the named assumptions on constants, the finiteness and ranges
they state, and the modelling choices above. Not proved, only model-checked:
liveness (`RetryRecovers`, `RetryServed`, `WaitEnds`, `ListEnds`, `CallsReturn`),
which is out of the prover's reach. Every other property of a passing run is stated
by a theorem.

## Findings

Each is shown by a run that ends in a counterexample.

| Run | Finding |
|---|---|
| `file_length` | `hive_get_file_to_buffer` returns an error code as a positive length |
| `file_source` | after a short write `hive_get_file` removes the local file named like the remote one |

Known deviations. The models also behave as follows, and no property denies it;
the hazards of `PROJECT.json` name the lines.

- A connect whose authorization ends without any request, or whose server cannot be
  created, finds no error of its own; if the thread has none from before, it
  succeeds without a token (`OAuthToken.Authorize`).
- So does one whose redirect carries an empty code (`?code=`): `sb_get_var` reports
  success, the browser gets its 200, no error is set, and `get_authorize_code`
  returns NULL, which `oauth_token_request` turns into the thread's last error, or
  into 0. ela_hive.h:374-376 promises NULL and an error code when connecting
  fails. `AuthRedirect.NullIsTold` says that no other wait with a request ends
  without an error of its own: it takes that all requests had the variable in full
  and one had it empty.
- Two clients that append to one key at the same time: one value is lost and both
  calls return 0. `PutIsAppend` states what remains true.
- A download that is to be tried again has left its empty destination, which makes
  the next try fail (`Refused` after `Create`).
- The request with the code may come too late: the close of another connection has
  ended the wait.

## Not modelled

Logging, argument checks, memory exhaustion as such (it takes the path of the
failing request that follows it), the JSON and URL libraries, `encrypt` and
`decrypt` (ignored by the code), `oauth_token_reset` (never called), build files
and vendored patches. Of sandbird: multipart bodies, cookies, files and headers,
which the library does not use. Of the HTTP client: the setting of options and the
forwarding to libcurl. Texts of errors and their packing (`hive_error.c`,
`http_status.c`): tables, and one byte too many written for a buffer of exactly
the length of a prefix. Of hivecmd: reading of lines, configuration
(`src/apps/cmd/config.c`) and output; `prober` sends one request and has no state.
The list of components in `PROJECT.json` gives the reason for each.

## Plan

What would come next, in this order:

1. Composition of `OAuthToken` with `OneDriveKV`, so that 401 and refreshes come
   from the token's own state.
2. Several connections of one application in `Clients`, which the library allows
   and hivecmd does not use.
