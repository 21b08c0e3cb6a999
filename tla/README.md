# CWeb in TLA+

CWeb is a search engine: a C server that indexes HTML pages, keeps the index in memory
and on disk and answers HTTP requests from a pool of threads, and a TypeScript client.
This directory holds TLA+ modules that model the server's core and parts of the client,
TLC configurations that check them on small instances, and proofs checked by TLAPS.
Paths below are relative to the repository; line numbers are those of the modelled
commit, and `PROJECT.json` maps every definition to its lines.

## 1. Inventory

| Part | Source | State | Operations | Correct when |
|---|---|---|---|---|
| Index publication | `backend/src/index.c` 195-230 | `g_active_index`, `ref_count`, `g_swap_lock` | get, release, swap | a request never holds a freed index; retired indexes are freed, once |
| Rebuild | `http_server.c` 637-686 | `g_index_building`, the private new index | check, flag, clear cache, build, swap, save, unflag | one at a time; ends; nothing stale stays |
| Response cache | `http_server.c` 50-167 | linked cells, size, counters, a mutex | get, put, clear | a sound list, bounded, ordered by recency |
| Rate limiter | `http_server.c` 170-216 | a token bucket per address, a mutex | check_rate_limit | burst + rate bound; clients within the rate served |
| Search handler | `http_server.c` 397-538 | locals, `strtok`'s position | look up, parse, acquire, evaluate, store, respond | the answer cached under a path is the answer to that path |
| Other handlers | `http_server.c` 354-394, 541-634 | locals | health, stats, suggest, page | as readers of the index |
| Server lifecycle | `http_server.c` 694-782, `main.c` | `g_server_running`, listening socket, threads | start, accept loop, stop | a stop ends the server, and no accepted request is dropped where the code sees to it |
| Persistence | `persistence.c` | `index.dat` | save, load | a damaged file is rejected; a saved index loads |
| Start-up | `main.c` 40-83 | the first index | load or build and save, publish | always ends serving |
| HTML parser | `html_parser.c` | the scan position, two flags, the fields found | parse a page | every page ends; the body is the visible text |
| Tokenizer | `tokenizer.c`, `normalize.c` | a word buffer, a position | tokenize a text, a document | the words of the allowed length, at their positions |
| Index construction | `index.c` 67-187, `document.c` | postings, document store, totals | add, remove | postings, store and totals agree |
| Hash table | `hash_table.c` | buckets, size, collisions | put, get, remove, resize | a map |
| Trie | `trie.c` | nodes, frequencies | insert, suggest | the most frequent completions |
| Query | `query_parser.c`, `ranking.c`, `fuzzy.c` | AST, results | parse, evaluate, did-you-mean | the grammar, the ranking order, the distance |
| Snippet | `snippet.c` | locals | generate | an excerpt with the terms marked, never cut for room |
| Checksum, logger | `crc32.c`, `logger.c` | a table, a stream | | |
| Client requests | `mobile/src/api/client.ts` | in-flight requests | fetch, time out, retry, mock | errors of the server reach the user |
| Client suggestions | `mobile/src/components/NewTabPage.tsx`, `SearchBar.tsx`, `ChromeOmnibox.tsx` | the list shown | one request per keystroke | the list is for what is typed |
| Client store | `mobile/src/store/useStore.ts` | tabs, bookmarks, history, logs | their edits | an active tab exists; lists bounded |

How they interact. Eight workers accept connections and run one request each to
its end. They share the published index (read lock to take a reference, write
lock to drop one or to swap), the cache and the buckets (a mutex each), the
rebuild flag (an atomic, tested and set separately), `index.dat` (no lock) and
the process-wide position of `strtok` (on glibc). The rebuild runs inside a
worker, so a request and a rebuild, or two rebuilds, interleave at every access
to shared state. Only `index.dat` survives a crash.

What is hard: the reference count, which is incremented under a read lock; two
rebuilds that overlap because the flag is tested and set apart; searches that
outlive a cache clear; parsing through a shared position; a file rewritten in
place; the wall clock. `PROJECT.json` lists each hazard at its line with the
properties that cover it.

## 2. Plan

Done, in this order, most important behaviour first:

1. `IndexRcu` - publication and reclamation, with the rebuild as its writer.
2. `RateLimiter`.
3. `AbstractLru`, `LruCache` - what a cache promises, and the pointers that keep it.
4. `SearchService` - composes the abstract cache, the published index (as a
   version number), the rebuild and `strtok`.
5. `Persistence` - the file through crashes, start-up and overlapping saves.

6. `HashTable`, `AbstractIndex`, `InvertedIndex` - construction of an index.
7. `QueryParser`, `Fuzzy`, `Trie`, and `QueryEngine`, which composes them.
8. `TabStore`, `ClientFetch`, and `Client`, which composes them - tabs whose ids
   come from the clock; retry, timeout and mock answers; late suggestions.

9. `Lifecycle` - start, accept, stop and join, with clients that fall silent or
   hang up; a save that fails to open `index.dat`, in `Persistence`.
10. `HtmlParser`, `Tokenizer`, `Snippet`, and `DocumentText`, which composes them.
11. Proofs about `IndexRcu`, `RateLimiter`, `LruCache`, `SearchService`,
    `Persistence`, `Lifecycle`, `DocumentText`, `Client` and `InvertedIndex` with its
    hash table.
12. Proofs about `QueryEngine` with its parser, distance and suggestions.

Left:

13. Queries on a restored index, which has postings but no documents: `QueryEngine`
    over an `InvertedIndex` loaded by `Persistence`.

## 3. Modules and the code

**IndexRcu** (`MCIndexRcu`, `IndexRcuProofs`). Each worker has a label `pc` and
its local index pointer `inst`. Taking a reference is `GetLoad` then `GetStore`,
because `ref_count++` is a load and a store and the read lock lets other readers
in between; a store over a newer value adds the increments it erases to the
history variable `lost`. `Release` and `Swap` are single steps under the write
lock, enabled when no reader is inside it (`WriteLockFree`); `Free` happens after
the lock is dropped. A rebuild is `RebuildCheck`, `RebuildStart` (flag up, new
instance with one reference), `Swap`, then `RebuildDone` after the save. What a
freed object's count holds is chosen from `Scribble`. Not modelled: reuse of a
freed address (instances are used once), and reading `g_active_index` as NULL
(main publishes before the server starts). Reads of freed memory before the
count is touched are not given effects: `NoUseAfterFree` shows where they start.

**RateLimiter** (`HttpServerProofs`). `Request(c)` is one call of
`check_rate_limit`, which holds its mutex throughout. `Tick` and `SetBack` are
the wall clock. Tokens are integers because the clock counts whole seconds. The
window of `RateBound` is opened nondeterministically at any request, so the
property covers every window.

**AbstractLru, LruCache** (`MCLruCache`, `HttpServerProofs`). `AbstractLru` is a
sequence of entries, most recent first. `LruCache` keeps the cells of the C program in
`heap` with `prev` and `next`, and its actions make the pointer assignments of
`cache_get`, `cache_put` and `cache_clear` branch by branch (tail, middle and head
cells, eviction of a last cell). `entriesOf` reads the list from `head`; under that
mapping `LruCache` implements `AbstractLru`. Failing allocations are not modelled.

**SearchService** (`MCSearchService`). Per worker: the path, `q_param`, `page`, the
version of the index it acquired and the response. A path is a sequence of
parameters; `StrtokFirst` and `StrtokNext` hand them out from `save`, which has
one position per process (`"glibc"`) or one per thread (`"msvcrt"`): the Makefile
builds for both, and the run starts in either. A position left in a string that
its owner freed may yield the end or, once, any parameter. `Store` evaluates on
the acquired version, renders and calls `cache_put`, which has no effect others
can see before that call. The rebuild clears, builds and swaps in the code's
order. A path with nothing after the `?` is the empty sequence. `suggest` uses the
same `strtok` and would only add more interference. One call of `strtok` is a
step.

**Persistence**. A file is its header, two halves of its payload and its checksum,
enough for a crash between any two writes and for two saves to mix. The actions of a
save follow `persistence_save_index` from `fopen` to `fclose`. The checksum is computed
from a buffer that `fread` failed to fill (`Checksums`): of zeros, of one whole index
that the memory still holds, or `Junk`. A load rejects anything but a real header whose
checksum matches, and restores postings but no documents. Zeros match the hole that is
left where one save empties the file under another, which `clobbered` remembers; such a
file loads as an empty index. `BootRestore`, `BootBuild` and `BootServe` are `main`. A
crash of the process loses everything but the file. Not modelled: loss of power (writes
reordered below stdio), checksum collisions, a buffer that mixes old contents and equals
a torn file, the byte format, the position of the checksum when payloads differ in
length. A save may fail to open the file (`SaveFails`); `main` and the rebuild go on
without a word, which `unwritten` remembers until a save gets through.

**HashTable, AbstractIndex, InvertedIndex** (`MCInvertedIndex`, `InvertedIndexProofs`).
`HashTable` has the operators of `hash_table.c` on a record with the chains, `size` and
`collisions`; the hash is any function of the key. `InvertedIndex` has one action per
call of `index_add_document` and `index_remove_document`, which hold `idx->lock`; its
token loop, like the loop of a resize, is a function of the rounds done: look the term
up, put a new list, find or make the posting, append the position, count the trie word.
`texts` is a history variable with what was added for a document since it was removed.
`AbstractIndex` is a map from terms to lists of postings; under `PostingsOf` the
detailed index implements it. Documents are added while nobody else can see the index
(`main`, the rebuild), so calls are steps. `index_remove_document` leaves the store, the
totals and the trie alone, as in the code.

**QueryParser, Fuzzy, Trie, QueryEngine, QueryGrammar** (`MCQueryEngine`,
`QueryProofs`). `QueryParser` follows the recursive descent function by function;
`error_message` is a flag that, once raised, ends in a 400. The descent recurs only
where a parenthesis opens another query, one level deeper and at most `MaxDepth` of
them, so `Parse` is a function of the number of levels below, each level a table over
the positions; the loops of `parse_and` and `parse_or` are functions of the rounds done,
no more than there are tokens, because a round that goes on has read one. A tree is the
sequence of its nodes in postfix order, which is a tree written down, and makes
`collect_query_terms` the terms of its nodes one after the other. `QueryGrammar` is the
grammar of `docs/parsing.md` as a reference, all trees of a sequence of tokens. There
`FIELD ":"` may stand before a phrase; the parser ends the token at the quotation mark
and reads a field with an empty word (`NoWord`, which `term_list_append` drops, as
`Given` says) and a phrase of its own. `GrammarAccepted` says that such a query is
accepted and, of all others, that they get their only tree; the module alone is
recursive, and nothing extends it but the instance. `Fuzzy` computes the columns of
`fuzzy.c`; `Levenshtein` is the textbook recursion. `Trie` keeps the two limits of
`trie_suggest`: the walk stops after `Cap` words, the answer after `limit`.
`QueryEngine` types, submits and evaluates queries and completes prefixes. Scores are
integers in the last place of a float, because the comparison calls scores within 1e-6 a
tie, which is one or two last places of a typical score. Such ties do not chain, so any
order without neighbours out of order may come out of `qsort`: an assumption, since C
leaves open what `qsort` returns for a comparison that is no order.

**TabStore, ClientFetch, Client** (`MCClient`, `ClientProofs`). `TabStore` has the
actions of the store on tabs; title and URL of a tab follow from its screen and query. A
new id is any of `Stamps`, so it may repeat. `ClientFetch` keeps the calls in flight:
`Answered`, `Failed` and `Retry` are the two ways out of the `try` and the second
attempt; `requests` counts what was sent and `heard` says whether the caller still
waits. `Client` is the address bar and the admin screen. React runs the effects of a
user event before the next event, so an action of the store is one step with `Rendered`
(the input follows the tab, the admin screen is unmounted) and `Refresh` (the effect on
input and dropdown, with the cleanup that sets `cancel`). `Deliver` runs a callback. A
suggestion list is known by the text it was asked for. Left out: history, bookmarks,
logs, which suggestion is selected, `page` and `search` queries of react-query, the two
other suggestion boxes (they have no cancel flag and show whatever comes last); tabs and
the rebuild button activated by a key, which unlike a click leaves an open dropdown
open.

**Lifecycle** (`HttpServerProofs`). `main` goes through `http_server_start` line by line
(socket, bind, listen, flag, threads, join); `handler` is the signal handler, which runs
`http_server_stop` in the main thread (POSIX: main waits) or beside it (Windows). A
worker calls `accept`, waits, admits the connection (the rate limiter may send 429),
receives, serves, perhaps writes `index.dat`, replies. `listener` is the kernel's
socket: on Linux closing the descriptor does not wake a worker in `accept`, the socket
lives on for those that wait (`"orphan"`), and each of them needs one more connection
before the join ends; on Windows they wake. There the stop ends with `WSACleanup`
(`StopCleanup`), while the workers still run: a connection one of them reads or answers
is `"cut"`, and its client gets no answer. `recv` has no time-out, so `Receive` waits as
long as the client is silent; nothing makes it speak. `dropped` remembers the clients
whose connection was closed without an answer while they waited for it. A client that
has gone when the reply is sent ends the process on POSIX (`BrokenPipe`), because the
reply is two sends and SIGPIPE has its default action. The handler may raise the stop
before the flag is set, and the flag then stays up. Not modelled: a second signal inside
the handler (`Kill` stands for it), partial `recv`.

**HtmlParser, Tokenizer, Snippet, DocumentText** (`MCDocumentText`,
`DocumentTextProofs`). A page is a sequence of pieces: text, tags, the ends of a comment
and a `<` that starts no tag. `HtmlParser` has an action per branch of the loop of
`html_parse_document`: comment, stray `<`, script and style flags, title (skipped to its
end), heading (read to its end and scanned again), meta and link, other tags, text.
White space in the body collapses as the code does it. `Tokenizer` is `tokenize_text`
character by character, with its buffer and its position. Characters are classes: `"x"`
is what `isalnum` knows, `"-"` the hyphen, `"'"` any other byte of a word (apostrophe,
`_`, well-formed UTF-8), all letters to the tokenizer; then white space and punctuation.
`DocumentText` runs it over title, headings, keywords, description and body with one
position counter, as `tokenize_document`. Reference definitions are the regions of a
page (`Inside`), the places of its visible text (`Visible`) and the stretches between
separators (`WordPlaces`). The properties on body and fields are for pages whose regions
do not overlap (`Tame`); `TokensExact` and `LinearScan` are for all. Left out: how tags
and attributes are spelled, entities, the suffix rules of `normalize.c`, stop words
loaded from a file, malformed UTF-8, the category. `Snippet` is `snippet_generate` on
the body: the window every 20 characters with the most occurrences, moved back to the
beginning of a word, then the loop that marks terms and counts the room left in its
buffer. `WordEnd` says independently what is marked: the longest end of a word that is a
term, because the code asks what follows a term but not what comes before. To the
marking only `"x"` and `"-"` continue a word (`Continues`, line 87), so a mark may end
at an apostrophe inside a word, and one that begins with such a byte may touch the mark
before it. Therefore `SnippetIsExcerpt` is stated for queries whose terms begin with a
letter or digit (`HeadedByLetters`) and `WordEndsMarked` for terms of these only
(`LettersOnly`), in texts of any characters. That `Slack` is more than the window and 13
(256 and 150 in the code) is what makes the room enough; the run takes the smallest
value. Upper case is left out of it.

## 4. Runs

| Run | Instance | States | Shows |
|---|---|---|---|
| `lifecycle` | 2 workers, 2 clients, both platforms, 1 passing error | 109 thousand | clean ends, queued clients settled, a stop ends the server |
| `document_text` | every page of up to 4 pieces out of 18, words of 2 to 3, buffer of 5, snippets of 5 | 938 thousand | body, fields, tokens and snippets, the scan ends |
| `index_rcu` | 3 workers, 3 instances, 1 lost increment | 38 thousand | six invariants and a liveness property of `IndexRcu` |
| `index_uaf` | same | violation | `NoUseAfterFree`: a lost increment frees an index in use |
| `rate_limiter` | 2 clients, burst 2, 1 per second, 4 clock values, set back once | 374 thousand | the bound and the service guarantees |
| `lru_cache` | 4 keys, 2 responses, capacity 3, symmetry | 621 | list soundness, recency, refinement |
| `search_service` | 2 workers, 4 paths, capacity 1, 2 versions after the first | 252 thousand | what a cached response belongs to, what a clear removes |
| `search_mixed` | same | violation | `CachedUnderOwnPath`: parameters of two requests mixed on glibc |
| `inverted_index` | 3 documents, 4 terms, 4 texts, 4 calls, tables of 1 to 4 buckets | 19 thousand | growth, exact postings, counters, refinement |
| `query` | queries of up to 5 tokens, 3 documents, 5 words in the trie, its limit at 4 | 290 thousand | the grammar, ranking, did_you_mean, suggestions |
| `persistence` | 2 pages, 2 workers, 2 crashes, 1 edit, failing saves | 502 thousand | torn files rejected, disk agrees with what is served, start-up ends |
| `client` | 2 tabs, 2 ids, 2 words, 2 calls in flight, symmetry | 301 thousand | late answers, retries, remounted screens, the active tab |

Why the bounds are enough. Three workers are the two parties of each race and a
bystander; three instances let two rebuilds overlap and retire two indexes; one lost
increment already separates the count from the truth. A capacity of three has a head, a
middle and a tail, and the fourth key evicts. A cache of one makes eviction interfere
with every other request. Two crashes allow a crash, a restart that saves again, and a
crash of that. One set-back of the clock shows negative elapsed time; in the proofs all
of these are arbitrary. The bounds stand in guards (`MaxLost`, `MaxVersion`, `MaxCrash`,
`MaxEdit`, `MaxTime`, `MaxBack`, `MaxWindow`, `MaxCalls`, `MaxTokens`, `MaxTabs`,
`MaxErrors`, `MaxPieces`) or in a set: of instances, or the places `Calls` of the
client, where an action that starts a call waits for a free one. Two calls are an older
and a newer one. Five tokens hold a group with an operator, a quoted phrase or nesting
one deeper than the limit of 1 in this run; four calls let a document be added again
behind another and removed. A table of one bucket grows to two and to four: before a put
when four times the size is more than three times the width. Two pages, of which a
rebuild indexes one, make indexes that differ. Four pieces are a region with its two
ends, something inside and something after it, or two regions that overlap; a buffer of
five is the first that holds a word of one too many, which the code needs to drop it and
not cut it. Two workers are one that is stuck and one that is not, and two clients one
that is silent and one in the queue behind it, or two that hold both workers. Windows of
five characters, two apart, overlap and fit several times into a body of twelve. Only
`document_text` turns the deadlock check off: a page that is scanned, tokenized and
shown is finished.

Symmetry is used in `lru_cache` and `client`, whose properties are invariants and
a safety refinement and do not distinguish permuted keys, cells or words.

Fairness. `IndexRcu`: weak fairness for a worker in the middle of a handler, since the
scheduler runs every thread and no handler waits for anything but a lock; strong
fairness for taking the write lock, since readers leave it without waiting for anything
and a queued writer then gets it. `EventuallyReclaimed` rests on it. `Persistence`: weak
fairness for `main`'s start-up and its save. `Lifecycle`: weak fairness for the threads
and the handler, since the scheduler runs them; none for clients. None need connect, so
a stop on Linux may wait for a connection that never comes, and `StopEnds` is stated
where closing wakes. None need speak, so silent clients may hold all workers for ever:
`Answered` and, on Linux, `StopEnds` have it as a premise (`SpeakAtLast`) that no
connection in a worker's hands stays silent for ever. On Windows `StopEnds` needs no
such premise, since `WSACleanup` ends every `recv`. No fairness is assumed of clients or
users anywhere: requests, rebuilds, signals, crashes and edits need never happen.

The two violations are disagreements between the code and what a document says;
`PROJECT.json` quotes the line each contradicts. More findings there have no run,
because a model that follows the code starts from them: a saved index does not load,
because the checksum is taken from a buffer that `fread` failed to fill (the
repository's unit test fails on it; `Checksums` of `Persistence`); the rebuild flag is
tested and set in two steps; the operators of a query do not decide what is returned; a
signal between `listen` and the flag is forgotten; a client that hangs up ends the
server on POSIX; silent clients hold the workers for ever; a hole that overlapping saves
leave in `index.dat` may load as an empty index; `FIELD ":"` before a phrase is not a
field query; a snippet may lose text to terms that begin with other bytes than letters
and digits; fields are read inside scripts; positions run through all fields; the client
turns the 409 of a refused rebuild into "accepted".

## 5. Proofs

`IndexRcuProofs` proves the invariants of the `index_rcu` run for any finite pool of
workers, any set of instances and any bound on lost increments. A finite behaviour loses
finitely many increments, so the bound does not restrict what the invariants say.
Assumptions: the workers are finitely many, `First` is an instance, NULL is not, and
freed memory holds integers. The invariants are not inductive one by one. `IndInv` adds
to them that a builder's instance is private to it, that everybody who holds an instance
holds an allocated or freed one but never an unused one, that a worker between load and
store still sees the active instance (no swap can happen under the read lock) with a
register that is at most the references there are, and that an instance being freed is
retired and was released by its last holder. The argument of `CountOff` is the heart:
the count of a live instance is the number of its readers plus one while it is owned,
minus at most `lost`; a store that erases k increments raises `lost` by k. `ReaderSafe`
follows: with `lost = 0` the count is exact, so it cannot be 0 while a reader is left.
`SaverSafe` and `FlagCovered` have a small invariant of their own, `FlagInv`.

`HttpServerProofs` proves of `RateLimiter` the type invariant, `RateBound` and the two
service guarantees for every burst of at least the rate. `RateBound` is inductive with
the types: a refill of r tokens needs the clock to advance by at least r / rate, whether
or not the clock went back in between. `PoliteNeverRefused` needs that, while the clock
only advances, a bucket holds at least the rate minus what the client sent in the
current second.

`SearchServiceProofs` proves the types, `EntryMatchesPath` and `NothingOlderThanClear`
for any pool, paths, capacity and number of rebuilds. Assumptions: special values
are none of the ordinary ones, the pool is finite and not empty. `EntryMatchesPath`
is about what a request ends with; `IndInv` says what it has on the way: with a
position per thread, worker t has dealt with the first k parameters of its path,
its position holds the rest, and `q` and `page` are what the first k say (`Parsing`).
At the end k is the length and `ChosenOf` is `Chosen`. That nobody else moves the
position is the one place where `ThreadLocalStrtok` is used, and the lemma that fails
without it. `NothingOlderThanClear` needs that a search that is not a laggard evaluates
on an index no older than the clear (`Fresh`), and that a path is cached once.

`PersistenceProofs` proves the types, `NoTornIndex` and `DiskMatchesServed` for any
pages, workers, crashes and failed saves. The checksum of a file is junk, that of one
whole index or that of zeros (`SumOfOne`), whatever the buffer was that a save computed
it from; a file that can be loaded is therefore one index from end to end, or a hole
(`WholeNext`). A hole is there only where a save emptied the file under another
(`Kept`): what a save has written stays until the file is opened again. Without
overlapping rebuilds one worker at a time is past `RebuildBuild`, it has published what
it saves, and what it has written so far is that index.

`HttpServerProofs` proves of `Lifecycle` the types, `OneMoreAtMost` and the action
property `ExitAnswersAll` for any pool, any clients and both platforms: when the server
ends by itself no worker holds a connection, and on Linux no client was left without its
answer. The type invariant holds the pairing of workers and connections; the inductive
one adds that only `WSACleanup` cuts connections and only a cut leaves a client waiting
(`CutSound`), that the queue holds each unaccepted connection once, that there are no
workers before the pool is started, and that a worker in `accept` has accepted nothing
since the flag fell.

`DocumentTextProofs` proves `LinearScan` for pages of any length of any pieces: every
round leaves the position further on, also where a closing tag or comment is missing, so
the rounds are fewer than the position. `FieldsFound` follows from types and, for a tame
page, `Orderly`: the flags say which raw region the scan is in, it is never inside a
comment or the title, and the fields are those of the tags before it. A round adds the
tag it comes to and then leaps over a region in which nothing stands outside
(`InsideLeap`), so no tag is missed and none is taken from a comment or a title.
`BodyIsVisible` rests on the same leaps. Before each piece (`Bodied`) the body has, of
the visible places behind the scan, all that are no white space and of white space those
right behind such a place, in their order (`Squeezing`). What a character does follows
from the last one of the body: the white space it reads is led by text exactly if the
body ends in text (`LedByLast`), which needs one thing more of the body, that no visible
place follows the text it ends in (`EndsIn`). The trim at the end takes away at most one
place (`TrimmedIs`). `TokensExact` has an invariant for each of its two loops. After `i`
characters (`Scanned`) the buffer holds the stretch since the last separator, or as much
of it as there is room for, and the words that ended before `i` are kept if they fit,
each with the number of words before it; a word that is cut short fills the buffer, and
is longer than `MaxLen` because `MaxLen + 1 < BufSize`. After `f` fields (`StreamTo`)
the position is one more than the number of their words, so the next field continues the
order. The module also proves `SnippetIsExcerpt` and `WordEndsMarked` for any page,
query, window and stride. That the snippet shown belongs to the body as it is needs only
that the body stays once the scan is over (`Shown`); the rest is about `SnippetOf`. The
windows are counted by loops, which `LoopExists` gives their value and `CountUp` their
invariant. The output after `i` rounds has the `Shape` of one that has reached `i` or
the end of the last mark, with the right places marked, and that takes at most four
characters a place, and three more behind a mark. A mark of two characters or more takes
at most nine beside its own, and two marks never touch, since behind the first stands
nothing that continues a word while the second begins with a letter or digit
(`HeadedByLetters`, a premise of the property); so no guard of the loop ever drops
anything if `Slack > Window + 13`. The assumptions used are that one and that the terms
are tokens, of at least `MinLen >= 2` characters: with terms of one letter the snippet
could run out of room, and with terms of other bytes it does. That the marks are the
ends of words (`IsMarked`) is for terms of letters and digits.

`ClientProofs` proves `OwnSuggestions`, `ButtonMatches` and that a rebuild is posted
once, for any tabs, words and number of calls in flight. At most one call of a route is
waited for (`Sound`); the one for suggestions asks for the present input (`Listens`),
and when there is none the list is already right (`Lists`). The effect and its cleanup
(`RefreshInd`), the unmounting of the admin screen (`RenderedInd`) and the answers
(`DeliverInd`) keep this, whatever the tabs do. The assumptions used are that calls are
numbered and that the empty query and the empty list are none of the ordinary ones.
`ClientSound` adds that the active tab is always among the tabs. Closing a tab is the
step that needs an argument (`CloseInv`): the tabs kept are all those with another id,
so an active tab that is not closed stays, and they are at least as many as stand before
the first one with the closed id (`FilteredIs`), so the left neighbour's place exists
among them, however often the id occurs. That the list of suggestions is made of words
again rests on `Listens`: an answer that is still waited for belongs to an input that is
not empty.

`HttpServerProofs` proves of `LruCache` `WellFormed`, `HotStays` and
`ImplementsAbstractLru` for any keys, values, capacity and any supply of nodes of at
least the capacity. The inductive invariant `Good(c)` says of one sequence `c` of nodes
that it is the list: `head`, `tail`, every `prev` and every `next` are what `c` says,
its nodes are all the allocated ones, no two hold one key, the keys in front of a node
were used since its own was, and `Capacity` keys were used since one that is no longer
cached (`Recency`). Each branch of `cache_get` and `cache_put` is one change of `c`: a
node moved to the front (`MovedList`), the last one dropped (`DroppedList`), a new one
pushed (`PushedList`); the pointer assignments of the branch are shown to give exactly
the links of the changed sequence. What a reader finds by following `next` is `c` again
(`WalkIs`, by the first place where the walk could leave it), so the invariant can be
stated of `Chain`, which is computed from the heap, without a ghost variable. `HotStays`
follows because an evicted node is the last of `Capacity`, and with the new key so many
others were used since. The refinement maps each branch to the action of `AbstractLru`
that does the same to the sequence of entries.

`InvertedIndexProofs` proves `TableSound`, `PostingsExact`, `CountsAgree` and
`ImplementsAbstractIndex` for any terms, hash function, width of a new table, texts and
number of calls. The assumptions used are that document ids are finitely many (they
are ints; `total_documents` is compared with a cardinality), that the stop word is
no term and that NULL is not a list of postings. That terms are finitely many is not
needed: the table only ever holds the keys put so far.

The proof has three layers. The table first: `Well` says that every chain holds only keys of
its bucket, no key twice, that size and the collision counter agree with
the keys held and that the table grew in time; `Ready` adds that `total_terms` is that
size and that the words of the trie are those keys. A resize visits the nodes chain by chain
(`NodesIs`: every node held, once) and pushes each to the front of its new chain
(`SpreadIs`, an invariant over the nodes pushed so far), so the grown table holds the
same keys with the same values (`ResizeIs`, `GrowIs`) and `Rebuilt` counts collisions
exactly. `PutIs`, `AssignIs` and `EachIs` then say that put, the replacement of a value and
the walk over all values are those of a map, whatever the hash does. Above it
the list of one term: the code takes out the first posting of a document, which is all of
them because there is at most one (`RemovedIs`), and appends positions to the
posting it finds, which is `With` of the abstract index (`PostedWith`). Last the loop over
a text (`AllTokensIs`): after `i` tokens the list of a term is the one before with the
positions of the term among the first `i`. The inductive invariant `IndInv` is
`Ready`, that positions are those of the texts remembered (`Exact`), that the store has
each id once (`StoreOK`) and `total_documents` is its length, and that a posted document is
in the store. `CountsAgree` follows; that it survives `index_remove_document` is because
that call leaves the terms, the words of the trie and the store alone.

`QueryProofs` proves `NoWordDropped`, `Ranked`, `MeantIsNearest` and `SuggestTop` for
any words, fields, nesting depth, documents, scores, counts, prefixes and limits. The
assumptions used are that a word or the parts of a field are no operator or sign, that a
field's name is not empty (its word may be), that every word has a spelling, different
ones for different words of the trie, that counts and scores are natural numbers, and
that words of the trie and documents are finitely many. The invariant of a request
(`IInv`) says of each phase that what it holds is what the operators made of the tokens;
the work is about those.

The parser: `Reads(s, p, x)` says that a parsing operator started at `p` has returned a
tree whose terms are the words of the tokens from `p` to where it stopped, at most two a
token. It holds of two trees one behind the other when one begins where the other
stopped (`HoldsBoth`), tokens skipped on the way say nothing (`MuteFirst`, `MuteLast`),
so it goes from `parse_primary` up to `parse_or` through the two loops (`AndTurnGoes`,
`OrTurnGoes`), and from one level to the next by counting levels (`ParseReads`); errors
need no case of their own. The distance: with every column computed, entry (y, x) is the
distance of the first y and x letters (`LevenshteinIs`); once a column is beyond the
bound all later ones are (`StaysBeyond`), and words whose lengths differ by more than
the bound are farther apart than it (`Apart`), so stopping early is right
(`BoundedIsDistance`, stated of any two words). The suggestions: `Better` is a strict
total order of the words, so the number of better words is a different rank for each,
every rank is taken, and the list is the words by rank (`BestFirstIs`); `SuggestTop` and
the tie rule of `MeantIsNearest` follow from the ranks. The ranking: neighbours rise by
at most the tolerance, and so do places apart, by as much for each place between
(`OrderClimbs`). Loops have their value from `LoopExists` and their invariant from
`CountUp`.

Model-checked only: every liveness property (the prover has no rules for fairness and
ENABLED), and that the parser accepts the documented grammar and, but for a field before
a phrase, finds the only tree (`GrammarAccepted`: the reference is recursive over all
ways to divide the tokens).

## 6. Not modelled

Parts marked not modelled in `PROJECT.json`: those planned in section 2, and, for good,
the floating-point ranking formulas, rendering and byte formats (the spelling of HTML,
JSON, HTTP framing, logging), the sample corpus and benchmark programs, and the client's
rendering. Memory exhaustion is not modelled anywhere. Further disagreements met while
reading, not checked by a run: `docs/api.md` 14 calls the rebuild a background one while
it runs in the request, `docs/parsing.md` 23 has `did_you_mean` compared with the terms
of the trie while only the 50 most frequent of its alphabetically first 256 words are
looked at, the parser stops without an error at an unmatched `)` and drops what follows,
a search that missed before a rebuild stores its old answer after `cache_clear`,
`docs/api.md` 15 lists `/cache/clear`, which no handler serves, and the rebuild indexes
pages 1 to 50 while `main` indexes 1 to 52. Of the HTML parser: the words on two sides
of a tag are glued together, a `<` in a script can hide its end tag, a style tag inside
a script leaves the flag up, a page without a title indexes the words of the default
title, lead bytes of malformed UTF-8 swallow a delimiter, and commas in the keywords do
not split them. A snippet moved back to a word may lose the occurrences at its end, and
marks a term that its end cuts out of a longer word. The checksum table may be filled by
two threads at once, with the same values.
