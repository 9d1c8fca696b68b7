# A verification project for cclib

cclib is a C++11 library of small components: counted variables of any type
(`cclvar`), JSON (`ccljson`), wrappers of system calls (`cclsys`), a WebSocket
server over libwebsockets (`cclwebs`), an HTTP server over libmicrohttpd
(`cclhttp`), and helpers for strings, XML, curl, digests and validation.  It has
no documentation beside its headers and `tests/*_test.cc`; every definition here is
translated from `src/lib/` and says where it comes from (PROJECT.json, `map`).

A program built on cclib is single threaded around a poll loop, as the tests
are: it collects the descriptors of the servers, polls, and calls
`process()`; everything else happens in callbacks out of the C libraries.  Only
`cclvar` is meant to be shared by threads: its counters are atomic.

## Inventory

| part | state | operations | how it meets the others | hard behaviour | what makes it correct |
|---|---|---|---|---|---|
| `cclvar` references | `loc_c::m_ref_cnt`, one `m_loc_ptr` per `var_c`, `m_str_map` of interned literals | construct, copy, move, assign, destroy, element access | everything that keeps values: parser, writer, validator | threads; destruction cascades; an assignment out of the container it releases; cycles | the counter is the number of references; deleted once, after the last one; nothing used afterwards |
| `cclvar` values | type and data of a location | compare, hash, copy, index, print | ditto; sets and dictionaries are ordered by `compare` | recursion over shared and cyclic structure; floats that are no number | one total order over all types, which agrees with equality |
| `cclwebs` server | `m_pfd_set`, `m_exc_ptr`, a `connection_c` per websocket with its buffer | `http_func`, `protocol_func`, `process`, destructor | called by libwebsockets, calls the delegate | fragments of several sockets interleaved; exceptions in a callback; closes at any point; descriptors used again | one object per websocket; whole messages in order; the poll set is exact; the delegate hears of every end |
| `cclsys` `pid_c` | `m_pid` | fork and exec, move, `terminate`, `wait`, destructor | kernel | identifiers are reused; `waitpid` interrupted; child ended in between | a signal reaches only the own child; no child is left behind; the status is its own |
| `cclsys` `poll_c` | set of descriptors, cached array | insert, update, remove, ready | poll loop | the array is older than the set; a descriptor is only a number | what is polled is what was asked for |
| `cclsys` descriptors | `m_fd` or a `FILE*` | open, accept, read, write, close, move | kernel | short reads and writes, signals, peers that die, handles used again, errors in between | every handle has one owner and a call reaches its own; bytes come once and in order; nobody waits for ever |
| `cclhttp` server | `m_exc_ptr`, `connection_c` per request, user data of the delegate | `connection_func`, `completed_func`, `upload_data`, `process`, destructor | called by libmicrohttpd, calls the delegate | uploads in pieces, clients that go away, exceptions, connections kept alive | object and user data live as long as the request; the upload is whole; exceptions arrive; a request ends |
| `cclhttp` `post_proc_c` | file and processor | construct, process, destroy | ditto | failing constructors, late data | file and processor released once |
| `ccljson` scanner | position, label | `recognize_terminal`, `pa_json_string`, `append_string` | feeds the parser | no backtracking; two lists of escapes | the languages of the terminals, longest match, round trip |
| `ccljson` parser | stack of states, four stacks of values | shift, reduce, reject | uses `cclvar` | stacks agree only through a generated table | accepts JSON objects, returns their value, ends |
| `ccljson` writer | stack of containers and iterators, indentation | `create`, `create_nice` | its text is for the parser | explicit stack instead of recursion, failing half way | what was written is read back |
| `cclvarval` | schema, table of patterns, two stacks that tell where an error is | `validate` | `cclvar`, `cclstr` | references that lead back, errors at depth, a validator asked again after an error | valid exactly when the schema says so; the stacks lead to the error |
| `cclstr` | none, or a compiled expression | split, join, replace, format, match | used by the validator | empty delimiters and matches | split and join are inverse; loops end |
| `cclcurl`, `cclxml`, `cclcrypto` | handles of C libraries | requests, tree walks, digests | | partial data; ownership | handles released; codings inverse |

PROJECT.json lists every component with what is modelled of it, and every hazard
at its line with the properties that guard it or the reason there is none.

## Modules

| module | models | checked by |
|---|---|---|
| `CclVar` | `var_c`, `loc_c`, the literal pool | `MCVar`: runs `var`, `var_walk`; proofs in `CclVarProof` |
| `CclWebsDelegate` | abstract: what a delegate of `cclwebs` is promised | refined by `CclWebs` |
| `CclWebs` | `context_c` callbacks with libwebsockets around them | `MCWebs`: `webs`; proofs in `CclWebsProof` |
| `CclPid` | `pid_c` with a process table around it | `MCPid`: `pid`; proofs in `CclPidProof` |
| `CclHandle` | who owns which handle: `socket_c`, `pipe_c`, `file_c`; the set and array of `poll_c` | `MCHandle`: `handle`, `handle_empty`; proofs in `CclSysProof` |
| `CclServe` | `fd_c`, `socket_c` and `poll_c::ready` between the processes of `cclsys_test.cc` | `MCServe`: `serve`; proofs in `CclServeProof` |
| `CclHttp` | `server_c`, `connection_c`, the delegate of the tests | `MCHttp`: `http`; proofs in `CclHttpProof` |
| `CclJsonLex` | `recognize_terminal`, `pa_json_string`, `append_string` | in `CclJsonTerminals` |
| `CclJsonTerminals` | reference: the languages of the terminals, written without labels | `MCJsonLex`: `json_lex`; proofs of both in `CclJsonLexProof` |
| `CclJsonParse` | `parse_source` and the parse actions | in `CclJsonText` |
| `CclJsonCreate` | `create`, `create_nice` | in `CclJsonText` |
| `CclJsonText` | writer and parser composed over one text, or a text from outside | in `CclJsonGrammar`; proofs of all three in `CclJsonProof` |
| `CclJsonGrammar` | reference: what JSON is, as a recursive reading of terminals | `MCJsonText`: `json_text` |
| `CclCodec` | `cclcrypto`: base16, base64, password hashes | in `CclText` |
| `CclText` | the loops of `cclstr` and of `stream_c` | `MCText`: `text`; proofs of both in `CclSysProof` |
| `CclValue` | what a `var_c` holds, and `loc_c::compare` | in `CclVarval`; proof in `CclVarProof` |
| `CclVarval` | `validator_c` | `MCVarval`: `varval` |

### CclVar

A *place* is anything that is a `var_c`: a local of a thread, an element of a
container, the slot of a literal in the pool.  `at[p]` is its `m_loc_ptr`,
`cnt[l]` the counter of location `l`, `op` the progress of a thread's
`operator=`, `stack` the nested destructors it is in.  `Ref` and `Unref` are the atomic
operations of `cclvar.h:101-102`; between any two of them other threads run.
`operator=` is three actions (`AssignRef`, `AssignUnref`, `AssignSet`, lines
174-180) with the cascade of destructors in between.  What a container is has no
bearing on counters and is left out.  A program is supposed to keep each
`var_c` object to one thread (`Owner`), as with any C++ object; locations are shared.

`Kept` is a contract of the callers and no code: whoever assigns an element has another local
variable of the same thread that holds the element's container.  The code needs less (that the assignment itself does not
release that container), but a variable of one's own is what keeps other threads from releasing it.
`AliasedWalk` is the one liberty of the caller: `v = v[i]` where `v` is the last
holder of its container.  `var_walk` shows what the order of lines 177 and 178 does
then: the source of the assignment is read out of a deleted element.  The tests
walk that way (`cclvar_test.cc:443-445`).

`OnlyCyclesLeak` is about what no variable leads to any more: `Rooted` are the locations
with a holder outside of all containers, `Reachable` is the least set that has them and is
closed under elements, `Leaked` the live locations beyond it.

### CclWebs

libwebsockets is external: it announces descriptors, establishes, delivers
fragments, asks for writes and closes, any websocket at any moment of a service
call; a callback that returns 1 closes its websocket; destruction closes
all.  `slot` is the session memory of a websocket, `heap` the `connection_c` objects,
`pfds` is `m_pfd_set`, `exc` is `m_exc_ptr`.  `ProtocolFunc` is the whole of
`protocol_func` (59-178), early return included; `AddPollFd`, `DelPollFd` and
`ChangeMode` are `http_func`.  The delegate asks to write after every message.
`view` and `got` are what the delegate was told: they are the variables of
`CclWebsDelegate`, and `DelegateSpec` is the refinement.

The delegate may throw whenever it is called, with other websockets in the same
call, and a websocket may close inside a message.  The code then goes wrong in
ways that the properties state exactly, with history variables that say what
happened: `missed` are websockets whose event came while an exception waited to be
rethrown and was ignored (line 75), `leaked` the objects nobody releases for
that reason, `untold` the websockets that closed inside a message and of which
the delegate hears nothing (line 127).  `ObjectPerConnection` and `ViewAgrees`
say that everything else is as it should be, `NoFault` that a null
pointer is followed only by a websocket whose establishment was missed.

### CclPid

`table` is the kernel's: an identifier is free, running or a zombie, with the
serial number of its process, and can be given out again, to a child or to a
stranger, once it was waited for.  Only when `Hasty` may that happen while an object still
has the identifier.  `pid` is `m_pid`, `call` the member function between two system
calls.  The caller makes any call on any object at any time, also `terminate` and
`wait` of an object that is through (`m_pid` is -1, which no member looks at) and a move
assignment to one that has a process; `wait` may poll (`WNOHANG`), and with `Signals` a handler
may interrupt a `waitpid`, whose result is not looked at.  So the code loses what it owns in ways that are
legal calls, and two history variables, which no step reads, say when it did.  `slips` are the
children waited for while an object keeps their identifier: `terminate()` of a child that
ended reaps it and keeps the identifier, and a call on an object that is through or out of date
waits for a child of another object.  `lost` are the children whose object let go of them while they
were there: another object was moved over it (or itself), it was polled, or a handler ran.  `KillsOwn` says
that a signal reaches another's process only from an object in `slips`, and every process only by
`terminate()` of one that is through; `NoOrphan` that a child is left behind only when it is
in `lost`; `StatusOwn` that a status is wrong only for one of both.  A property that left such a call out
would not see what it does to the other objects.

### CclHandle

`table` is the system's: which serial number, that is which opening, a handle means now; the
lowest free handle is given out next.  `obj[o].h` is the member of an object
(`m_fd`, `m_file`), `obj[o].own` the serial it opened, which no program can see.
`foreign` collects the state of each object whose call reached something else
than its own.  The three classes differ in nothing the properties tell apart: a
move gives the handle away, a move assignment forgets what the left side had, a
`close()` that fails throws before it resets the member, the destructor closes.
`EmptySocket` is what `accept()` returns when nobody waits; `socket_c() =
default` gives it descriptor 0, so that it reaches what has that descriptor
(`handle_empty`).  `poll` is `poll_c`, `asked` what the program asked of it.

### CclServe

The echo server and its clients, and the datagram receiver and its senders, of
`cclsys_test.cc:244-403`, each client a process.  `up` and `down` are the bytes
on their way, `shut` how the server's end of a connection was closed.  One `::write`
takes any part of what is left and one `::read` what has arrived, at most a
buffer, so that a message comes in any pieces.  Clients may die, signals come at
any moment, also between the test of `g_terminate` and `poll`.  An exception ends
its process.

### CclText, CclCodec

`CclCodec` works on bytes.  The digest is a constant, any function to `MdSize` bytes, collisions and
all; what OpenSSL's two functions of base64 write and return (groups, `=` taken for zero bits anywhere,
blanks skipped, -1 for the rest) is modelled and marked external.  Each function answers or throws as the code does:
`PasswdVerify` throws when the hash is shorter than a salt, because `compare` does, and answers no when it ends
within the digest.  `CodecExact` says that each decoder undoes its
encoder and takes nothing but encodings, in the variants it allows, and for a hash whom it verifies, whole and cut at every place: the passwords of
the same digest, which are others only where the digest does not tell them apart.  The
tests of `cclcrypto` try base64 on lengths that are multiples of three only (`cclcrypto_test.cc:55-70`).

A job is one call; each iteration of its loop is a step.  `TextExact` compares what
was built with definitions without loops: `CutAt` says that the tokens joined again are
the text and that no delimiter was passed over.  What the code does and a reader might not expect
is part of the property: `^` matches again right after a match, because
`regexec` is given the rest of the text as a text of its own; `readln` takes the last
character of a text without a newline for one.  A stream that reports an error, and a `vsnprintf` that does, end the call at any point (`Throws`).  `Endless` names the calls that never end, and
`JobEnds` says that there are no others.

### CclValue, CclVarval

`Compare` is `loc_c::compare` over values of all types: a recursive function on pairs of values that nest at
most `Depth` deep (`Nested`), whose body `CompareParts` is given the function for the parts.  `OrderTotal` says that no
value a call is given is misplaced among the values at hand (`InOrder`).  `ValidatePair` is the
recursion of `validate_pair`, with the two stacks as what an exception adds on its
way out (`Pushed`).  `Conforms` is a reader's understanding of a schema, in no
order and without stacks; `Leads` follows the two stacks from the roots of value and
schema and finds the error that was reported.  `keeps` is the order in which a
compiler evaluates `m_regex_map[..] = new ...`: before C++17 the entry may be made
first, and stays without a pattern when the constructor throws; `MaxDepth`
stands for the end of the stack.

### CclHttp

`con` is the daemon's view of a connection, `cls` its `*con_cls`, `heap` the
`connection_c` objects, `bufs` the strings the delegate of `cclhttp_test.cc` keeps
in `user_data` for uploads.  `Headers`, `Handler` and `Completed` are the two
callbacks with the delegate inside them; `UploadLeft` is what
`upload_data()` leaves for the next call.  `Return` is the end of `process()`: what is thrown is the stored
exception, or the error of a run of the daemon that failed, and then the stored one is never seen.  Clients send, finish, go away; the
delegate throws at any point; the server is destroyed at any point outside a call.

### The JSON modules

The scanner reads one character after another, whatever its *shape* allows: a shape is a
set of characters for each position of a text, so that every text of that shape
is scanned.  Its gotos are the labels of
`recognize_terminal`, by group.  The reference languages (`Kinds`) and what may
begin a terminal (`Begins`) are written without the labels, in `CclJsonTerminals`, as what the
parts of a text from one place to another have to be; `Between` tells at which places a character of a string
begins.  `Written` is `append_string`.  `RoundTrip` follows every string over the characters of the shapes, NUL among
them, through writer, scanner and decoder: its image is taken whole, up to the closing quote, as one string, and
decoded to the string; a NUL is written as it is (`ccljson.cc:93-94`) and ends the scan, as the scanner takes it for the end of
the source (488-493).  `DecodesAll`, its last part, is about every string the scanner lets through, written by whom ever: the
`assert(false)` of the decoder is reached by those with an escaped slash, and by no other.
JSON demands a digit
after a decimal point and the code does not: the reference follows the code there.

The parser is given terminals, one after another: any list of them (`FetchForeign`), or those of
the text the writer of `CclJsonCreate` left (`FetchWritten`).  `Shift`, `Reduce` and `Goto` are
the rows of `json_lalr_table`; the actions move values between the four stacks.
States, terminals and rows are sets of tuples, as in the source's table.
`Documents`, in `CclJsonGrammar`, is a recursive reading of terminals with no table, against which `ParsesJson`
compares acceptance, rejection at the first terminal that fits no document, and the value
returned; its first conjunct, `StacksFit`, says that no action pops an empty stack.
Scalars are opaque: numbers do not all come back (floats have six digits).

## Runs

| run | question | bounds |
|---|---|---|
| `var` | counters exact, no use after delete, only cycles leak, every cascade ends | 2 threads with a local each, 3 locations of one element, one literal |
| `var_walk` | `v = v[i]` (violation) | 3 locals |
| `webs` | object per websocket, no stale pointer, poll set, refinement, with exceptions and early closes anywhere | 2 websockets, 2 messages of up to 2 fragments each |
| `pid` | signals, waits and statuses with identifiers given out again at once, every call on every object, polls, overwriting moves and interrupted waits | 3 objects, 3 identifiers, 3 forks |
| `handle` | every call reaches its own, one owner for each handle, what is polled is what was asked | 3 objects, 2 openings, 3 handles, 2 event masks |
| `handle_empty` | the socket that stands for no connection (violation) | 2 objects |
| `serve` | the echo is exact, nobody waits for ever, the loop ends | 2 clients, messages of 0, 1, 3 and 4 bytes, buffer of 2, queue of 1, 2 signals |
| `http` | objects, user data, uploads, exceptions, every request ends | 2 connections, uploads of up to 2 pieces |
| `json_lex` | languages, longest match, what is written is taken whole and decoded, UTF-8 | bare text: 23 characters, up to 5; strings: 7 characters, up to 5; escapes by number: digits 0 7 8 F f; every string of up to 2 characters (`MaxImage`) written and read back |
| `json_text` | acceptance and value of any text; write and read again; both end | 10 terminals; values of depth 3, at most 2 elements |
| `text` | what the text functions and codecs build, take and refuse, and that they end | texts of up to 4 of 3 characters, delimiters of up to 2, 4 expressions, a buffer of 2; byte strings of up to 3 of 9 bytes and texts of up to 5 of 6 characters around base64; digest and salt of 2 bytes, with collisions, passwords of up to 2 |
| `varval` | verdict, error stacks, a second call, the order of values | schemas of 2 levels with every property, right and wrong; 22 values; 2 calls; values nest 5 deep, schemas included |

Why these bounds: two threads, two websockets or two connections are what it takes
for one to disturb another; a third location gives chains and cycles with a bystander;
one variable for each thread means that an element is assigned to elements only (with a second one for one of the
threads the state space is 24 times as large, too large for liveness; `var_walk` and the proofs, which are for any number of variables, have those
assignments); with three identifiers and three forks an identifier is used again while the other two are in
use; with three objects and two openings a handle is closed, given out again and reached by
its former owner; a buffer of two is met exactly, passed by one and met twice; ten terminals hold an object in an array in an object, and two pairs with
one key (nine); five characters reach every label of numbers and words and
their neighbours (`false` has five), and the third shape every label of escapes.
The shape of strings has the three characters that need two when written, and what may follow a backslash.
Deadlock is not checked where a bounded history ends or the program is over; each cfg says which.

Every property of a passing run has a mutant, a plausible slip in the code, that
breaks it under the same cfg: the operators marked *Mutant of* in the modules.

## Fairness

`var`: a thread that is inside a call goes on (weak fairness of each
thread's `Continue`): the operating system schedules threads.  Threads start calls when
they like.  `http`: the poll loop of the tests calls `process()` again and again, and
the daemon serves what is ready in it, as often as its run is reported as failed; clients are not assumed to do anything.  The
loops of `json_text` are sequential code: weak fairness of a turn of the writer or the parser and
of the scanner over a written text; a text from outside may stop anywhere.  `serve`: the
server and each client go on unless they are blocked, as the operating system
schedules processes; nobody has to die, to be signalled or to send a datagram, and a client that is
alive may wait for the server alone.  `text`: a loop goes on.  No fairness
is assumed in `CclWebs`, `CclPid`, `CclHandle` and `CclVarval`; there are no liveness properties there: a child may
ignore SIGTERM and a peer may stay silent.

## Proofs

TLAPS proves, for every value of the constants:

* `CclVarProof`: `TypeCorrect`, `CountersExact` (`m_ref_cnt` is the number of
  references: places that point there plus assignments that hold one),
  `SingleDelete`, `NoUseAfterDelete`, `AssignmentSourceStable`, for any numbers of threads,
  locals, locations and element positions, all finite.  They assume `~AliasedWalk`; the
  run `var_walk` shows they do not hold without.  The inductive invariant
  adds to the counters' sum what is in flight: which locations a destructor in
  progress has taken out of the heap, that nobody refers to those, and what
  each stage of `operator=` holds.  Sums are cardinalities of sets of referring
  places, changed by one element at a time.
  `LeaksAreCycles` (`OnlyCyclesLeak`) follows from the counters: a live location has a
  holder, and if none of them is a variable, one is an element of a location that is itself live
  and not reachable.  `LiteralIsForEver` (`LiteralStays`) is an action property: the pool holds
  its literal in every state, so that no step brings its counter to zero.
  `ValueOrderTotal` (`OrderTotal`) is about `CclValue`: `compare` is a total order that agrees with equality on all
  values without a NaN, of any `Depth` and with any number of parts.  That the recursion has a solution
  (`CompareExists`) and that it is an order (`OrderedAll`) are shown one level of nesting after the other: how two
  values compare depends only on how their parts do (`PartsOnly`), and the order by the first parts that
  differ is one when the parts are ordered (`LexicalOrders`, `EntriesOrders` for keys before values).
* `CclPidProof`: `PidTypeCorrect`, `PidKillsOwn`, `PidStatusOwn` and `PidNoOrphan`, for any numbers of
  objects, identifiers and forks, `Hasty` or not, with interrupting signals or without, and for every caller.
  The invariant says that an object with an identifier holds the process it
  was given unless that process is in `slips` (`HoldsOwn`), that no two objects were
  given one process (`SerialsOnce`), and that a child has an object or is in `lost` (`ChildHeld`).
  Every call is a step of one kind (`ObjectStep`): an object keeps what it has or drops it; what it waits
  for is its own or goes into `slips`, and what it drops unwaited goes into `lost`.
* `CclSysProof`, two components that share no state.  `CclHandle`: `HandleReachesOwn`, `HandleOneOwner`, `HandlePollAsAsked`, for any
  numbers of objects, handles and openings.  `Owned` counts owners by serial
  number: each open handle has the serial of exactly one opening, and one object that was not
  assigned over has it.  `Clean` says that while nothing was reached through an
  empty socket or after a failed `close()`, the handle of every object still means what it
  opened (`Sound`).  `PollInv` is about the set and the array alone.
  `CclText`: `TextTextExact`, for texts, delimiters, data and buffers of any length.  The invariant
  (`Ahead`) says call by call that the pieces built so far are what the call should build of the text behind its
  position: the pieces and delimiters glued together are that part of the text and no
  delimiter was passed over (`Cuts`); the position is behind a whole run of the matched character,
  with as many pieces as runs have begun (`Runs`); for `^` and `$`, how often they have matched
  (`Firsts`, `Lasts`).  `Find` and `Regexec` choose a least or best element: `FindIs` and
  `RegexecIs` say what they choose, and the lemmas after them what that is for each expression.  `Join` and
  `Without` are recursive functions; `Iteration` gives a solution of their equations, and `UpTo` that there is no
  other.  `TextCodecExact`, for byte strings of any length, salts, passwords and any digest: base16 digit by digit (`Halves`
puts the two of a byte together); base64 group by group (`Base64There` that an encoding is one the decoder takes, `GroupThere` and
`GroupBack` that the four digits of three bytes give them back, and the other way round for a text that was never encoded);
a hash by where it is cut (`HashIs`, `CutIs`).
* `CclHttpProof`: `HttpObjectPerRequest`, `HttpUserDataOwned`, `HttpUploadExact`,
  `HttpRethrowsLast`, for any connections and pieces.  The invariant adds
  to the correspondence of requests and objects which stage of an upload a connection is in and
  what its buffer holds then (`Stages`), that no two objects share a buffer
  (`Buffers`), and whose exception is stored at each point of a call (`Calls`).
* `CclWebsProof`: `WebsNoFault`, `WebsObjectPerConnection`, `WebsViewAgrees`,
  `WebsPollSetExact`, for any websockets, objects, descriptors and fragmentations.  The
  invariant says in every phase of a websocket what its session memory is worth
  (`Pointers`): a pointer to a deleted object stays only while the exception that deleted
  it waits, and in that time no callback follows a pointer and no object is made.
  `WebsImplementsDelegate`: `CclWebs` implements
  `CclWebsDelegate`.  `Reassembly` says that the buffer of an object is exactly
  the fragments of the current message that came (`Begun`), and how many messages came
  before; each event is then a step of the abstract specification for its websocket and
  a stutter for all others (`Seen`, `Unseen`).
* `CclServeProof`: `ServeEchoExact`, for any clients, messages, buffers, signals and
  deaths.  At every place between a client's first byte and its last one (still to write, on its
  way up, in the server's buffer, on its way down, got) there is a run of consecutive bytes of
  its message, and each run begins where the one before it ends; a step moves the boundary
  between two of them.  What ties the server to this is that it serves one client at a time
  (`LoopOK`), one that waits nowhere else.
* `CclJsonProof`, for values of any depth and any tab: `JsonIndentWithin`, because the
  indentation is always the tab times the depth and never longer than the buffer grew
  (`LayoutOK`); `JsonWrittenOrRefused`, because all that lies behind the position of each container
  on the explicit stack is writable and what lies above it is the element it is at
  (`WrittenOK`).  `Writable` is a recursive function: that some function satisfies its equation is
  proved without induction, from the largest set of values that are good by what they hold
  (`LevelsExist`).  For texts of
  any length, `JsonStacksFit`: the state stack is a path of the automaton, as each state has
  one set of predecessors and one symbol it stands for (`Below`), and the height of each of the
  four stacks of values is the number of states that stand for its symbols, so that every
  reduction finds what its action pops and a state to go to.
* `CclJsonLexProof`, for texts of any shape and length.  The scanner: `Lang(w, n, s)` says what the
  first `n` characters of a text are when the scanner stands at label `s`, in the words of the
  reference languages.  `LangMore` shows that the gotos of a label lead one character on exactly where the
  language of a label does, `LangUnique` that no text is in the language of two labels: `ScannerInv` (the
  label is the one whose language the text is in) gives `LexRecognises`.  For `LexLongestMatch` a text that
  is at no label is at none with more behind it (`LangDown`), so that a terminal that began with it
  would have to pass a label there.  Scanner and decoder are two programs that must
  agree: the invariant of the second part keeps the labels the scanner went through (`Run`), and the decoder is
  always at a character before which that was label 2, between the quotes; this gives
  `DecodesAll` and `LexUnicodeExact`, that four digits become the shortest UTF-8 of
  their value.  `LexRoundTrip` adds the writer: `Written(s)` is made of pieces, one for each character of `s`, and a
  decoder that reads it stands at the beginning of a piece and has made the characters before it
  (`TripInv`).  The scanner, too, is at label 2 at the beginning of each piece, so that it gives up on the way
  only at a NUL, and returns a string only behind the closing quote.
The assumptions on constants (`FiniteAssumption`, `DistinctAssumption`,
`PidAssumption`, `HandleAssumption`, `HttpAssumption`, `WebsAssumption`,
`ServeAssumption`, `CreateAssumption`, `ParseAssumption`, `LexAssumption`, `ImageAssumption`, `TextAssumption`, `ValueAssumption`, and
`NullAssumption`: that the value standing for no object is none) are evaluated by TLC in the
runs.

Where a proof needs induction over the places of a text or the depth of a value, it is on sets of numbers: the least number that is
not in the set (`Least`, from the well-foundedness of the natural numbers) contradicts the step (`UpTo`).
The theorems of the library that build recursive functions and induct over any data take an operator for a
parameter, which none of the provers can instantiate.

Only model-checked:

* all liveness (TLAPS has no fairness);
* `ParsesJson` beyond `StacksFit`, `ReadBack`, `Verdict`, `AskedAgain`: they compare the code with
  recursive operators over trees (`Documents`, `ValidatePair`, `Conforms`), for which the SMT
  backend is not available.

## Findings

Two runs are expected to fail; PROJECT.json quotes the lines they disagree with.

* `var_walk`: assignment from an element of the variable's own last container
  reads the source out of a deleted element.
* `handle_empty`: the "empty value" of `accept_nonblock()` is a socket with descriptor
  0; its destructor closes whatever the program has there.  The shortest trace is one where `accept_nonblock()` itself
  destroys it, as FIONBIO cannot be switched off again.

Other disagreements met while modelling are exact clauses of properties that pass: the
property says in which case the code goes wrong, and that there is no other.

* `ObjectPerConnection`, `NoFault` (`cclwebs.cc:75`): an exception makes the events of
  other websockets in the same call disappear, although a connection is to be created
  "if connection established" and released "if connection closed".
* `ViewAgrees` (`cclwebs.cc:127`): a close inside a message is not told to the delegate.
* `KillsOwn` (`cclsys.cc:170`): `terminate()` of a child that ended keeps its identifier, which the kernel may give to
  another process before the destructor signals it; `terminate()` of an object that is through means `kill(-1, ...)`.
* `NoOrphan`: an interrupted `waitpid` (`cclsys.cc:158`), a move assignment over an object that has a
  process (`cclsys.h:88`) and a `wait(WNOHANG)` of a running child (`cclsys.cc:186`) abandon the child.
* `StatusOwn` (`cclsys.cc:186`): a poll of a running child and an interrupted wait return an uninitialised local for the status.
* `ReachesOwn` (`cclsys.cc:1027`): after a failed `close()` the destructor closes the
  handle again; `OneOwner` (`cclsys.h:181,207,269`): move assignment leaks.
* `PollAsAsked` (`cclsys.cc:197`): inserting a descriptor that is in the set keeps its old events.
* `ServesAll` (`cclsys.cc:656`): a message that fills the buffer exactly blocks the server.
* `RoundTrip` (`ccljson_parse_actions.cc:260`): an escaped slash, which JSON allows, is scanned and then
  asserted impossible; (`ccljson.cc:93-94,488-493`): a string with a NUL is written raw and cannot be read back.
* `JobEnds` (`cclstr.cc:45,255,283`): an empty delimiter or match never ends; `TextExact`
  (`cclsys.cc:428`): the last character of a text without a newline is lost.
* `CodecExact` (`cclcrypto.cc:195`): base64 gives back the zero bytes of its padding, and takes texts with `=` anywhere;
  (`cclcrypto.cc:72-74`): verifying against a hash shorter than its salt throws `std::out_of_range` instead of answering no.
* `AskedAgain` (`cclvarval.cc:49,288`): a circular reference overflows the stack, and a
  pattern that was refused may be followed as a null pointer the next time.
* `OrderTotal` (`cclvar.cc:49`): a NaN compares equal to every float.

## Not modelled

Pure I/O (formatting of streams, files), OpenSSL, libxml2 and libcurl themselves;
`client_c` of `cclwebs`, which is not implemented; `cclcurl` and `cclxml`, whose
calls keep no state of their own between them; `post_proc_c`, which no program of the
repository uses; `timer_c`, `sleep` and the environment; sub-expressions of regular
expressions; the data race in the
table of interned literals (its outcome is undefined; `Intern` is one step); stack depth
of recursion in destructors; values that contain themselves in JSON (`create` would not end); numeric values in JSON.

## Plan

1. Done: `CclVar` and `CclPid` with proofs, `CclWebs` with its abstract specification,
   `CclHttp`, the four JSON modules, `CclHandle`, `CclServe`, `CclText` with
   `CclCodec`, `CclVarval` with `CclValue`.
2. Done: proofs of `CclHandle`, `CclHttp` and `CclWebs`, with the refinement of
   `CclWebsDelegate`; of `CclPid` with `terminate` and signals; of `CclServe`; of the writer,
   the stacks of the parser and the decoder of strings.
3. Done: the languages of the scanner and the round trip of strings; the text functions and codecs; the order
   of values.
4. Left to prove: that a call of `validate_pair` depends on the table of patterns only through the entries without an
   object (the main part of `AskedAgain`), with its recursion written as a function; its part about circular references
   is a statement about a bound of the run.
5. If they come to be used: `post_proc_c`, the client of `cclwebs`.
