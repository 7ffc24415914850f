# A verification project for http-byte-parser

The repository parses HTTP/1.x messages out of byte buffers, as fast as it can
and without copying, and serialises request/response pairs for Kafka.  It has
four parsers of the same format: a Go parser that rejects malformed input, two C
parsers that assume well-formed input (one looks for a delimiter at a time, one
walks 64-bit masks of delimiters), and picohttpparser behind an adapter.

This directory holds TLA+ modules that model those programs, TLC configurations
that check the modules on small instances, and proofs, checked by TLAPS, that
hold for every value of the constants.

## Inventory

| part | state it keeps | operations | interacts with |
|---|---|---|---|
| `go-approach/httpparser` | a `Parser`: one `Request`, one `Response`, a scratch array of headers for each | `ParseRequest`, `ParseResponse`, `parseHeaders`; lookups on a result | results alias the caller's buffer and the parser's arrays; one parser per goroutine |
| `cfast/common.h` | `http_msg`, filled by the caller's parser | none | the contract of the three C parsers |
| `cfast/cfast.c` | none of its own; the caller's `http_msg` is reused | `parse` | harness, `cparse` |
| `cfast/cfast-simd.c` | the same; locals: chunk, masks, line start, carried colon | `parse` | harness, `cparse` |
| `cfast/pico-adapter.c` | the same | `parse` | `picohttpparser.c` |
| `cfast/common.c` | threads, each with a message and a counter | `worker`, `bench`, `dump` | whichever parser is linked |
| `pico-neon/picohttpparser.c` | `phr_chunked_decoder`; otherwise none | `phr_parse_*`, `phr_decode_chunked` | adapter, `bench_neon.c` |
| `go-approach/cparse` | a global output buffer for the C encoder | `run`, `CShapeEncode` | Go tests call the C parsers through it |
| `go-approach/kafkashape` | `Builder`: parser and output buffer; FlatBuffers builder and offset scratch; Cap'n Proto segment | `Encode` of each encoder | takes a parser's results, returns bytes valid until the next `Encode` |
| `go-approach/cmd/orchestrate` | counters of pairs due, done and failed | the pacing loop | one `Builder` for every pair |
| `go-approach/cmd/bench`, `encprof`, `enctable` | a counter per worker | `benchN` | a parser per worker |
| generated code, vendored code, fixtures, scripts | | | left out |

What is hard to get right here, and what would make each part correct:

* *Offsets.*  Every parser cuts lines by looking for a line feed and stepping back
  one octet.  The Go parser must never slice backwards or index past the end,
  whatever the bytes; the loop is safe only because its cursor always follows a
  line feed.  The C parsers must be right on every well-formed buffer.
* *Chunk edges.*  The mask parser sees a line in pieces.  The first colon of a line
  may be in an earlier chunk than its end; one that belongs to another line must
  not be taken for it.
* *Reuse.*  Parsers, messages and output buffers are reused without being cleared.
  A result must hold nothing of an earlier call, and must live as long as promised:
  a request must survive the parsing of its response.
* *Limits.*  128 headers: the Go parser moves to the heap, the C parsers count on
  and stop storing, and their clients must clamp.
* *Progress.*  Every loop is over input.  None may stand still.
* *Fragments and concurrency.*  The chunked decoder is fed any cut of a body;
  benchmarks run a parser per thread; the C encoder behind `cparse` writes one
  global buffer.

`PROJECT.json` lists each hazard at its line with the properties that cover it.

## Modules

| module | models | built on |
|---|---|---|
| `HttpBytes` | octets, buffers, slices, `bytes.IndexByte`/`memchr`, trimming, loops to the first octet of a set | |
| `HttpGrammar` | which buffers are messages, and when a record of slices is one: said of the whole buffer, without a cursor | `HttpBytes` |
| `ParserContract` | what a Go `Parser` promises, without parsing | `HttpGrammar` |
| `HttpParser` | `httpparser/parser.go` | `HttpGrammar`; refines `ParserContract` |
| `HeaderLookup` | `Request.Host`, `Request.Header` of `parser.go` | `HttpParser` |
| `HttpMsg` | `common.h`, the inputs the C parsers assume, how fields are stored | `HttpGrammar` |
| `ScalarScan` | `cfast.c` called again and again with one message | `HttpMsg` |
| `SimdScan` | `cfast-simd.c`, for chunks of any width | `HttpMsg`; refines `ScalarScan` |
| `Bridge` | `cparse`: `run`, the shims, `cparse_fill` | `HttpMsg`, an instance of `ScalarScan` |
| `PicoGrammar` | which octets `picohttpparser.c` takes for a request, a response or a block of headers, said of the whole buffer by its line feeds | `HttpGrammar` |
| `PicoParser` | `phr_parse_request`, `phr_parse_response`, `phr_parse_headers`, `findchar_fast` | `PicoGrammar` |
| `PicoClients` | a reader that calls them as a message arrives; `pico-adapter.c` | `PicoParser` |
| `ChunkedBody` | what the octets of a chunked body mean, read from the first of them; `decode_hex` | `HttpBytes` |
| `ChunkedDecoder` | `phr_decode_chunked` and its caller | `ChunkedBody` |
| `JsonString` | UTF-8, what a JSON string says, what a value says | `HttpBytes` |
| `JsonEscape` | `appendJSONString`, `appendJSONEscaped`, `appendEscByte` of `shape.go` | `JsonString` |
| `JsonShape` | `Encode` of `shape.go` as a sequence of tokens; a reader of payloads | `JsonString` |
| `Orchestrate` | `cmd/orchestrate`: pacing, the `Builder`, pair after pair | `JsonShape`, an instance of `HttpParser` |
| `FrameLibraries` | the FlatBuffers and Cap'n Proto libraries as far as they are used (external) | |
| `Encoders` | `flatbuffers_encoder.go`, `capnp_encoder.go`, `encoder.go` | `FrameLibraries` |
| `Harness` | `worker` and `bench` of `common.c` and `bench_neon.c`, `benchN` of `cmd/bench` | |
| `HttpGrammarProofs`, `HttpParserProofs`, `SimdScanProofs`, `BridgeProofs`, `ChunkedDecoderProofs`, `JsonEscapeProofs`, `OrchestrateProofs`, `HarnessProofs` | the proofs | |
| `MCHttpParser`, `MCBridge`, `MCSimdScan`, `ScanInputs`, `MCPico`, `MCChunkedDecoder`, `MCJsonEscape`, `MCOrchestrate`, `MCEncoders`, `MCHarness` | inputs for TLC | |

**Bytes and slices.**  A buffer is a sequence of octets read with the code's 0-based
offsets.  A slice aliases its buffer, so it is the pair `[lo, hi)`.  A read outside
the buffer yields `Fault`, which no octet equals; `HttpParser` evaluates the bounds
checks of Go explicitly and records a panic as a status of its own.

**HttpParser.**  `req`, `resp` are the two result structures, `scratch` the two
arrays, `headers` the two slice headers (which array, how long) and `heap` the arrays
`append` makes when a scratch array is full.  A call is cut at its control flow:
entry with the reset of the fields, the first line, one step per turn of the loop of
`parseHeaders`.  Calls of one parser do not overlap, so the steps of two calls are not
interleaved; what a reader of an earlier result sees at each step is.  A message is
read through `Headers(k)`, which follows the slice header into the array it names, so
a later overwrite of the array shows in the earlier result.

**HeaderLookup.**  A lookup changes nothing, so it is an operator, and its property is
about every state: as long as a caller holds a result, a lookup finds the first line of
its *buffer* with the name, found in the octets and not among the parsed headers.

**ScalarScan and SimdScan.**  `out` is the `http_msg`; a call changes only the fields
the code assigns.  An input is a kind and a buffer that is *parsable*: no line feed at
all, or a first line and header lines in good order followed by a blank line or by the
end of the buffer.  That is the precondition of cfast.c:2-3, made precise; outside
it the C code has no defined behaviour and the modules say nothing.  `SimdScan` keeps
the masks as sets of bit numbers; `Loaded` is what the vector registers see, zeroes
after the end of the buffer included.  A step takes the lowest bit of the line-feed
mask, as the code does.

**Bridge.**  A call of `run` passes four stages: the shim, `parse` (the steps of
`ScalarScan`), `cparse_fill`, and the loop that cuts the strings.  The message is on the
stack of the shim and not initialised; `out' \in {out, Junk}` is what it may hold, the
message of the call before or one whose count is past the limit.  `SimdScan` implements
`ScalarScan`, so the two shims of either C parser are the same here.

**PicoParser and PicoClients.**  An action reads one piece of a message, or one header
line.  Reading a piece has an outcome: partial, refused, or how far it got; `Take` goes on
from there or returns.  `block` is how many octets the build searches at a time (16 with
vector instructions, none without), because `findchar_fast` leaves the end of the buffer
to a slower loop that must not rely on it.  `headers` is the caller's array, which a failed
call leaves half written.  `PicoClients` has two callers.  The *reader* calls with longer
and longer prefixes of one stream, each time with `last_len` zero or the length it had when
the message was incomplete.  The *adapter* calls on buffers that have nothing to do with
each other and translates into one `http_msg`, whose slices carry the number of the call
whose buffer they alias.  The accepted format is what the code's tables say, stated in
`PicoGrammar` without a cursor: the library's comments do not define it.

**ChunkedDecoder.**  `decoder` is the structure kept between calls; `buf`, `src`, `dst`
are the fragment of the call in progress and the two offsets in it; `stream`, `fed` and
`decoded` are the caller's side.  `Feed` is a call with any number of octets, none
included; every case of the switch is an action, and so is every digit of a size,
because each changes the structure.  `Exit` is the whole tail of the function: the move
of what was not read, the length returned, the count of overhead and its limit.  Sizes
are unbounded here, which is exact: `MaxHex` digits are what a `size_t` holds.
`ChunkedBody!Meaning` is the reference: it reads the whole prefix that has arrived from
its first octet, with quantifiers in place of states.

**JsonEscape.**  `start`, `i`, `dst` are the locals of `appendJSONEscaped`.  The loop has
four branches and an exit, an action each.  `RuneSize` stands for `utf8.DecodeRune`
(external).  The reference is a reader: `Value` is what a JSON string says, `Text` what it
should say.  The twin for Go strings is the same code.

**Orchestrate.**  The parser is the instance `P` of `HttpParser`, whose steps are steps
of this module while a pair is parsed.  `json` is the reused buffer, which the bytes
`Encode` returned alias, so a property of `json` is one of the bytes a caller holds.
`Encode` writes tokens: a string token is the text of a slice, which `JsonEscape` relates
to octets.  `encoded` is a history variable, what the payload was made of.  The program
sends one pair of files over and over; the model lets every turn bring another pair,
which is how the package comment of `kafkashape` has the `Builder` used (shape.go:6-13).
`Tick` may come between any two steps.

**Encoders.**  Either encoder is called again and again with any pair.  A step is a turn of
a loop or the setting of a field.  `b` is the Builder of FlatBuffers, with the discipline
the library enforces (`nested`: nothing else may be built while a table or vector is open)
and a memory that outlives `Reset`, so that an offset of an earlier frame still leads
somewhere.  `seg` is a Cap'n Proto segment; its pointers are the words' positions.  `cap`
and `buf.cap` count what the libraries had to allocate.  The properties read the frame
back by following offsets, and compare with the pair.

**Harness.**  One thread of control for `bench`, one for each worker, and a clock.  C and Go
differ in how they wait and in what they share, and `program` says which it is.  `work`
counts every batch that was ever parsed.  A batch of parses is one step: the parser used is
the worker's own, which `Isolated` checks.  The warm-up of Go adds to the global sum in two
steps, because it is not atomic.

## Runs

| run | question | instance | what it shows |
|---|---|---|---|
| `parser_calls` | one call on any short buffer; any 3 calls of either kind | a good first line and up to 4 tokens out of `a:`, `a:` CR LF, CR LF, CR, LF, space, `a`; up to 5 out of CR, LF, space, `0`, `000` and a good end; 13 messages after `parser_test.go`, up to 4 headers; room for 2; 6 names to look up | no panic; acceptance and reading are exactly the grammar's; nothing stale, results outlive calls of the other kind, overflow keeps every header; lookups find the first match in any case; every call returns |
| `parser_status` | is an accepted status three digits? | `a 2ab` | no: a finding |
| `bridge_calls` | two calls from Go with an uninitialised message | every first line with up to 1 header line out of 4 and every end, one of each kind with 2 lines; room for 1 | the message is the one in the buffer; Go's strings, body and count are the buffer's, past the limit too; the call returns |
| `simd_agrees` | cfast-simd.c against cfast.c | heads of up to 3 header lines out of 4, 2 request and 3 status lines, 3 ends, chunks of 4 | the carried colon and the masks are exact; each line is the scalar parser's; each call returns |
| `pico_calls` | picohttpparser and its callers | a reader: 2 calls at any two cuts of 16 messages, and of a short request with one octet damaged, with or without `last_len`; the adapter: 1 call on every one-octet damage of a long message, 2 calls on any two of 11 messages, whole or cut; blocks of 4 or none; room for 2 headers | exactly the grammar's messages are accepted, with their length and fields; answers are final; what the adapter translates is this buffer's (the version it does not translate) |
| `pico_trailers` | is a whole message ever called partial? | two blocks of headers, cut anywhere | yes, an empty block: a finding |
| `pico_version` | is a response's version, as `dump` prints it, in its buffer? | the two calls of `dump`: a request, then a response, into one message | no, it is the literal the request left: a finding |
| `chunked_fragments` | the chunked decoder, every cut | bodies of up to 2 chunks (one with an extension, one whose payload is CR LF), 5 ends, every one-octet damage of the bodies of up to 1 chunk, the limits, 24 octets of which 5 are payload; with and without trailers; 2 digits, overhead of 12 | the fragments do not show, in-place moves are safe, the counters agree, every call returns |
| `json_escapes` | the escaping loop | all values of up to 3 octets of 18 kinds, 72 of 6 octets around 4-octet encodings | at every turn the output is the JSON string of the octets passed |
| `orchestrate_pairs` | one `Builder`, pair after pair | 5 pairs (invalid UTF-8, a header more than there is room for, no reason, no headers, broken request, broken response), with and without tag; 2 pairs due per tick, 3 ticks | each payload is its own pair's, failures are counted right, the rate is kept, the program ends |
| `encoder_frames` | one encoder, pair after pair | 4 pairs (empty, 3+1 and 1+3 headers, a large body), 4 calls; buffers and scratch that must grow once or twice | each frame says its pair, the Builder is called in turn, no pair that fits allocates again |
| `benchmark` | workers, clock and join | C and Go; benches of 1, 3 and 3 workers, 2 ticks, up to 3 batches each | no worker outlives the bench or shares its parser; every batch is counted once; the program ends |

*Why the bounds are enough.*  The parsers compare octets with CR, LF, space, tab, colon
and the digits; one letter stands for all others.  A turn of a header loop depends on
the cursor and the line only, so two lines, and one more than there is room for, show
every transition; three calls show a result of each kind and the reuse of both.  A
chunk of 4 is shorter than most lines and longer than some, so a line ends, starts and
has its colon at every offset, and crosses no, one or several edges.  The limits of
128 headers and 64 octets are `MAXH`, `MaxHeaders` and `Chunk`; the proofs cover
their real values.  `MaxCalls` bounds the calls of a behaviour.

For the chunked decoder, `MaxHex` of 2 and `MaxOverhead` of 12 stand for 16 and 102400, so
that both limits are reached and passed; a cut is possible at every offset, and an empty
fragment too.  `json_escapes` has the first and last octet of every class the encoder and
UTF-8 distinguish; three octets show a clean run before, between and after escapes, and
the octets an encoding lacks at the end of a value.  In `orchestrate_pairs` four pairs
come due before the last tick: enough for a good pair after a bad one, a second payload
over the first, and a batch of two.

For picohttpparser, a second call is enough for everything that `last_len` and the earlier
answer can change, and the cut falls between any two octets.  Blocks of 4 octets put the
edge of a block at every place of a name, a path and a value.  Each damage puts an octet
of every class the tables distinguish at every place.  The header lines with and without
name, and one more than there is room for, show each way through the loop.  The encoders
keep only sizes and scratch arrays, so four calls show a buffer that grows, is reused by a
smaller and by a larger pair, and is not grown again.  Three workers include one that ends
before and one that ends after the one that is being joined.

*Fairness.*  Only `WF_vars(Parse)` and its like (`Return`, `Decode`, the loop of `JsonEscape`, `Main`): a call in progress goes on, because it runs on its
caller's thread and waits for nothing.  Nothing makes a caller call, so runs do not
check deadlock.  `parser_status`, the runs of picohttpparser and of the encoders check safety
only and use specifications without fairness.

`Orchestrate` also assumes that time passes (`WF_vars(Tick)`); `MainReturns` needs both.
`Harness` assumes in addition that every worker's thread is scheduled
(`WF_vars(Worker(t))`), which pthreads and the Go scheduler do: workers never block.

*The findings.*

* `ParseResponse` checks the first octet of the status and not the other two; `"a 2ab"` is
  accepted with status code 740, although malformed input should give an error
  (`parser_status`).
* `phr_parse_headers`, called again with `last_len` on a block that is only the empty line,
  answers "partial" for as long as no two line ends in a row arrive: `is_complete` is made
  for messages with a first line (`pico_trailers`).
* `pico-adapter.c` does not fill `version` from the buffer, though common.h:1-2 says that
  every variant conforms to the contract and that all fields are slices of the input, and
  though `dump` prints it for either kind (common.c:78-84).  A request gets a literal; a
  response keeps what the message held, the literal of the request before it or nothing at
  all (`pico_version`).  `Translates` therefore says nothing of the version, neither that
  it is right nor that it is not.

One comment is imprecise: picohttpparser.c:724 speaks of an overhead above 80%, and the
condition (line 727) of less than a quarter of payload, which is above 75%.  The model has
the condition; `chunked_fragments` holds a body that is refused at 79%.

## Proofs

All for every set of buffers, every size of the arrays and every number of calls; the
only assumptions are the named `ASSUME`s: buffers are sequences of octets, sizes are
naturals (`MaxHeaders`, `Chunk`, `MaxHex` and `MaxOverhead` positive), an input of the C
parsers is a kind and a parsable buffer, and no bench starts more workers than its arrays
hold.  Each invariant below was checked by TLC before it was proved.

**HttpGrammarProofs** has the lemmas the other modules share: what the `CHOOSE`s of
`HttpBytes` choose, that the octets of a line determine its slices, and that trimming a
value removes blanks and nothing else.

**HttpParserProofs**, in three layers.

* `TypeCorrect`, `PanicFree`, `MessagesLossless`.  None of the three is inductive alone.
  `IInv` adds that at most one call is in progress (`OneCall`), that its headers start empty
  (`Fresh`), and `Progress`: in the header loop the first line and the headers so far cover
  the buffer up to the cursor.  So the octet before the cursor is a line feed, a line found
  from there has at least two octets before its end, no slice is cut backwards, and
  appending one header line extends the cover (`HeadersExtended`).
* `ImplementsContract`: every step of the parser is a step of `ParserContract` or leaves it
  as it is.  `IInv` says that what is accepted is a message; the contract also needs that
  what is rejected is none.  `CInv` adds `LinesScanned` (the lines before the cursor were all
  good header lines) and `Verdict` (a call that ended has the answer the grammar gives).
  Each of the ways to reject then contradicts one clause of `WellFormed`: the first line
  (`NoFirstLineDecides`, `NoSpaceDecides`), the line at the cursor, or the missing blank line.
* `LookupsFindFirst`: `FInv` adds that the headers kept are in the order of their lines and
  that every line has one, so the first header with a name is the first line with it.

**SimdScanProofs**: `TypeCorrect`, `NothingIsLost` and `SimdImplementsScalar`.  The
invariant is `NothingLost` (the masks are the positions from the line start on, the carried
colon is the line's first, no line feed was passed) with where the line starts: after a
line feed and no later than the header lines stop.  The lemmas `LineEndFound` and
`LineColonFound` turn bits into the searches of the scalar code; `LineShape` shows that
"one octet before the line feed" and "starts with CR" mean the same on parsable inputs;
`SpaceSkipped` that skipping one space first changes nothing.  The refinement maps the
scalar cursor to `line_start`; steps on chunks stutter.

**BridgeProofs**: `TypeCorrect`, `MessageIsRead`, `ResultIsText`.  `ReadsMessage` speaks of
a message that has returned; the invariant `BInv` says it of one half read: `Holds` relates
the count to the line feeds and to the line starts passed, and each stored header to the
line of its index.  Both counts are needed, the first for `ReadsMessage`, the second for the
rank of a header line in `Decodes`, and one line adds one to each (`OneMoreLine`).  Nothing
is assumed of what the message held before the call, which is why junk on the stack cannot
show.

**ChunkedDecoderProofs**: `TypeCorrect`, `DecodesInPlace`, `EveryOctetAccounted` and
`CutDoesNotShow`, for every stream, every cut and either limit.  The invariant of the first
three is their conjunction with `Charged`:
during a call the overhead of the calls before and the payload collected before add up
to what had been fed when it began, so that the difference at its end cannot wrap.
`MemmoveMoves` says which octets a move leaves alone, and `ExitKeeps`, `AdvanceKeeps` and
`ChunkDataKeeps` that each way through the switch keeps `dst <= src`: it advances both
offsets or `src` alone.

`CutDoesNotShow` is about what the calls return, taken together: it compares the decoder,
which reads one fragment after another, with `Meaning`, which reads all octets fed as one
body.  `Incremental` speaks of the moments after a call and is not inductive, for verdict and
payload do not tell where the next call begins.  `RInv` therefore says it also in the middle
of a call (`Reading`): the decoder is at a *place* of a chunk that begins at some `p`, which
its state, the digits counted and the octets left in the chunk describe (`AtSize`,
`InLineAt`, `InDataAt`, `InTrailerAt`), and the body *resumes* at `p`: however much more of
the stream is fed, it means the payload before `p` and then what `From` reads from `p` on.
That quantifier over everything that may still be fed is what makes the next call find the
same chunk.  One lemma per step moves the place (`DigitTaken`, `ExtensionEnds`, `DataTaken`,
`ChunkEnds`, `LineBegins`, ...) or shows that what has been fed is malformed
(`DigitRefused`, `HeaderRefused`, `DelimiterRefused`, ...); `DataMoved` carries the octets
through the in-place `memmove`, and `AllTaken` that a fragment that ends anywhere in a
chunk means "more", in the data exactly if `phr_decode_chunked_is_in_data` says so.

**JsonEscapeProofs**: `StaysInside`, `OutputIsEscaped` and `OutputSaysTheValue`, for every
value.  The first needs that `RuneSize` looks at the octets it counts, and that an octet past
the end is none; the second that each escape is made of printable octets and that the octets
of an encoding are at least 128.  The third compares two functions that are defined by
recursion, on the output (`Value`) and on what was read (`Text`).  `SaysTheValue` is not
inductive: that `dst` and a quote say `x` does not tell what `dst` and an escape say.  The
invariant `VInv` therefore has `Says`: *whatever follows*, what is written says the text of
what was read and then what follows says; and `Splits`: no encoding of the value goes across
`i`, so that reading on from `i` is reading from the start.  `PlainAdds`, `EscapeAdds`,
`ReplacementAdds` and `RuneAdds` are the characters, `AsciiRead`, `InvalidRead` and
`RuneRead` the octets, and `SaysMore` and `TextGrows` put them together.

**OrchestrateProofs**: `RateKept`, for every rate and duration and however the steps of the
parser and of time interleave (the invariant adds that a pair in hand was due, `InRange`),
`TypeCorrect` and `FailuresAreMalformed`.  The last two compose: the parser inside
`Orchestrate` is an instance, its steps are those of an instance of `HttpParserProofs`
(`SameSteps`), so `CInv` holds of it, and `Turn` ties the buffers it was given to the pair in
hand.  A parse of a response leaves the verdict of the request alone (`OnlyOwn`).

`PayloadsSayTheirPairs` is about what the driver wrote.  `EncodedPairsReadBack`, which
speaks of no state, is its core: the tokens `Encode` appends, for any slices of any
buffers, are read as one object with the members `Members` lists.  `Encode` writes from
left to right and the reader descends, so the lemmas meet in the middle: `Extends` says
that tokens put after others leave those where they are, `MemberAt` that the reader
finds a member at a place, and `OpenAt`/`Opened` that an object begun at `q` has so many
members and is still open.  A key with its value is one member more (`PairTokens`,
`OneMore`), and a brace closes the object; that gives the two objects of headers
(`ObjectWritten`), and then the outer one, key after key.  The loops over headers and
metadata are `FlattenSeq`s; that they unfold one element at a time is proved like the
recursions below.  The invariant adds nothing new: the parser's `Lossless` gives that each
slice is cut from its buffer, and `Turn` that the buffers are those of the pair.

**HarnessProofs**: `TypeCorrect`, `WorkersIsolated` and `EveryBatchIsCounted`, for every
number of workers and every sequence of benches.  `IInv` says that only workers that were
started and not joined run, and only while bench waits (`Inside`), that worker `t` has the
parser made for it (`OwnParser`), and that the wait group of Go is the number of goroutines
that run (`Counted`), so that it is zero only when none does.  `WInv` adds what was counted:
the total is the sum over the workers joined (`Summed`), and what Go's global sum lacks is
what the workers still to add to it have counted (`Sunk`).

*Recursion without induction.*  The induction theorems of the library take an operator
as a parameter and cannot be used.  Some of the results above need induction all the same:
that a sum over a set, and a function that goes through a sequence or along the chunks of a
body, exist and unfold.  They are proved by the least counterexample (`LeastElement`, from
the well-foundedness of the naturals): `SumsExist` and `SumUnfolds` in `HarnessProofs`,
`PiecesExist` and `PiecesTyped` in `JsonEscapeProofs`, `NumbersExist` and `LinkedExists` (chunk after chunk) in
`ChunkedDecoderProofs`.

*Only model-checked.*  Liveness (`CallReturns`, `MainReturns`) is out of the prover's
reach.  Two components have no proofs, and their properties rest on the runs alone.
`PicoParser` with its two callers (`TypeOK`, `Recognises`, `Settles`, `Translates`):
`PicoGrammar` quantifies over all line feeds of a buffer, and the parser resumes with a
longer buffer, so the invariant has to say of every cut what its verdict was.  `Encoders`
(`TypeOK`, `SaysThePair`, `SteadyState`): the frames are read back through offsets in
memory, so the invariant has to say of everything written so far where it lies; and that a pair
that is nowhere larger needs no more memory compares two sums over all objects of a frame.

## Not modelled

* Lengths above 2 GiB, which the C code casts to `int`.
* How the lanes of vector registers become a mask or an index: both modules start from the
  set of octets found.
* Input outside the C parsers' precondition, in particular a buffer that ends with a lone
  CR, where `cfast.c` returns a body of length -1.
* The encoder behind `cshape_shim.c`: `cshape.c`, which it includes, is not in the
  repository.
* More processors than the 256 entries of the benchmarks' arrays, and threads that cannot
  be created: the code checks neither, `Harness` assumes neither happens.
* Reading fixtures, printing, the arithmetic of rates.
* `encprof` and `enctable`, which time encoders in a loop and print; the comparisons with
  third-party JSON libraries; fixtures and scripts.
* Generated accessors beyond those of a field by name, and vendored code.  One vendored
  file, `simdjson.cpp`, is 65338 of the 66681 lines of the implementation, so the map covers
  a small share of the lines although it covers most of the rest.

## Plan

What a next step would be, in this order:

1. `PicoParser`: the types, then `Recognises` from an invariant like `Progress`.
2. The frames of `Encoders`: that offsets point back, and that nothing is built out of turn.
3. Agreement of `HttpParser`, `ScalarScan` and `PicoParser` on the inputs all accept.
