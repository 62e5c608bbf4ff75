# TLA+ models of go-nix

go-nix is a collection of Go packages for the file formats and computations of
Nix: the NAR archive format, `.drv` files and the store paths computed from
them, stores of derivations, store paths, hashes, `.narinfo` files, and the
command `gonix`. This directory holds TLA+ modules that model the parts of it
that have state or logic of their own, the TLC configurations that check them on
small instances, and theorems about them that TLAPS checks for every instance.

All paths below are relative to the root of the repository.

## 1. Inventory

| component | source | state | operations | modelled |
|---|---|---|---|---|
| `nar.Reader` | `pkg/nar/reader.go`, `util.go`, `header.go`, `types.go` | the `io.Reader`, `contentReader`, the channels `next`, `headers`, `errors`, the error fuse `err`, `previousHdrPath`; the stack of `parseNode` | `NewReader`, `Next`, `Read`, `Close`; the parser goroutine | `NarReader` |
| `nar.Writer` | `pkg/nar/writer.go`, `util.go`, `header.go` | the `io.Writer`, `contentWriter`, the channels `headers`, `doneWritingHeader`, `errors`, `closed`; the stack of `emitNode` | `NewWriter`, `WriteHeader`, `Write`, `Close`; the emitter goroutine | `NarWriter` |
| `wire` | `pkg/wire` | `BytesReader` and `BytesWriter`: length, bytes still due, padding | `ReadUint64`, `ReadBytes`, `ReadString`, `WriteUint64`, `NewBytesWriter`, `WriteBytes`, `WriteString`, `Write`, `Read`, `Close` | `Wire`; as packets of an archive in `NarPacket` |
| derivation paths | `pkg/derivation` | none: pure functions of a `Derivation` and a map of replacements | `Validate`, `WriteDerivation`, `DrvPath`, `CalculateOutputPaths`, `CalculateDrvReplacement` | `Derivation` |
| `derivation.Store` | `pkg/derivation/store.go` | interface | `Put`, `Get`, `Has`, `Close` | `DrvStore`, abstract |
| `MapStore` | `pkg/derivation/store/map.go`, `util.go` | two hash maps: derivations and replacements | `Put`, `Get`, `Has` | `MapStore` |
| `BadgerStore` | `pkg/derivation/store/badger.go`, `util.go` | a badger database with the keys `drv:` and `replacement:` | `Put`, `Get`, `Has`, `Close` | `BadgerStore` |
| references | `pkg/storepath/references` | the buffer of up to 32 bytes, the hits | `NewReferenceScanner`, `Write`, `References` | `References` |
| ATerm codec | `pkg/derivation/encode.go`, `parser.go`, `derivation.go` | none | `WriteDerivation`, `ReadDerivation` | `ATerm` |
| `nar.DumpPath` | `pkg/nar/dump.go` | none but the file system it walks | `DumpPath`, `DumpPathFilter` | `DumpPath` |
| `nar/ls` | `pkg/nar/ls` | none | `ParseLS` | not modelled: a check of decoded JSON |
| `gonix` | `cmd/gonix` | none | `nar cat`, `nar ls`, `nar dump-path`, `drv show` | partly: `NarTools` |
| storepath, nixbase32 | `pkg/storepath`, `pkg/nixbase32` | none | parse, format, validate | `StorePath` |
| nixhash | `pkg/nixhash` | none | parse, format | partly: `NixHash` |
| narinfo | `pkg/narinfo` | none | parse, format, fingerprint, check | `NarInfo` |
| signature | `pkg/narinfo/signature` | none | generate, sign, verify | `Signature`, over an ideal Ed25519 |
| `FSStore`, `HTTPStore`, `NewFromURI` | `pkg/derivation/store` | none | one file or one request per call | not modelled |
| sqlite | `pkg/sqlite` | the databases of Nix | one SQL statement per function | not modelled: generated by sqlc |

### How the components interact

* `Reader` and its parser goroutine share one unlocked `io.Reader` and the field
  `contentReader`. They hand both to each other over unbuffered channels: a
  `Next` sends on `nr.next`, which resumes `parseNode`, and waits for a header
  or an error. `parseNode` calls `wire.ReadString` for tokens and
  `wire.ReadBytes` for the content of a file, which the caller then reads.
  `Close` closes `nr.next`.
* `Writer` is the mirror image: `WriteHeader` sends a header to `emitNode` and
  waits until the emitter has written everything in front of the content, or
  gives up with an error; `Write` fills the `wire.BytesWriter` of the current
  file; `Close` closes the channel of headers and waits for the last error.
* The stores call `Validate`, look up every input, compare the output paths
  with what they compute from the *replacements* of the inputs that earlier
  `Put`s left behind, and then store the derivation and its own replacement.
  They never walk the tree of inputs: correctness of one `Put` rests on all
  `Put`s below it.
* `gonix nar` drives a `Reader` or a `DumpPath`, which drives a `Writer`.
* What one program writes another one reads, often much later and over a
  network: `.drv` files, archives, `.narinfo` files, hashes and store paths in
  texts. Readers and writers of one format share no code but a few tables.

### What is hard in each, and what makes it correct

* **`nar.Reader`.** Two goroutines, two directions of hand-over, and an archive
  that may be wrong anywhere. Only the order of channel operations keeps the
  goroutines from touching the same reader at once (`HandoffExclusive`); a
  `Read` must see the file of the last header and no other
  (`ContentMatchesHeader`); an error at any depth of the recursion reaches the
  waiting `Next` (`NextReturns`) and stays (`FuseIsFinal`); headers come
  parents first and siblings in order, although only neighbouring headers are
  ever compared (`ParentsFirst`, `SiblingsInOrder`); on a correct archive the
  whole of it is the plain cursor its comments describe (`ImplementsCursor`).
* **`nar.Writer`.** The headers come from outside, in any order, and each
  active `emitNode` must tell from a relative path whether a header is its own
  entry, belongs further up or is wrong (`CleanCloseIsArchive`,
  `GoodHeadersAccepted`); files may be left short and the `io.Writer` may fail
  at any time, and then nothing more may be written and no call may block
  (`OutputAligned`, `ErrorIsFinal`, `CloseReturnsAlways`,
  `WriteHeaderReturnsAtFirst`, `ClosedWriterEnds`).
* **`nar.DumpPath`.** The files change between any two system calls, calls fail,
  the `Writer` fails; still the result is a whole archive or an error, the call
  returns and the emitter goroutine ends (`CleanDumpIsArchive`,
  `CalmDumpIsFiles`, `DumpReturns`, `GoroutineStopped`).
* **Stores.** The replacements kept from earlier calls must be those the whole
  tree gives (`ImplementsStore`), derivation and replacement must go together
  in spite of errors, crashes and concurrent `Put`s (`ReplacementsComplete`,
  `KeysTogether`), what was acknowledged must stay (`AcknowledgedStays`) and
  good derivations must be taken (`GoodAccepted`).
* **References.** A hash may be cut by a chunk or preceded by bytes of the same
  alphabet (`HitsOccur`, `DelimitedFound`).

* **Wire.** The `io.Writer` may take less than it is given, the `io.Reader` gives
  what it has; lengths are unsigned and are added and cast (`PacketWhole`,
  `ReadBack`).
* **Codecs.** The parser of `.drv` files never sees the grammar as a whole:
  `arrayEach` counts brackets, the callbacks take off quotes. What a writer
  writes its reader must read back, and what is lost of a text that is accepted
  must be known (`WrittenIsRead`, `ReadKeepsAll`, `Base32Exact`, `StorePathsReadBack`,
  `NarInfoReadBack`).
* **Commands.** `nar ls` ends early by an order that is not that of the archive;
  when it ends too early must be known (`LsAndCatFind`).

The full list of hazards, each with its line and the properties for it, is
`hazards` in `PROJECT.json`.

## 2. The modules

| module | what it is |
|---|---|
| `NarPath` | names and paths: `IsValidNodeName`, `path.Join`, `PathIsLexicographicallyOrdered`, byte by byte |
| `NarPacket` | the packets a NAR consists of |
| `NarReader` | `nar.Reader`: the parser goroutine and the caller |
| `NarCursor` | what `nar.Reader` promises: a cursor over a list of headers |
| `NarWriter` | `nar.Writer`: the emitter goroutine and the caller |
| `DumpPath` | `nar.DumpPathFilter`, which drives `NarWriter`, and those who change the files |
| `NarFormat` | reference: the archive and the listing of a tree, by recursion over it |
| `NarGrammar` | the same as rules, for the proofs: the order of a tree and the archives the grammar derives |
| `Derivation` | `Validate`, the masked and replaced ATerm, `DrvPath`, `CalculateOutputPaths`, `CalculateDrvReplacement` |
| `DrvStore` | what `derivation.Store` promises: a set that grows by one correct derivation at a time |
| `DrvTrees` | reference: the hashes of derivations by a walk of the whole tree; small worlds of derivations |
| `MapStore`, `BadgerStore` | the two stores that `Put` |
| `References` | the reference scanner |
| `Wire` | `BytesWriter` and `BytesReader` on one field, byte by byte |
| `ATerm` | the text of a `.drv` file: `WriteDerivation`, `arrayEach`, `parseDerivation`, what `Validate` asks of it |
| `StorePath` | base 32 and store paths, character by character |
| `NixHash`, `Signature`, `NarInfo` | hashes in their encodings, named keys and signatures, `.narinfo` files |
| `NarTools` | the loops of `nar ls` and `nar cat` over the headers of an archive |
| `…MC` | instances for TLC, with the properties that compare a module with a reference |
| `…Proofs` | theorems |

Some modules contain operators marked *Variant*: forms that a small slip in the
code would give to the definition that follows. Nothing uses them; `mutants` in
`PROJECT.json` names the property that each breaks.

### NarReader

`pos`, `inside` and `off` say where `nr.r` stands: at which packet, within its
content or not, and how far. An archive is a sequence of packets, each a string
or a content, its size in units that can be read one by one, and how much of it
is there (`have`): all, all with bad padding, or cut at one of the places the
code can tell apart, in the length field, behind it, within the content, behind
it, or within the padding, or with a length above `MaxInt64`. `ReadString` and
`CloseContent` give what `wire.ReadString` and `BytesReader.Close` make of them,
including the `io.EOF` of a cut at a boundary and the padding errors that the
deferred `Close` of `ReadString` drops.

`parseNode` is recursive. `todo` is its call stack, written as the sequence of
what is left to do in all active calls: `Continue` replaces the head of it, an
error empties it, and a `nil` returned by the innermost call on `Close` drops
only that call's part, so that, as in the code, the calls around it go on
reading. One action is one stretch of `parseNode` between two reads or channel
operations; each has one `ReadString` at most. `ppc` and `cpc` say where the
goroutine and the caller are; an unbuffered channel operation is one step of
both (`Start`, `Resume`, `TakeHeader`, `TakeError`).

`Close` behind a header leaves the parser in its unwinding, with reads that
begin within a content (`inside` while a token is read): there `ReadString` may
fail or yield any token.

`content` is `nr.contentReader`: what its limit still allows, and, as history,
whose it is. `delivered` is a history of the headers `Next` returned. A caller
that goes on to `Read` after `Close`, which the code does not refuse and which
races with the unwinding parser, is left out.

### NarWriter

`out` is what was written, as packets; a content whose bytes or padding are not
complete has `have = "none"`. `stack` is the stack of `emitNode` calls, `next`
the variable `nextHeader`. While the emitter works the caller waits for it, so
what it writes between two channel operations is one step; with `WritesFail` the
step may end after any of its packets. A header has a path, a type, a size and
`exec`; link targets are one string. Left out: a `Write` before the first
`WriteHeader` (a nil content writer) and `WriteHeader` after `Close` (a send on
a closed channel), which both panic; headers that `Validate` refuses for a path
with a null byte or without a slash in front, or for a link target that is
missing or out of place (`header.go:27-35`, `52`); and a regular file of negative
size, which it does not refuse and which `writer.go:132` casts.

### DumpPath

Extends `NarWriter` and takes the caller's part in it: `SendHeader`, `Copy` and
`CloseWriter` contain the caller's actions, and `Emitter` is the writer's own
`Library`. Each system call is a step that sees the file system `fs` as it is at
that moment; `Change` puts any other file system in its place at any time, and
gives the file that is open any size. Any call may fail (`Breaks`), any write to
the `io.Writer` too. The recursion of `dumpPath` is depth first and carries
nothing back but an error, so its stack is `todo`, the paths still to be dumped.
`calm` is a history: nothing has changed and nothing failed. The filter is the
set of paths it omits. A link that has come in the place of a regular file is
followed by `Open`, as in the code; one that `ReadDir` would follow to a
directory is left out.

### Derivation, MapStore, BadgerStore

A hash is the term that is hashed: equal exactly when the inputs are equal. The
parts of a derivation that only matter as something that is hashed (platform,
builder, arguments, sources, the other variables) are one value, `rest`: their
text. The text does not tell how it splits into arguments, which are written
without escapes (`encode.go:63`); that is the field `args`, and `ATerm` and
`DrvPath` do not depend on it. So two derivations may have one text and one path
(`Twin` in the worlds of both stores). The names of outputs and variables are taken to have
no quotes. `MapStore` keeps derivations, `BadgerStore` texts; for `DrvStore` a
path and the text at it are what is stored. Output
names used of an input are a set: their order in the list, which does enter
the hash in the code, is left out. So is the combination of `__json` with a
separate name. What `writeDerivation` may yield is a set of terms, because the
order of two Go maps decides which of two inputs with one replacement stays
(`ReplacedInputs`); the set is empty when it returns an error.

`MapStore` is not thread-safe by its own comment: one action is one `Put`.
`Get`, `Has` and `Close` change nothing. `BadgerStore.Put` is what the code
makes of it: a transaction per input (`Has`), one that reads replacements
(`ReadReplacements`, with the loop that returns in its first round), one that
writes both keys (`Write`), all of them interleaved with other workers' and with
crashes. A transaction of badger is atomic and, once committed, survives the
death of the process (with the default options the store uses; a power failure
may lose the last ones); that is assumed. A panic in a `Put` ends the process,
as `Crash` does. A crash between a commit and the return of `Put` is not a state
of its own: the model's `acknowledged` is then larger than what a caller has
seen, which makes `AcknowledgedStays` only stronger.

### References

One step of `Scan` is one round of the loop over the bytes of a chunk. The
history `data` holds the bytes seen so far.

### Wire

A field is written by `WriteBytes` or by a `BytesWriter`, any part of which may
fail or be cut short, and is then read by a `BytesReader` or by
`ReadBytesFull`. `head` is the length field, `out` the bytes behind it,
`content` those of them that were content: what a reader returns is compared
with it. The numbers have a width: `Exceeds` adds as `uint64` does and `Signed`
is the cast to `int64`. A length field that is cut is none: `ReadUint64` treats
both as an error. The reader begins when the writer is done, so that the end of
`out` is the end of the stream.

### ATerm, StorePath, NixHash, Signature, NarInfo, NarTools

These are pure operators, the functions of the code, whose results are compared
with each other. What may fail is the set of its results. A text of `ATerm` is a
sequence of characters, with words that hold no special character (`Derive`, a
store path) as one. `Scan` is one round of the loop of `arrayEach`; its callbacks
are operators passed to `ArrayEach`. `Validate` is the same function as in
`Derivation`, here asked of the text's own fields, and its answer depends on the
order of a Go map if there is both a name and structured attributes
(`MayHaveName`). `StorePath` works on characters and bytes, with the bits of each
digit. `NixHash` knows of a text its length and the one encoding it is valid in,
`Signature` whose key signed what. A `.narinfo` is a sequence of lines with typed
values. `NarTools` walks a listing, which by `ImplementsCursor` is what a
`Reader` yields.

`CodecsMC` types texts: a state is a kind of text and the pieces typed so far, so
that TLC visits every text of so many pieces, and the properties are about each.

## 3. What the runs check

| run | property | what it says |
|---|---|---|
| `NarReader` | `HandoffExclusive` | while the `Reader` is open, the parser works exactly while the caller is in `Next` |
| | `ContentMatchesHeader` | whenever the caller may `Read`, the content is the rest of the last header's file |
| | `ImplementsCursor` | refinement of `NarCursor`, with liveness: on the archive of a tree every header in order, the right bytes, `io.EOF` at the end and only there, and a `Next` returns |
| | `ParentsFirst`, `SiblingsInOrder` | even of a wrong archive the caller sees a directory before its entries, and entries in order |
| | `FuseIsFinal` | after an error nothing but that error |
| | `NextReturns`, `UnusedReaderEnds` | no `Next` hangs; a `Reader` closed before its first `Next` leaves no goroutine |
| `NarReaderBracket` | `EndMeansAllRead` | **violated**, see 6 |
| `NarWriter` | `CleanCloseIsArchive` | if no call failed, the output is the archive of the tree that the accepted headers list |
| | `GoodHeadersAccepted` | a header that continues the listing of a tree is only refused behind a short file |
| | `OutputAligned` | nothing is written behind a packet that is not complete |
| | `ErrorIsFinal` | after a reported error no packet and no accepted header |
| | `CloseReturnsAlways`, `WriteHeaderReturnsAtFirst`, `ClosedWriterEnds` | no call up to and including the first that fails blocks, nor does `Close`; the goroutine ends |
| `NarWriterDots` | `TreeHeadersAccepted` | **violated**, see 6 |
| `DumpPathTrees` | `CalmDumpIsFiles` | undisturbed, every file that the filter keeps is dumped as it is, each once, and only what no archive can hold is an error |
| | `CleanDumpIsArchive` | however the files change, success means a whole archive |
| | `DumpReturns`, `GoroutineStopped` | the call returns, and the emitter goroutine has ended by then |
| `MapStoreTrees` | `ReplacementsComplete` | a stored derivation and its inputs all have replacements |
| | `GoodAccepted` | a derivation whose paths are those the whole tree gives, with its inputs stored, is taken |
| | `ImplementsStore` | refinement of `DrvStore`: nothing else is taken |
| `MapStoreMirrors` | `OverwriteIsSame` | **violated**, see 6 |
| `BadgerStoreTrees` | `KeysTogether`, `AcknowledgedStays` | both keys of a derivation and of all its inputs; nothing acknowledged is lost |
| | `ImplementsStore` | refinement of `DrvStore` under concurrency and crashes |
| `BadgerStoreInputs` | `GoodPassesChecks` | **violated**, see 6 |
| `ReferencesChunks` | `HitsOccur`, `DelimitedFound` | what is reported stands in the data; every hash behind a byte no hash contains is reported |
| `Wire` | `PacketWhole` | a `BytesWriter` lets no more through than it announced, and closes only behind a whole field |
| | `ReadBack` | a reader hands out what was written as content, reads a whole field to its end and reports what is cut short; of a length that no `int64` holds it hands out nothing |
| `Codecs` | `WrittenIsRead` | what `WriteDerivation` writes `ReadDerivation` reads back, of every place with the characters it is written with, and of a text cut short it reads nothing |
| | `ReadKeepsAll` | the words of what `ReadDerivation` made of a text stand in the text, in their order; all words of the text do, unless a backslash stands outside of strings before a closing bracket (see 6) |
| | `Base32Exact` | base 32 is one to one, and its three tests agree |
| | `StorePathsReadBack` | a path that `PathRe` describes is read and is its own text; what was read is read again, as an absolute path if its name is not empty |
| | `NarInfoReadBack` | a `.narinfo` that is written again says the same, but for a file hash or a file size without the other, passes `Check` if it did, and if it did not, only when what was wrong was left out so; a new signature verifies |
| | `LsAndCatFind` | `nar cat` finds what it is asked for; `nar ls` lists all of it, or nothing exactly when a directory with entries stands before it whose path the one asked for continues with a byte below the slash (see 6) |

The runs of `NarReader`, `NarWriter`, the stores and `References` also check the
type invariant `TypeOK`; that of `Wire` is proved.

### Bounds, and why they are enough

* `NarReader`, on correct archives: all trees two directories deep with the names `a` and `a-`,
  empty and non-empty files, executable ones and links. `a-` is needed: `-` sorts
  before `/`, so a comparison of whole paths would order `/a-` before `/a/a`.
  Two levels give a step of `parseNode` back out of a directory into another
  entry; files of two units can be read in part.
* `NarReader`, on wrong ones: one sample with each kind of node and a nested directory; in
  it every packet is cut at every place the code tells apart, given bad padding
  or too long a length, or replaced by a keyword, a valid and an invalid name or
  a string longer than a token may be; and all directories of two entries with
  names in any order or twice. One flaw at a time suffices for properties of
  what follows the first error; what passes for correct after a substitution
  (another keyword at the place of one) is covered.
* `NarWriter`: up to four headers of any kind at all paths of depth two over
  the same two names, in any order; files of at most one unit. Four headers
  reach two levels down and back up again. `MaxHeaders` bounds the calls.
  Every write may fail.
* `DumpPathTrees`: directories with nothing, a small file, a large one, a link, a
  socket or a directory at `/a`, and a file, a directory or nothing at `/a-`, in
  any of which any other may come at any time; four filters. A file may grow to
  three units (`MaxSize`) where its header announced one or two, and is read in
  chunks of any size. `MaxHeaders` is above the number of paths and never
  reached.
* `MapStoreTrees`: sources with fixed outputs, a library with two outputs, a
  program two levels above the sources, a fixed output with inputs, a program of
  two inputs; five wrong derivations (others' paths, no name, an input without
  outputs), one whose name is empty, and one with the text of another. Three levels make the replacement of a
  replacement matter.
* `BadgerStoreTrees`: the same without the program of two inputs, which
  `BadgerStore` refuses (see 6), two workers, which are symmetric, crashes
  anywhere. Only pairs of workers interact, through keys that both write.
* `ReferencesChunks`: hashes of three bytes, seven bytes of data, chunks of one
  to three bytes, so that a hash is cut into all its parts and follows runs of
  the alphabet; `MaxBytes` bounds the data.
* `Wire`: blocks of four bytes, numbers of four bits, contents of no, one, three,
  four, six and nine bytes, so that there is padding of every kind in the first
  block and in a later one, and lengths that no signed number holds (9 and 15); up to four
  calls of the `BytesWriter` (`MaxCalls`), enough for a write that wraps, one
  that is cut short, and a `Close` that fails and is called again.
* `Codecs`: up to `MaxPieces` pieces of each kind. For the values of variables
  all texts of three characters (a letter, the quote, the backslash, a newline,
  a comma), in each of eight places of a derivation: an escape takes two, so that
  three have every neighbourhood of one. For the fields of a `.drv` file four
  pieces of punctuation, the backslash, words, and whole entries, well-formed or short. Base 32:
  texts of five digits, among them no digit, and digests of three bytes at the
  edges of the bits; beyond five digits the bits repeat. Store paths: five pieces
  such as the store directory, a hash, a bad hash, the separator, a slash, a dot.
  `.narinfo` files of four lines of every key, repeated or wrong. Paths asked of
  every listing two directories deep, with the names `a` and `ab` or `a` and
  `a-`: five bytes.

`CHECK_DEADLOCK FALSE` stands in the runs of `NarReader`, `NarWriter` and
`DumpPath`, where the system may really stop: `DumpPath` returns, a caller need
not call any more, a parser behind a header of a closed `Reader` waits for ever,
and a caller may panic. It stands in `ReferencesChunks`, `Wire` and `Codecs`, which end at their bounds.
The stores never stop.

### Fairness

`FairSpec` of `NarReader` and `NarWriter` is weak fairness of `Library`: the
steps of the goroutine and the two-sided channel operations. The Go scheduler
runs every goroutine that can run, and both partners of a channel operation that
wait for each other go on. Nothing is assumed of the caller: it need not call
`Next`, `Read` or `Close`. As the goroutine and the caller never both have a
step of `Library` that could starve the other, one condition for the disjunction
is enough. `DumpFairSpec` adds weak fairness of the walk: the code between two
calls goes on, and system calls return. The stores, the scanner,
`Wire` and the codecs are checked for safety only.

## 4. What is proved

TLAPS checks every leaf of the proofs, for all values of the constants. The
assumptions are those named in the modules that declare the constants; TLC
evaluates them in every run.

| assumption | what it says |
|---|---|
| `NarPathAssumption` | a name is spelled with bytes |
| `NarReaderAssumption` | the archives are sequences of packets of which only the last is cut; the keywords are strings |
| `KeywordsFit` | the keywords of a correct archive fit the buffers they are read into |
| `NarWriterAssumption` | the headers have paths of names and one of the three types |
| `DumpPathAssumption` | the file systems and filters are made of paths; a directory has finitely many entries |
| `DerivationsAssumption` | a derivation has the six fields of `Derivation` and no other |
| `WireAssumption` | blocks and numbers have a positive size; the lengths are unsigned numbers, a slice has a length that a signed one holds |
| `ATermAssumption` | no two characters share a place in the order of bytes |
| `ReferencesAssumption` | a hash has `refLength` bytes, `refLength` is positive, the alphabet is part of the bytes |

Some theorems have a hypothesis of their own, which the code does not enforce:

| hypothesis | what it says, and what it leaves out |
|---|---|
| `CleanPaths`, `CleanFiles` | no name in a header or in the file system is empty or has a slash. `filepath.Rel` would clean such a path; no file system has one |
| `ReadablePaths` | the names are such that the Reader takes them as they are: at most 255 bytes, no slash or null byte, not empty, `.`, `..`, and not `)`, which section 6 is about |
| `Undotted` | no name in a header starts with two dots: the Writer takes such a name for a way out of the directory, which `NarWriterDots` shows |
| `PlainFiles` | the same of the files that are dumped |
| `NamesAreBytes` | the name of a file is its bytes, as it is in Go |
| `FileTrees` | the path that is dumped exists, and what is above a file is a directory, as in every file system |
| `Solves(Hash, Derivations)` | every derivation, computed from the replacements that `Hash` gives its inputs, has one replacement, and that is in `Hash`. It holds of the hashes of all trees, which TLC evaluates for the worlds it is given (`TreesSolved`), and of no world with two inputs of one replacement (section 6, mirrors) |
| `TextsTell` | no two derivations have one text, as none have of which no argument holds a quote. The code does not ask for it (section 6, `encode.go:63`) |

TLC evaluates the four hypotheses about files for the instance `DumpPathTrees`
(`MCFilesAssumption`).

| module | theorem | what it shows |
|---|---|---|
| `NarPathProofs` | `EntryOrder`, `TreeOrderAccepted` | the comparison of the strings of two paths, made with neighbours in an archive, is the order of the tree |
| `NarReaderProofs` | `TypeCorrect`, `Exclusion`, `ContentOfHeader`, `ParentsDelivered`, `ErrorsAreFinal` | `TypeOK`, `HandoffExclusive`, `ContentMatchesHeader`, `ParentsFirst`, `FuseIsFinal` |
| | `HeadersInTreeOrder`, `SiblingsSorted`, `SubtreesContiguous` | of any archive, however damaged, the headers come in the order of the tree: `SiblingsInOrder`, and all that is below a directory in one run |
| | `ArchivesAreRead` | of the archive of any tree with readable names all headers come, in their order, then `io.EOF`, and no other error |
| | `ReaderIsCursor` | on such an archive the Reader implements `NarCursor`, without its liveness |
| `NarWriterProofs` | `TypeCorrect`, `Alignment`, `ErrorsEndTheArchive` | `TypeOK`, `OutputAligned`, `ErrorIsFinal` |
| | `HeadersAcceptedInOrder`, `CleanCloses` | headers are accepted in the order of the tree only; a Writer closed without an error has written one archive, of these headers |
| | `WrittenIsReadable` | and one that `ArchivesAreRead` applies to, if the names are readable: what was written is read back |
| | `TreesAreAccepted` | `WriteHeader` refuses a header only if no archive goes on with it, if no name starts with two dots: what `GoodHeadersAccepted` says of the small trees |
| | `ArchivesAreWhole` | of every archive: parents first, and all of its packets are whole |
| | `Stopped`, `DumpedIsArchive` | `GoroutineStopped`; a `DumpPath` that returns no error has written one archive, however the files changed meanwhile |
| | `WalkIsNeverRefused` | however the files change, the Writer refuses no header that the walk passes to it, if no name starts with two dots |
| | `CalmDumps` | `CalmDumpIsFiles`: an undisturbed `DumpPath` of any file system succeeds, with every file that the filter keeps, each once; by `DumpedIsArchive`, as one archive |
| `MapStoreProofs` | `TypeCorrect`, `MapsGoTogether` | `TypeOK`, `ReplacementsComplete` |
| | `OverwritesKeepText`, `RightIsTaken`, `MapIsStore` | where there are no mirrors: a `Put` at a path that is taken changes neither the text of the derivation there nor its replacement; `GoodAccepted`; `ImplementsStore` |
| | `OverwritesKeepAll` | `OverwriteIsSame`, where there are no mirrors, which `MapStoreMirrors` is about, and texts tell derivations apart (`TextsTell`) |
| `BadgerStoreProofs` | `TypeCorrect`, `KeysGoTogether`, `Durability` | `TypeOK`, `KeysTogether`, `AcknowledgedStays` |
| | `GrowsOneByOne`, `DatabaseIsStore`, `OneInputPassesChecks` | refinement of `DrvStore`, but for the output paths, with mirrors or without; `ImplementsStore`, where there are none; the checks of `Put` refuse no right derivation of one input or of a fixed output |
| `ReferencesProofs` | `TypeCorrect`, `Soundness`, `Completeness` | `TypeOK`, `HitsOccur`, `DelimitedFound` |
| `WireProofs` | `WireTypeOK`, `BytesWriterWritesPacket`, `BytesReaderReadsBack` | `TypeOK`, `PacketWhole`, `ReadBack` |

`Invariance` in each module is the theorem that its `IInv` is invariant, from
which the others follow; `ArchiveInvariance`, `DumpInvariance` and
`KeptInvariance` are those of the stronger invariants below, as is the lemma
`QueueInvariance`. `DerivationProofs`
holds the lemmas about `Derivation` that both stores cite.

Nothing can be proved here with a `RECURSIVE` operator, and the library's
induction theorems take an operator for a parameter, which no prover installed
can fill in. Two forms of induction remain, and the proofs about archives use
both. `NatInduct` is induction over a set of numbers, for definitions that are
recursive functions such as `PathString`. And `NarGrammar` gives archives by
rules: a pair of headers and packets is an archive if it is in every set that is
closed under the rules (`IsArchive`). That such a pair has a property is shown
by giving the set of those that have it and proving the rules for that
(`ReadGrammar`, `WholeGrammar`); that something is an archive, by applying rules
to what every set must hold. In the runs the reference is `NarFormat`, which
goes over the tree.

The inductive invariants:

* **NarPath.** The code compares the strings of two neighbouring paths, and only
  if it finds them in order is the second listed. `EntryOrder` and
  `TreeOrderAccepted` say when that is the order of the tree, `TreeLeq`, which
  is transitive: where the paths part, the name of the second is the greater
  one. For paths that are no neighbours in a listing the comparison is no order.
* **NarReader.** `ContentMatchesHeader` speaks of states in which the caller
  runs, but is made true while the parser does. `OfferMatches` says the same of
  the header being offered; `WaitingHasStack` gives the parser something to go
  on with after each offer; `FailHasError` and `CallHasNoFuse` say that the
  other way out of `Next`, an error, always blows the fuse, so that nothing need
  be said of the content then. `HandoffExclusive` rules out that the parser
  moves meanwhile. Types need that a limit is only taken from when it is
  positive. For `ParentsFirst`, `PlaceInv` adds that while the reader is open and
  has no error every instruction on the stack is in place: the loop of a
  directory has the header of its directory delivered or on offer, any other
  call that of its parent. A name `..` moves a node up, and `ParentsFirst` itself
  gives it a place there.
* **NarReader, order.** `Next` compares a header with the one before it only.
  `OrderInv` says that the open directories on the stack form a chain that leads
  to the last header delivered, and of every path that may come next
  (`MayFollow`) that it is an entry of a directory on the way there; so the
  comparison with the last header is one with the sibling before it. Names `.`
  and `..` lead up, from where the comparison lets no header pass (`NoWayBack`).
* **NarReader, archives.** `Good(T, o, g)` says that a parser with the stack `T`
  in front of the packets `o` finds what it expects in every step (`Leads`) and
  lists the headers `g`. It is the greatest set with that property, so that a
  step of the parser stays in it (`GoodStep`) and `ReadInv` is inductive; that
  an archive is in it is shown by the rules of the grammar. `ReadInv` says that
  the headers delivered and those still to be listed are those of the tree;
  their order, and that `Next` refuses none, come from `OrderInv`. For the
  refinement, `LimitInv` says that the limit is the whole file when its header
  goes out, and nothing when `Next` returns anything else.
* **NarWriter.** That the last packet may be open only while the emitter waits
  for content, has just announced it, or has failed (`Aligned`): all that writes
  then finds complete packets. `HeadersReady` says that there is a header where
  one is used, `RefusedIsOver` that a reported error means the end of the
  emitter.
* **NarWriter, archives.** `Told` says where the stack stands: its headers lead
  down to the last one accepted, and a header that is on its way up through the
  calls was compared with that one first, and left it. `Built` is about the
  packets: every active call of `emitNode` owns a piece of what was written (`Frames`),
  an archive without its end; a `Return` joins the innermost piece to the one
  around it, as the grammar joins an entry to its directory. The
  exception `Repeats` is a header with the path of the one before it, which the
  Writer takes for an entry named `.` (section 6).
* **NarWriter, refusals.** `Told` says that what is accepted is in order, not that
  a header finds its directory on the way up. `Place` says that: the calls go
  down one name at a time from the root, each for the last header with its path
  (`Nested`, `Calls`), and a header that has come up from an entry is not below
  that entry (`PassedUp`), so that it has not passed by the directory it belongs
  to. The rules of the grammar give such a directory to every header of an
  archive (`Orderly`); it is the call at which the header arrives.
* **DumpPath.** Only `Close` ends an emitter that waits, and behind its call the
  walk does nothing but wait for it; everything before may go wrong at will
  (`WalkInv`). For `DumpedIsArchive`, `Fresh` says that no path still to be
  dumped is the last one written, so that the walk never repeats one, and
  `Honest` that a result without error means that the Writer has reported none.
* **DumpPath, order.** `QueueInv` says what the Writer finds when a header comes.
  The paths still to be dumped are in the order of the tree, and each is an entry
  of a directory whose header was the latest with its path (`Queue`); what
  is sent belongs to the first of them (`Passed`). So the header follows the
  last one (`SentFollows`), and `Place`, the invariant of the Writer's refusals,
  leads it to its directory (`RejectedNotNext`). The files may change under the
  walk: the order comes from sorting the names of each directory, whatever they
  are.
* **DumpPath, undisturbed.** An order that is right is not enough, as the Writer
  also refuses a header behind a short file: the content is complete whenever the
  walk goes on (`Bodies`). `Once` says that no path still to come is above one that
  was dumped. While nothing has disturbed the walk, every file that it comes to
  is dumped, omitted, or at or below a path still to come (`Accounted`), and
  nothing has failed unless there is no archive of the files (`Smooth`). When
  no path is left, everything is dumped or omitted; `Ends` says why a walk is
  over.
* **MapStore.** `TypeOK` and `ReplacementsComplete` are inductive together. The
  step that matters is that computing a replacement cannot fail once all inputs
  are in (`DrvReplacementsExist`), so that the early store of the derivation
  (`map.go:49`) is never left without its replacement. `Kept` says that every
  replacement is the one in `Hash`: `Put` looks at its inputs only, and they
  were computed in the same way when they came in.
* **BadgerStore.** `Put` writes on the word of lookups made in earlier
  transactions. `LookedUp` says of each worker that what it has found is still
  there and that what it has not found is still on its list; it survives the
  steps of others because keys are never removed. That two derivations have one
  path only if they have one text (`DrvPathTellsText`) makes overwriting harmless.
  `Kept` is as for `MapStore`, and says the same of what each worker has read.
* **References.** `BufIsTail` (the buffer is the end of the data) gives
  soundness. Completeness needs `RunInBuf`: as long as a run of bytes of the
  alphabet is shorter than a hash, all of it is in the buffer.
* **Wire.** Lengths that an `int64` holds are the hypothesis: then no sum wraps,
  because both terms are below half of the range. `WriterInv` says what `out` is
  at every point of the writer, the content so far and then only padding, and
  `ReaderInv` where the reader stands in it: behind as many bytes of content as
  it has handed out, with a limit of what is left. Of any other length the limit
  is not above zero, so that nothing is handed out.

### What is only model-checked

* Liveness (`NextReturns`, `UnusedReaderEnds`, `CloseReturnsAlways`,
  `WriteHeaderReturnsAtFirst`, `ClosedWriterEnds`, `DumpReturns`, and the liveness in
  `ImplementsCursor`): out of the prover's reach.
* That the rules of `NarGrammar` and the recursion of `NarFormat` give the same
  archives: `CleanCloseIsArchive` and `CleanDumpIsArchive` are, with the trees of
  `NarFormat`, what `CleanCloses` and `DumpedIsArchive` are with the rules, and
  so are `ImplementsCursor` and `ReaderIsCursor`.
* That the hashes of all trees satisfy `Solves`: a walk by recursion.
* The codecs: they compute by recursion over texts.

## 5. Hazards and properties

`PROJECT.json` lists them with lines. Those no property covers: the goroutine of
a Reader that is closed behind a header, which does stay (see 6); a second `Close`
and `Next` after `Close` panic, and so does a derivation with an empty name,
which the models have (`panic`); a pointer kept by `MapStore`, which the
comments of the store warn of; the `io.EOF` of a cut archive, which is what the
code returns (see 6).

## 6. Where the code departs from what it says

Each of these has a run in which TLC finds the violation.

1. **An entry named `)` ends its directory** (`NarReaderBracket`). The variable
   compared with `)` at `reader.go:293` holds the name of the entry. At the root,
   `Next` returns `io.EOF` with the rest of the archive unread.
2. **A name that starts with two dots is taken for a path outside**
   (`NarWriterDots`). `writer.go:224` tests the first two characters of the
   relative path; the header of `/..a` closes the root and the Writer fails with
   "additional header detected".
3. **A derivation with several inputs is refused by `BadgerStore`**
   (`BadgerStoreInputs`). The function that reads the replacements returns from
   within its loop (`badger.go:69`), so only one is read; if the derivation has
   no fixed output the others are then missing.
4. **Two inputs with one replacement share a key** (`MapStoreMirrors`). Of two
   inputs whose hashes modulo fixed outputs are equal (what is built from two
   mirrors of one source), `encode.go:135` keeps the output names of the one it
   visits last, in the order of a Go map: output paths and replacements may
   differ from call to call, and a second `Put` may be refused or overwrite the
   replacement with another one, where `map.go:47` says it will be the same.

The models also show the following, for which there is no run:

* an archive that is cut where `parseNode` calls `wire.ReadString` itself
  (`reader.go:116`, `184`, `247`), or within a content that is skipped, ends with
  the `io.EOF` of a complete one, while `expectString` makes it
  `io.ErrUnexpectedEOF`; the comment of `Next` promises an error for invalid
  data (`reader.go:310`);
* `dumpPath` refuses what is neither file, link nor directory before it asks the
  filter, so that no filter can omit a socket (`dump.go:62`);
* any token that is neither `entry` nor `)` in a directory is skipped
  (`reader.go:252`);
* `PathIsLexicographicallyOrdered` holds of two equal paths, so that the Reader
  lets an entry come twice (`reader.go:325`) and the Writer takes a header that
  repeats the path of the directory it stands in for an entry, named `.`
  (`writer.go:205`);
* the parser goroutine of a Reader that is closed behind a header unwinds with
  further reads, and then waits for ever to send an error nobody receives
  (`reader.go:88`, `172`);
* a second `Close` of a Reader that has not returned `io.EOF` panics
  (`reader.go:362`), as does `Next` after `Close` (`reader.go:320`);
* a `WriteHeader` after one that failed blocks for ever (`writer.go:301`), and a
  `Close` after it returns nil, so that a caller that ignores the error of a
  `WriteHeader` behind a short file sees a successful `Close` (`writer.go:336`);
* a derivation whose variable `name` is there but empty passes `Validate`, and
  `CalculateOutputPaths` panics (`hashes.go:57`).

And of the codecs:

* platform and builder are escaped when written (`encode.go:293`, `304`) and read
  without taking the escapes away (`parser.go:192`, `195`); elements of arrays,
  among them arguments, are neither, so that one with a quote is not read back,
  and two derivations may have one text and one path (`encode.go:63`), such as
  those with the arguments `a`, `b` and with the one argument `a","b`: a `Put` of
  the second in a `MapStore` overwrites the first with another derivation, where
  `map.go:47` says it will be the same;
* `arrayEach` accepts any two characters as an empty array (`parser.go:283`) and
  looks at no bracket but the first and the last; a backslash outside of a
  string hides the character behind it, so that `[)\]` is an empty array and so
  is `[]"P"\]`, of which the path `P` is lost (`parser.go:310`); entries may
  lack fields, `("a")("b")` is one odd word, and an empty entry of `env` starts
  the order of keys anew (`parser.go:246`);
* whether `Validate` accepts a derivation with both a name and structured
  attributes without one depends on the order of a Go map
  (`derivation.go:122-135`); structured attributes `null` are a nil pointer
  (`parser.go:273`), which the model counts as an error;
* `FromAbsolutePath` drops the first eleven characters without looking at them
  (`storepath.go:89`); `Validate` does not look at the character behind the
  directory nor at the separator, begins its check of the name within the hash
  (`106`) and accepts an empty name, as does `FromString`, which lets names with a
  slash through when `path.Join` takes it away; `ValidateString` accepts texts
  that no digest has, of lengths that `DecodeString` refuses;
* base 64 of one length may hold digests of several sizes, and `ParseAny` does not
  compare the size it gets with that of the algorithm (`nixhash/parse.go:65`);
* `NarInfo.String` leaves out a `FileHash` without a `FileSize` and a `FileSize`
  without a `FileHash` (`types.go:51`), so that a `.narinfo` that `Check` refuses
  for one of them (`check.go:40`, `48`, `52`) may pass once it is written again; and
  a line `References:` without a space behind it is refused (`narinfo/parser.go:36`);
* the scanner starts afresh behind every hash length of bytes of the alphabet
  (`refs.go:84`), so that a hash directly behind such bytes may be missed;
  `DelimitedFound` is about those behind another byte, as the slash of a store path;
* of two signatures with the name of a key `VerifyFirst` tries only the first
  (`signature.go:36`);
* `nar ls` "can exit early", says `ls.go:76`, at the first path that is above the
  one asked for and does not begin with it. The archive is ordered name by name:
  what stands below `/a` comes before `/a-`, and `/a/a` is above `/a-` as a
  string. So `nar ls /a-` prints nothing when `/a` is a directory with entries,
  although `/a-` is there. `LsAndCatFind` holds because it says exactly when that
  is so (`Overtaken`); that `nar ls` prints all it is asked for would not;
* `BytesWriter.Write` may accept more than was announced when the announced
  length is above `MaxInt64` and the sum wraps (`bytes_writer.go:42`), and the
  `BytesReader` of such a length reads nothing (`bytes_reader.go:25`); a `Close`
  that is called again after its padding failed writes all of it again; `Close`
  of a reader whose content is cut short returns nil when there is no padding
  (`bytes_reader.go:58`), and a second one reads padding again; `ReadBytesFull`
  drops the error of bad or missing padding (`read.go:87`).

The following was read in code that no module models: `FSStore.Get` does not
close its file (`store/filesystem.go`), and `validateNode` only looks at a node
that has entries, so that leaves are never checked (`nar/ls/list.go:31`).

## 7. What is not modelled

`FSStore`, `HTTPStore` and `NewFromURI` open one file or make one request per
call, give the bytes to `ReadDerivation` and keep nothing. `nar/ls` is
`encoding/json` and one check of what it decodes. `drv show` prints what a store
returns. `pkg/sqlite` is generated. Ed25519, SHA-256 and base 64 are taken as
perfect. In `Derivation`, `storepath.Validate` is a predicate, and
`nixhash.CompressHash` is injective like the hash it is applied to. The contents
of files and the targets of links are not told apart, as no code looks at them.
Of `pkg/wire`, `ReadBool`, `WriteBool` and the pool of buffers are left out.

## 8. Plan

1. Done: `NarReader` with `NarCursor`, `NarWriter`, `Derivation` with the stores,
   `References`, `DumpPath`, `Wire`, the codecs and the commands; proofs of
   `NarReader` and `NarWriter` with the archives they read and write, of the
   stores with the hashes of trees, of `References`, `Wire` and `DumpPath`.
2. Theorems: the inverse of the bits of one digit of base 32.
