# Verification of protoc-gen-go-poseidon

`protoc-gen-go-poseidon` is a protoc plugin that generates gRPC clients for the
poseidon HTTP/2 client, and `pgrpc`, the run-time library the generated code
calls. This directory holds TLA+ modules for the parts of `pgrpc` in which
goroutines, failures and shared memory meet, for the generator's decisions and
for one program that puts `pgrpc` to use, the TLC configurations that check
them on small instances, and TLAPS proofs about streams, call setup,
configuration, metadata, the generator and the codecs under load.

## 1. Inventory

| component | source | state it keeps | operations | what is hard | what makes it correct |
|---|---|---|---|---|---|
| Stream core | `pgrpc/stream.go` | `gate` (RWMutex), `recvBusy`, `closed`, the derived context, the terminal latch (`ended`, `termErr`, `termStatus`, `trailer`), the header cache | `Close`, `finish`, `terminal`, `enterRecv`/`leaveRecv`, observers `Status`, `Trailer`, `Ended`, `Header`, `Context` | Close against receives and sends of other goroutines; the latch has two writers; panics of the user's codec | poseidon's unguarded receive state is driven by one goroutine and never beside or after Close; one outcome; no false OK; Close returns |
| Stream shapes | `pgrpc/streams.go` | `sendBuf`, `sendClosed`, `sendBusy` | `Recv`, `RecvNew`, `All`, `Send`, `SendLast`, `CloseSend`, `SendLastAndRecv`, `CloseAndRecv` | iterators that run user code between receives, order of deferred calls, resets after a complete answer | one sender; nothing stays held; the answer is not lost; exactly one response where the shape says so |
| Call setup | `pgrpc/unary.go`, `stream.go`, `streams.go`, `resolve.go`, `raw.go`; the generated Caller (`internal/gen/emit.go`) with `Guard` (`errors.go`) | `Guard.inUse`, the Caller's scratch, stream slots of the connection, derived contexts | `Unary`, `NewServerStream`, `NewClientStream`, `NewBidiStream`, Caller methods | failure after a resource was taken; two calls over one scratch; waiting for a server that waits for us | a failed call leaves nothing behind; the wire carries the caller's own request; constructors do not deadlock |
| Per-call configuration | `pgrpc/callopts.go` | two slices with owner pointers, codec override, latched failure | `SetMetadata`, `AppendField`, `AppendHeader`, `AppendPoseidonOptions`, `SetCodec`, `Fail`, `Reset`, `Apply`, copy by value | slice aliasing over long sequences of copies, appends and resets | a config is a value; borrowed memory is never written; nothing survives Reset |
| Error classification | `pgrpc/status.go`, `errors.go` | none | `StatusOf`, `NewCodecError`, `Unwrap` | error trees with several classes in one chain | no failure is classified OK; the server's own diagnosis wins |
| Metadata builder | `pgrpc/metadata.go` | byte arena, fields, interned keys | `put`, `text`, `binary`, `Fields`, `Reset` | values alias an arena that grows and is reused | it is the list of entries the API describes; replaced and reset entries are unreachable; one arena generation |
| Client | `pgrpc/client.go`, `clientopts.go` | immutable after `NewClient` | `CodecFor`, `resolve`, `NewCallConfig` | default options, and a slice behind them, that all concurrent calls share | defaults first, per-call options win; no call writes into the defaults |
| Codecs | `pgrpc/vtcodec`, `pgrpc/protocodec` | none | `MarshalAppend`, `Unmarshal` | dispatch over optional methods; sizing and filling are two steps; merge-shaped parsing into a reused message | what is appended is the request alone; nothing of an earlier response survives |
| Generator | `internal/gen`, `cmd/` | the options; per output directory the set of claimed names; the generated files | `Bind`, `Validate`, `Run`, `checkService`, `claim`, emission, comment defusing | collisions across services, files and packages; options that switch off what other code mentions | generated code compiles or generation fails; every collision is named, and nothing else |
| Load generator | `examples/loadgen` | per user: Caller, request, reply, outcome bucket; the run's context | the users' loop, `record`, `merge`, `report` | silent servers, the end of the run, buckets without locks | the run ends; every call is counted once |
| HTTP service example | `examples/service` | none of its own | HTTP handlers | - | - |

The pieces meet like this. Generated code (a client face, or a Caller with a
`Guard`, a `CallConfig` and scratch buffers) calls `Unary` or a constructor; a
constructor opens a poseidon stream and returns a `ServerStream`,
`ClientStream` or `BidiStream`; its operations and `Close` are then called by
any goroutine. poseidon itself, its connection and the peer are outside the
repository.

## 2. Modules

| module | models | extends |
|---|---|---|
| `Poseidon` | external: one poseidon stream and the peer behind it, from what `stream.go`, `streams.go` and `raw.go` state and rely on | |
| `BaseStream` | `stream.go`: gate, guards, latch, `Close` in seven steps, `Status` | `Poseidon` |
| `Streams` | `streams.go`: every operation of the three shapes; the properties; the inductive invariant | `BaseStream` |
| `ReceiveContract` | abstract: what the wrapper promises about receiving, closing and the outcome | |
| `StreamsProofs` | the theorems | `Streams` |
| `Calls` | starting calls: `Unary`, the constructors, the Caller's guard and scratch; the inductive invariant | |
| `CallsProofs` | its theorems | `Calls` |
| `CallConfig` | `callopts.go` over an explicit heap of arrays, and the client's defaults (`client.go`, `clientopts.go`) | |
| `ConfigValues` | abstract: a configuration is a value | |
| `CallConfigProofs` | its theorems, the refinement of `ConfigValues` among them | `CallConfig` |
| `Metadata` | `metadata.go` over the generations of its arena | |
| `MetadataEntries` | abstract: a list of entries that Add appends to and Set replaces in | |
| `MetadataProofs` | its theorems, the refinement of `MetadataEntries` among them | `Metadata`, `LeastElement` |
| `LeastElement` | one theorem: every non-empty set of naturals has a least element | |
| `Sums` | theorems about the sum of a function over a finite set, as `FoldFunction` computes it | `LeastElement` |
| `Generator` | `internal/gen` and the plugin's `main`: options to files or an error; the inductive invariant | |
| `GeneratorProofs` | its theorems | `Generator`, `LeastElement` |
| `ErrorChains` | `status.go`, `errors.go`: error trees and `StatusOf`, as operators | |
| `Codec` | `vtcodec`, `protocodec`: dispatch, fill and parse, as operators | |
| `LoadGen` | `examples/loadgen`: users that call `Unary` in a loop | `Codec`, `ErrorChains` |
| `LoadGenProofs` | its theorems | `LoadGen`, `Sums` |
| `MCStreams`, `MCCalls`, `MCCallConfig`, `MCMetadata`, `MCGenerator`, `MCLoadGen` | instances for TLC | the modules above |

### Streams

`pc[g]` says where goroutine `g` is, `mode[g]` which API call it is in (a plain
operation, `SendLastAndRecv`/`CloseAndRecv`, an iteration of `All`, All's last
yield, All's deferred function), `op[g]` which send it is in and `err[g]` the
error it is about to return. The other variables are the fields of `baseStream`
and `sendSide`. One `pc` step is one thing another goroutine can observe: an
atomic, one side of `gate`, a section under `mu`, a call into poseidon or the
codec. Deferred calls are steps of every exit path, those of a panic included.

- `CallRecv` to `LeaveRecv`: `Recv`/`All` take the guard, then the gate
  (`RecvLock`), then check the latch (`RecvCheck`), receive (`RecvMessage`,
  `RecvEnd`, `RecvCancelled`, `RecvExpired`), `Decode`, `CacheHeader` or
  `Finish`, `RecvUnlock`; `All` yields to user code at `pc = "body"`, where every
  operation may be called, and continues (`BodyContinue`) or stops (`BodyStop`).
- `recvSingle` takes the gate first and the guard second (`SingleEnter`), drains
  after its message, and finishes in a deferred call whatever happened.
- `CallSend`, `SendCheck`, `SendDone`/`SendError`, `LeaveSend`: `doSend` and
  `doCloseSend`. They never touch the gate.
- `CloseCAS`, `CloseCancel`, `CloseAnnounce`, `CloseAwait`, `ClosePoseidon`,
  `CloseLatch`, `CloseUnlock`. `gate.Lock()` is two steps because an RWMutex
  whose Lock is announced admits no new reader: a receive that arrives then
  waits until Close is through.

Errors are the classes the code tells apart (`Errs`). A codec may fail, fail
with `io.EOF` as its cause, or panic (`CodecFaults`). `PrivRecv` and `PrivSend`
are the goroutines that use a context not derived from `Context()`.

### Calls

Each call of a program is a process. `Face` says which Caller it goes through;
a call through the client face has its own scratch and no guard. The connection
has `MaxStreams` slots. `NewStream` takes one and `Close`/`abort` gives it back;
a derived context is in `ctxs` from `context.WithCancel` to `cancel`. A server
need not answer, and on the client and bidi shapes it does not before it has
received a message. `CodecFaults` is per call, because a panic while a server
stream is set up is a finding of its own.

### CallConfig

`heap` maps each array to its cells (as many as its capacity), a slice is an
array and a length, and `owner` holds the owner pointers. `append` writes in
place if there is room and the config owns the array, else it picks a fresh
array with 0 to `Slack` spare cells. Arrays nobody refers to are reclaimed, so a
few suffice. `AssignBack` admits the assignment that breaks the value semantics
(finding 4); the documented exception, `Reset` of an original whose copies are
unmodified, is excluded by the guard of `Reset`.

`Options` are the call options with their arguments and `Defaults` the options
of the client. `Declare` is a new config variable, as a call through the client
face or `NewCallConfig` makes one; `ApplyDefault` then runs one default at a
time, so that the configurations of several calls are between their defaults at
once, all reading the one slice that the metadata option among them
(`WithDefaultCallOptions(WithMetadata(...))`) closed over. Returning by
value from `NewCallConfig` is `Assign` followed by the end of the local, whose
address is reused only once no owner pointer refers to it.

`ConfigsAreValues` says two things: the contents of all configs behave as
`ConfigValues` (one config changes at a time), and each operation does its own
step there (`DoesItsOwn`): `WithMetadata` and the appends extend what was there,
`SetMetadata` replaces it, the first failure is kept, `Reset` clears, an
assignment copies.

### Metadata

`cells` is the array of fields, as long as its capacity, `spans` the parallel
spans, whose number is the builder's length. `arena` holds the bytes of each
generation of the arena: encoding a value that does not fit moves the arena to a
fresh one, with 0 to `Slack` spare bytes, and a generation no entry refers to is
reclaimed. A binary entry has no value until `Fields` binds it to the current
generation; setting or adding after that leaves earlier values bound to the old
one until `Fields` is called again. `Lower` is poseidon's verdict on a key
(outside its domain the key is refused) and `Encode` what base64 yields.
`Compact` is the loop of `put` that rewrites both slices in place, one `Round` for
each entry. `MetadataEntries` says what setting an entry means without a loop:
which places of the list are kept (`Kept`) and where each of them goes (`Rank`).
`BuildsTheEntries` ties each call to its own step of the list (`ListsItsOwn`): a
Set of a key that is there replaces and never appends, an Add never replaces,
`Fields` changes nothing, and the entry listed is the one that was given.

### Generator

One behaviour is one run of the plugin: options in any order (`SetOption`, with
the refusal of unknown names and bad values and every spelling of a Boolean that
`ParseBool` reads), `Validate`, then the files of the
request, opened or skipped (`OpenFile`, `SkipFile`), their services one by one
(`Service`) and the report. A Go identifier is a sequence of words, because all
the generator does with names is to concatenate them: `Foo_` + `Bar_Baz` and
`Foo_Bar_` + `Baz` meet without any string being built. `sets` are the
namesets, kept per output directory as `gen.go` keeps them, with one `claim`
after the other for the declarations of a service (`ClaimAll`). Of an emitted
file the model keeps what a
Go compiler could refuse: the package-scope declarations, the methods of each
type, the package-scope names its bodies mention and the comment lines, which
are known by what follows `//` (a word makes it a directive). The properties
then look at `out` alone: whether a package builds is decided without the
namesets. A refusal must be right about the very directory it names: the
identifier is declared twice there, or is a service of that directory that has
no usable name (`RefusedIsBroken`).

### ErrorChains, Codec and LoadGen

An error is the sequence of the errors in its tree in the order in which
`errors.Is` and `errors.As` visit them, and `StatusOf` is the code's order of
questions over it. A message has a scalar that may be absent and a repeated
field; that is what tells a merge from a reset. `MarshalAppend` of `vtcodec` is
two steps, `SizeVT` (`Marshal`) and the fill from the end of the buffer
(`Fill`), over an array the Caller keeps from call to call; between them another
goroutine may change the message (`Mutate`), against which `vtcodec` has a
check. The fill may also give up with an error of its own when it has written any
part of the message (`FillFails`). `LoadGen` runs both under the users' loop of the load generator: the run
ends by its deadline or by an interrupt, which a call in flight sees
(`Cancelled`); the server answers, answers garbage, refuses with a status that
arrives alone, wrapped or joined with a transport failure, or stays silent. An
answer is the encoding of one of `Replies`, or garbage. `codes` are the users'
buckets, which nobody locks; `Merged` is `merge` over them, and `calls`, which
the program does not have, is what the report is measured against.

## 3. Runs

| run | instance | states | asks |
|---|---|---|---|
| `Server` | 3 goroutines, any role, 2 responses, codec fails or panics | 9,495 | receive safety, self-closing iterator, status, contract |
| `Bidi` | bidi, 3 goroutines: a receiver with a private context, a sender that also closes, one that receives and sends with a private context; 1 response, no credit at all | 274,406 | Close returns, wakes a parked Send, releases everything; one sender |
| `Client` | 3 goroutines, any role, 2 responses, 1 credit, codec fails | 270,900 | types (what may be latched), drain, delivery of the answer across resets, guard under the gate, contract |
| `ClientPanic`, `ServerCodecEOF` | 2 goroutines | - | violations: findings 1 and 2 |
| `Calls` | 5 calls of all shapes, 4 of them through one Caller, 2 slots | 10,198 | leaks, guard, scratch, eager header, no deadlock, no wedge |
| `CallsLeak` | the same, with a codec that may panic anywhere | - | violation: finding 3 |
| `Config` | 2 configs, both slices, up to 2 entries, one borrowed slice with spare capacity, which is also the client's default metadata; codec, failure, 2 defaults; spare cells only as `Reset` leaves them | 85,515 | value semantics, each operation's own effect, borrowed memory, the whole struct under defaults, copies and `Reset` |
| `ConfigAssignBack` | 3 configs, metadata only, with `AssignBack` | - | violation: finding 4 |
| `Metadata` | up to 3 entries and 3 arena bytes, two spellings of a text key, a binary key with an empty, a short and a long value, a refused key | 25,932 | the list of entries, Set and Add told apart, nothing past the end, one generation pinned |
| `Generator` | every request of up to 2 files with up to 2 services out of 7, in 2 directories, up to 2 options out of 14 | 1,318,086 | accepted packages build; refused ones would not; every collision named |
| `LoadGen` | 2 users, one on each codec, 2 calls each, one request mutated meanwhile, 3 messages, 3 answers | 961,488 | no stale bytes or fields, the server's diagnosis, counting, the end of the run |

Why the bounds are enough to see the interesting cases. The stream properties
relate at most two goroutines and a closer, hence three; more goroutines are
covered by the proofs. Two responses let a receive fail after one was delivered
and a client stream get one too many; credit 0 parks a sender and credit 1 lets
it through once. Goroutines are interchangeable where every role is allowed, so
those runs use symmetry; the run with liveness does not. In `Config` two configs
and a borrowed slice share arrays in every combination, and two entries in an
array that `Reset` has emptied give both kinds of append: an `append` that grows
leaves no spare cell there, the caller's slice and an array after `Reset` have
some, and `ConfigAssignBack` lets growth leave some too. Finding 4 needs a third config
that observes an array the other two share. In
`Metadata` three entries let a Set drop one duplicate and move another entry up,
and three bytes let the arena move twice while an entry is bound to it. A
collision of the generator involves two declarations, so two services, in one
file or two, with names chosen so that each kind of declaration meets another;
two options are what it takes to switch a declaration off and keep what mentions
it. In `LoadGen` a stale byte or field comes from the call before, hence two
calls; a second user is what the report may overtake. `MaxCalls` bounds only how
often a user begins: at the bound it waits for the end of the run.

Operations that are refused leave the state unchanged, so the runs about `pgrpc`
reach no deadlock in TLC's sense; being stuck is what the liveness properties
are about. `Generator` and `LoadGen` are programs that end, and their runs say
`CHECK_DEADLOCK FALSE`.

`MCLoadGen` also states, as an assumption TLC evaluates, that `StatusOf` agrees
with the table in its documentation (`status.go:27-37`) for every sentinel, bare
and wrapped.

Fairness. `FairSpec` assumes only that a goroutine inside an operation keeps
running when it can (the Go scheduler). Nothing is assumed of user code, of the
peer, of the network or of deadlines: a peer may stay silent for ever, a stream
may never be closed. `CloseReturns` therefore rests on `cancel()` waking
receives and on poseidon's Close waking sends. A receive with a context that is
not derived from `Context()` is not woken by `cancel()`: for such streams
`CloseReturns`, `CloseWakesSenders` and `CloseReleases` have as a hypothesis, in
the property and not in the specification, that those contexts expire
(`DeadlinesPass`). `NotWedged` assumes likewise that contexts end and that
streams handed to a user are closed. `LoadGen` assumes that users run and that
the run's deadline passes, which `context.WithTimeout` at `main.go:72`
guarantees; the server need never answer.

Each property has a mutant: a change of one mapped definition of the kind a
plausible mistake would make (a guard without its CAS, the deferred calls
swapped, no drain, the latch without its snapshot, a Boolean instead of an owner
pointer), under which TLC finds the property violated. The mutants stand next
to the definitions they change and nothing else uses them.

## 4. Findings

1. `ClientPanic`: a codec panic inside `recvSingle` unwinds through
   `defer func() { s.finish(err) }()` while `err` is still nil. The stream is
   latched as cleanly ended and `Status()` is OK.
2. `ServerCodecEOF`: `Status()` and `All` test the terminal error with
   `errors.Is(err, io.EOF)`; a `CodecError` unwraps to the codec's cause, so a
   decoding failure caused by `io.EOF` reads as success.
3. `CallsLeak`: `NewServerStream` marshals on an open stream without a deferred
   `abort`, so a codec panic leaks the stream slot and the derived context.
4. `ConfigAssignBack`: owner pointers are compared with the config's address, so
   assigning a config a copy of its own earlier value makes it own, again, an
   array that a later copy reads.

Remarks that are not runs. The comment at `stream.go:103` ("The caller must
hold gate.RLock") describes `recvSingle` but not `Recv` and `All`, which take
the guard first; both orders are modelled and safe. And when another goroutine
is inside `Close`, the server iterator's own `Close` returns at once, so the
iteration may be over slightly before the stream is closed. `checkService`
returns its error at once (`gen.go`), so a run that also has collisions reports
only the bad service, although a comment promises every collision in one run.
`docs/GENERATED_CODE.md:201` lists `Enter` and `Leave` among the refused method
names; the code refuses `Config` alone (`names.go:74-76`), which is enough since
the Caller does not embed its guard. A service whose name has no lower case is
refused even where `interfaces=false` would leave no clash. `Reset` on a
Caller's config drops the client's defaults with everything else. The load
generator's `pct` calls itself nearest-rank (`main.go:196`) and is one off where
`p*n` is an integer.

## 5. Proofs

`StreamsProofs` proves, for every set of goroutines, every shape, every
assignment of roles, contexts and codec faults and all bounds:

| theorem | states |
|---|---|
| `TypeCorrect` | `Spec => []TypeOK` |
| `Invariance` | `Spec => [](IInv /\ OutcomeInv /\ AnswerInv /\ CountInv)` |
| `SingleReceiver` | `Spec => []NoRecvRace` |
| `NoneAfterClose` | `Spec => []NoRecvAfterClose` |
| `OneSender` | `Spec => []NoSendRace` |
| `NothingLeaks` | `Spec => []NothingHeldWhenIdle` |
| `IteratorCloses` | `Spec => []IteratorCloseDoesNotWait` |
| `StatusIsHonest` | `TameCodec => (Spec => []NoFalseOK)` |
| `VerdictKept` | `Spec => []VerdictIsKept` |
| `OneResponse` | `NoPanic => (Spec => []ExactlyOneResponse)` |
| `AnswerKept` | `Spec => AnswerIsNotLost`, an action property |
| `Refinement` | `Spec => ImplementsContract` |

The assumptions are those stated with the constants (`PoseidonAssumption`,
`BaseStreamAssumption`); `StatusIsHonest` has `TameCodec` as a hypothesis, and
the runs `ClientPanic` and `ServerCodecEOF` show that it is needed. `OneResponse`
needs half of it: after the panic of `ClientPanic` a call has ended without an
error and without having received the end.

The argument. None of the properties is inductive: `NoRecvRace` says nothing
about who may enter next. `IInv` therefore says who holds what at every program
point: `GuardInv` (recvBusy is set exactly while one goroutine is between
`enterRecv` and `leaveRecv` or inside `All`; the same for sends), `GateInv` (the
RWMutex agrees with the program counters, a writer excludes readers, only the
winner of Close's CAS is closing), `LatchInv` (a receive past the terminal check
has an unfinished, unclosed stream until it leaves the gate), `ShapeInv` (which
program points exist on which shape). `OutcomeInv` adds what the latch may say
once poseidon's pump has consumed the end. `AnswerInv` says that the error which
`sendTolerant` forgives is only ever in a send that is about to return, and that
on the client shape every error kept anywhere, returned, latched or remembered by
poseidon, that blames the peer is one the peer earned (`Earned`); a call answered
with one message and OK therefore has none, and its caller gets the answer.
`FinishTypeOK`, in the type invariant, says that what reaches `finish` is the
outcome of a receive and never a refusal.
`CountInv` says how many responses `recvSingle` has taken at each of its steps.
One lemma per part shows that it is preserved, with one case per action; each property then follows from the
invariant. For the refinement the invariant gives the guards of the abstract
actions.

`CallsProofs` proves, for every set of Callers and calls, every assignment of
shapes, faces and codec faults, and any number of slots:

| theorem | states |
|---|---|
| `CallsTypeCorrect` | `Spec => []TypeOK` |
| `CallsInvariance` | `Spec => []IInv` |
| `GuardIsExact` | `Spec => []GuardFollowsCall` |
| `OwnRequest` | `Spec => []OwnRequestOnTheWire` |
| `HeaderIsCached` | `Spec => []EagerHeader` |
| `NoLeak` | `TameSetup => (Spec => []NothingLeftBehind)` |

It rests on `CallsAssumption`, of which one conjunct matters: a call goes
through a Caller or through itself, so that no two calls outside Callers share a
scratch. `GuardFollowsCall` is inductive with the types, and with it
`OwnRequestOnTheWire`: whoever writes a Caller's scratch holds its guard.
`HeaderInv` extends `EagerHeader` back to the constructor's return. For
`NothingLeftBehind` the invariant must say where in its constructor a call of
each shape may hold a slot or a context (`HoldingInv`). That is an invariant
only under `TameSetup` (no codec panic while a server stream is set up), and the
run `CallsLeak` shows that the hypothesis is needed.

`CallConfigProofs` proves, for every set of configs, pool of arrays, list of
options and defaults, and all bounds:

| theorem | states |
|---|---|
| `ConfigInvariance` | `Spec => []IInv` |
| `ConfigTypeCorrect` | `Spec => []TypeOK` |
| `BorrowedIsKept` | `Spec => []BorrowedIsUntouched` |
| `ResetLeavesNothing` | `~AssignBack => (Spec => []NothingPastTheEnd)` |
| `ConfigRefinement` | `~AssignBack => (Spec => ConfigsAreValues)` |

`CallConfigAssumption` asks that an array belongs to one kind of slice or to a
caller, as Go's types and allocation have it. The invariant behind them says
where a slice may lie (`PlaceInv`: in its own kind's arrays, or unowned in a
caller's) and who may write (`OwnerInv`: an array has at most one owner, and no
other config reads past the owner's length). `PlaceInv` is enough for
`BorrowedIsUntouched`, which therefore needs no hypothesis. `OwnerInv` is what
makes an append in place invisible to every other config: each operation, the
option being applied included, changes the contents of one config only, and as
that operation should (`EachDoesItsOwn`), which is its step of `ConfigValues`. With
`AssignBack` it is not an invariant, and the run `ConfigAssignBack` shows that the
refinement then fails.

`MetadataProofs` proves, for all keys, values, encodings and generations, and
every size of the array and the arena:

| theorem | states |
|---|---|
| `MetadataInvariance` | `Spec => []IInv` |
| `MetadataTypeCorrect` | `Spec => []TypeOK` |
| `NoCredentialsLeft` | `Spec => []NothingPastTheEnd` |
| `OneArenaAlive` | `Spec => []OneGeneration` |
| `MetadataRefinement` | `Spec => BuildsTheEntries` |

`MetadataAssumption` asks, besides types, that a text is not a reference into the
arena. The invariant says of every entry that it fits its span (`Fits`) and of
the arena how long it is. The loop of `put` has an invariant of its own, in two
parts. `Compacted` says that after `i` rounds the first `w` places hold old
entries or the new one and the rest is untouched; `Ranked` says which: every
entry that is kept stands at its rank among the kept ones, and `placed` tells
whether the key has been met. As the provers have no induction over data, that
is shown by taking a least round at which it fails (`LeastElement`, from the
library's theorem on well-founded relations), and the recursive function itself
is shown to exist the same way (`LoopRuns`). For the arena, `EncodedIs` says that
the bytes in use stay what they were, in place or in a new generation, and that
the new ones follow; so old entries read as before (`SameRead`) and the new one
as it was given (`ReadBack`).

`LoadGenProofs` proves, for all users, messages, replies and status codes:

| theorem | states |
|---|---|
| `CallsInvariance` | `Spec => []IInv` |
| `AnswerIsRead` | `Spec => []OKIsThisAnswer` |
| `DiagnosisWins` | `Spec => []ServersDiagnosisWins` |
| `RequestIsSent` | `Spec => WireIsTheRequest`, an action property |
| `CallsAreCounted` | `Spec => []EveryCallIsCounted` |

`LoadGenAssumption` asks that messages have the shape the codec knows, that an
answer differs from no answer, and that users and codes are finitely many, since
they are added up. The invariant is per user (`CallInv`): the
scratch is large enough when it is filled, what is parsed is an answer, a
recorded OK has parsed exactly it, and a recorded status of the server is what
`StatusOf` says. Lemmas about the operators do the rest: the buffer is filled from
its end to its start with nothing of the old content left, and parsing into a
cleared message gives back what was encoded.

`EveryCallIsCounted` has an invariant of its own (`CountInv`): the codes in a
user's bucket add up to its calls, less the one it is in, and at the report
nobody is in a call. That the merged bucket then adds up to the calls is an
exchange of two sums, over the codes and over the users. The library has no
theorems about sums, so `Sums` proves them from the definition of `FoldFunction`:
the sum exists for every finite set and may be taken in any order (`SumTake`),
and the rows of a table and its columns have one total (`SumSwap`). Each is shown
by taking a smallest set at which it fails.

`GeneratorProofs` proves, for every set of requests (any number of files,
services and methods, any names, output directories and comments), all options
and any number of them:

| theorem | states |
|---|---|
| `GeneratorInvariance` | `Spec => []IInv` |
| `AcceptedRunsBuild` | `Spec => []AcceptedBuilds` |
| `RefusedRunsAreBroken` | `Spec => []RefusedIsBroken` |
| `AllCollisionsNamed` | `Spec => []EveryCollisionNamed` |

`GeneratorAssumption` asks only that requests, services and methods are lists.
The properties compare a package as a compiler sees it (`Twice`, over pairs of
places in the files of a directory) with what `claim` has noted, so the invariant
relates the two. `SetsInv`: a nameset owns exactly the names declared in its
directory, and its conflicts are the names declared twice there and the services
that could not be named, no less and no more. `DirsInv`: the namesets are those
of the output directories, which is where a key that is not the directory would
break the argument. `MethodsInv`: methods are on types the same file declares,
and a method that is there twice belongs to a type that is declared twice, which
is why `claim` need not look at methods. `TextInv`: a file declares what it
mentions, whatever the options switched off, and no comment line became a
directive. `EndInv`: what has been reported. The step that matters is `EmitKeeps`,
one service: `ClaimAllIs` says what a nameset holds after a list of claims, a
loop that is handled like that of `put`, by a least round; `EmitOut` what is
declared twice once the service is appended to the open file; the two agree.

Only model-checked. Liveness (`CloseReturns`, `CloseWakesSenders`,
`CloseReleases`, `ConstructorReturns`, `NotWedged`, `RunEnds`), which this version
of the prover does not do, and the four violations of section 4. Every safety
invariant, action property and refinement that a run checks is also proved,
five of them under a hypothesis that the violations account for (`TameCodec`,
`NoPanic`, `TameSetup`, `~AssignBack`).

## 6. Not modelled

Message, header and trailer bytes; buffer growth beyond the arrays above;
allocation counts; the text of errors and of the generated code, its import
block, and clashes between an import's name and a declaration; poseidon beyond
the assumptions in `Poseidon`; `NewClient`'s panics on missing arguments and
`CodecFor`, which only reads; the plugin's version flag and stdin/stdout
plumbing; the load generator's dialling, latencies and printing. The HTTP
service example is glue: its handlers use `Unary` and the stream shapes as
`Calls` and `Streams` model them, inside `net/http`. That a caller mutates the
text value it handed to the metadata builder, or uses one builder from two
goroutines, is excluded by `metadata.go`'s contract and by the model.

## 7. Plan

1. Done: streams with Close, the contract, calls, configuration with the
   client's defaults, metadata, generator, error trees, codecs, load generator;
   the proofs of every safety property the runs check, with the three
   refinements.
2. Left: liveness beyond small instances, which needs a prover for fairness and
   `ENABLED`; an import's name against a declaration, which would need the import
   block of the generated files.
