# Metamath Zero in TLA+

This directory holds a verification development of the programs of the
Metamath Zero repository: TLA+ modules translated from the source, TLC
configurations that model-check them on small instances, and theorems that
TLAPS proves for every instance. Paths below are relative to `src/`; lines are
those of the commit the modules were written from.

 1. The system and its parts
 2. Modules and how they correspond to the code
 3. What TLC checks: runs, bounds, fairness
 4. What is proved
 5. Where code and documents disagree
 6. What is not modelled
 7. Plan

## 1. The system and its parts

Metamath Zero is a language for formal proofs with a small trusted kernel. A
specification (`.mm0`) lists sorts, terms, definitions, axioms and theorems; a
proof file (`.mmb`) is a binary stream of statements and stack-machine
commands. The **verifier**, `mm0-c`, reads both and exits with 0 only if the
theorems of the specification are proved. Proof files are written in `.mm1` and
turned into `.mmb` by **mm0-rs**, which is a batch compiler and a language
server; `mm0-rs` is not trusted, but what it says of a file is what its users
act on.

### mm0-c verifier (`mm0-c/verifier.c`, `verifier_types.c`, `types.c`)
*State*: three tables read from the file (sorts, terms, theorems) and how many
entries of each are declared; a store of expressions; the main stack, the heap,
the hypothesis stack; for the unifier a stack and a heap of its own; the next
bound variable; the flag that some proof used Sorry. All of it is global, and
each part is reset at some of the statements only.
*Operations*: the statement loop (`verify`), the proof commands (`run_proof`),
the unify commands (`run_unify`), `load_args`. Every failed `ENSURE` exits.
*Interaction*: calls `parse_until` of the parser for every statement that is
not local: the specification is a second input, consumed in step.
*Hard*: the commands come from an untrusted file, so any sequence of them may
run. Conversions and their obligations take two stack slots and the code reads
the lower one unchecked; pointers are followed without looking at tags; the
dependencies of an expression are cached when it is built and used for every
distinct-variable test; conversions are used before the obligations under them
are met.
*Correct if*: pointers and arrays are always valid, what is proved is
derivable, and what is accepted is what the specification says.

### mm0-c parser (`mm0-c/parser.c`)
*State*: tables of sorts, tokens, notations and coercions.
*Operations*: `parse_until(kind)` per statement, `coerce`, the formula parser.
*Hard*: the coercion table is kept transitively closed by hand at each
declaration, so what is accepted depends on the order of the declarations.
*Correct if*: coercions form a graph with at most one path between two sorts,
and `coerce` finds it. `main.c` and `index.c` map files and print.

### mm0-rs compiler (`mm0-rs/src/compiler.rs`, loop of `elab.rs`)
*State*: one virtual file per path with its `FileCache` (not started, in
progress with a list of senders, ready), the oneshot channel of every import,
the highest error level emitted by the process.
*Operations*: `elaborate(path, rd)` per import on a thread pool, the `poll`
loop that stops at an import until its channel has an answer, `Args::main`.
*Hard*: several importers reach a file at once; tasks wait for tasks; cycles
are found along one path only; errors and answers travel by different ways.
*Correct if*: a file is elaborated once, nobody waits in vain, the environment
of a file holds what its imports declare, exit code 0 means no error.

### mm0-rs server (`mm0-rs/src/server.rs`)
Three parts run at once. The **logger thread** shares a queue, a condition
variable and a stop flag with everybody that logs. The **elaboration jobs** work
like the compiler's tasks, but files change under them: every file has a text
with a version, a cache with an *in progress by a job with this version* state,
and a list of files that depend on it; every notification spawns jobs; a newer
version cancels the job of an older one and takes over those who wait for it; a
finished job spawns jobs for the files that depend on it. The **main loop** reads
the client's messages, keeps a table of pending requests and a list of jobs, spawns
a job per request (hover, definitions, completion: wait for an elaboration, read
its environment, answer) and at shutdown stops the logger, cancels the jobs and
waits for them.
*Hard*: everything above interleaves: versions are read before the lock is
taken and texts after it is released, flags are tested once per statement,
results of superseded jobs arrive late; a request is answered from the pool while
the client cancels it and the shutdown counts the jobs.
*Correct if*: no job waits in vain, the server comes to rest, and at rest what
it knows and shows is about the current texts.

### mm0-rs joiner (`mm0-rs/src/joiner.rs`)
*State*: the stack of files being written, a set of files met, a list of files
finished. *Operation*: `Joiner::write`, recursive. *Correct if*: each text comes
out once, whole, after what it imports, and cycles are reported.

### mm0-rs environment (`mm0-rs/src/elab/environment.rs`, `frozen.rs`)
*State*: sorts, terms, theorems, atoms, notations, coercions. *Operations*:
adding a declaration, merging the environment of an import (ids are remapped).
*Hard*: an error in the middle of a merge leaves part of it done; hash maps
decide the order. *Correct if*: what is merged means what it meant where it was
declared.

### Formulas (`elab.rs`, `elab/math_parser.rs`, `elab/local_context.rs`, `elab/lisp/pretty.rs`; `mm0-c/parser.c`)
*State*: per program the tables of notations: the precedence of each token, the
prefix and infix notation it starts, which notations a term has, and in mm0-c the
direction of each level; while a declaration is elaborated, its variables.
*Operations*: the notation commands; reading a formula by precedence; elaborating it
to a term with coercions, inferring the sort of a variable without a type and whether
it is an argument or a dummy; printing a term, a def, an axiom.
*Hard*: where an operand ends depends on levels one apart and on directions, by a
different rule in each of the two parsers, and the printer must leave out exactly the
parentheses the parser does not need; what a variable is depends on all its uses; what
a file may declare is tested by one program and not by the other.
*Correct if*: what is printed reads back as what was elaborated, and both programs
read the same from the same text.

### mm0-rs proofs and the mmb format (`elab/proof.rs`, `elab/local_context.rs`, `elab/verify.rs`, `mmb/export.rs`, `mmb/import.rs`)
*State*: the hash table of a `Dedup` with its flags of shared nodes; the nodes of
a statement or proof laid out in a store and a heap; the exporter's count of heap
slots, the importer's stacks, heap and shares.
*Operations*: a proof that the elaborator left as a lisp value is compacted and
laid out (`Dedup`, `build`), checked (`verify_termdef`, `verify_thmdef`), written as
the command stream of mm0-c (`export`), read back (`import`) and checked again.
*Hard*: what is used once is moved and what is used twice is referred to, so each
of these passes must count the uses in the same way; the checker compares nodes by
address; the exporter must foresee the heap of mm0-c and in which order its stack
consumes obligations.
*Correct if*: no value is taken twice, what the checker lets through mm0-c accepts,
and reading back gives the statement and the proof that were written.

### MMC compiler (`mm0-rs/components/mmcc`)
*State*: a control flow graph of blocks in SSA form (the MIR), what each pass
finds out about it, the allocation of variables to storage.
*Operations*: `Cfg::optimize` (reachability, ghost propagation, legalization to
machine words, ghost propagation again), `Cfg::storage`, the lowering
`build_vcode`; before it parsing, name resolution, inference and the construction
of the MIR, after it register allocation, encoding and linking.
*Hard*: the analyses run on one worklist engine whose termination and whose result
depend on laws of the join; a pass relies on facts that the next one changes; two
variables share storage when a liveness argument says they may.
*Correct if*: the engine solves the equations of each analysis, the lowering never
meets what an earlier pass should have removed, and the code behaves as the source.

### Other parts
The elaborator's refinement of proofs and its Lisp, the `.mmu` import and export, the document
generator, the front of the MMC compiler, the crates for parsing (`mm1_parser`,
`mm0b_parser`) and utilities, the older `mm0-hs`, the Lean formalizations, the
editor plugins, `mmu.py`. `PROJECT.json` lists each with its sources and status, and
section 6 says why it is left out. `PROJECT.json` also lists the hazards of the code
that tests hardly reach, each at its line with the properties that watch it.

## 2. Modules and how they correspond to the code

| module | code | role |
|---|---|---|
| `Verifier` | `mm0-c/verifier.c` | the kernel: statement loop, proof and unify commands |
| `VerifierLogic` | (extends `Verifier`) | what is derivable, said over expression trees |
| `Verifier_proofs` | | theorems about `Verifier` |
| `VerifierLogic_proofs` | (extends both) | that what the kernel accepts is derivable |
| `ProofDag` | `elab/proof.rs`, `elab/local_context.rs` | how a proof value is compacted and laid out |
| `ThmVerify` | `elab/verify.rs` | the checker of mm0-rs |
| `MmbExport`, `MmbImport` | `mmb/export.rs`, `mmb/import.rs` | the command streams written and read |
| `MmbElab` | `elab/local_context.rs`, `elab/verify.rs` | a declaration's whole way through mm0-rs |
| `MmbPipeline` | (extends `Verifier`) | mm0-c fed with what mm0-rs writes |
| `CoercionGraph` | | what coercion declarations promise: abstract specification |
| `CoercionsC` | `mm0-c/parser.c` | sorts, coercions, `coerce()` of mm0-c |
| `CoercionsRs` | `elab/environment.rs` | coercions of an environment and their merge |
| `Coercions`, `Coercions_proofs` | | both parsers on the same files; theorems about each table and about the two |
| `Notation` | `elab.rs`, `elab/environment.rs`, `elab/local_context.rs` | terms and sorts, their coercions applied, the notation commands of mm0-rs |
| `MathParser`, `MathPrinter` | `elab/math_parser.rs`, `elab/lisp/pretty.rs` | its formula parser and its printer |
| `Infer` | `elab/local_context.rs` | elaboration of a def or an axiom |
| `MathC` | `mm0-c/parser.c` | notations, binders and formulas of mm0-c |
| `Formula` | | a file read by both programs, and what is printed read again |
| `ImportGraph` | | import graphs: reached files, cycles |
| `Compiler`, `Compiler_proofs` | `compiler.rs`, `elab.rs` | tasks, cache, channels, exit code; theorems |
| `Joiner` | `joiner.rs` | the recursion of `write` |
| `Project`, `Project_proofs` | | `join` and `compile` on the same files; theorems |
| `Server`, `Server_proofs` | `server.rs`, `elab.rs` | elaboration jobs against a client that edits; theorems |
| `Logger` | `server.rs` | the logging thread |
| `ServerMain`, `ServerMain_proofs` | `server.rs` | the main loop, requests, jobs and shutdown, with the logger; theorems about both |
| `Dataflow`, `Domains`, `Dataflow_proofs` | `mmcc` `mir_opt/mod.rs`, `mir_opt/ghost.rs` | the worklist engine, the joins, theorems about both |
| `Mir` | `mmcc` `types/mir.rs` | blocks, statements, their meaning |
| `MirOpt` | `mmcc` `mir_opt/*.rs` | the passes over the MIR |
| `MirRun` | `mmcc` `build_vcode.rs` | the lowering; source and code run side by side |

The `MC*` modules give the constants for TLC. A definition whose comment begins
"Broken variant" is not part of a model: it is a definition with a plausible
error, which `PROJECT.json` names under `mutants`, and with it in place of the
right one the property named there fails.

**Verifier.** One action per command; the opcode stream is not modelled as
data: any command whose checks pass may run next, and `Reject` (a failed
`ENSURE`, an unknown opcode) is always possible. So what holds here holds for
every stream. The tables and the specification are chosen in `Init`.
The calls of `run_unify` are a mode of the machine (`pc = "unify"`): `ucall` is
the return address. `UnifyEnd` and the four `Finish`/`Apply` actions are what
the callers do on return. The state is that of the globals; the 64-bit type of
an expression is a record [bound, sort, deps]; addresses, heap slots and ids
count from 1; the store is counted in cells. Stack capacities are constants, and
where the code lacks a capacity test so does the model (the first slot of the
unify stack, and the unify heap when a theorem is applied or a term unfolded). The
first asks only that the unify stack has a slot; the second is safe because the
binders were counted, with a test, when the statement of that theorem or definition
was itself matched with its unify stream, before it was declared (`RoomInv`, section 4).
`spec` is the part of the `.mm0` file not yet consumed: `ParseUntil` says that
its next statement is of the kind asked for and agrees with the table.

**VerifierLogic** gives the meaning. `Meaning` is what a cell stands for: its tree, the
variables in it, and the free ones, by definition rather than by cache. A unify stream is
read as a pattern: each of its `Readings` gives every command a tree, built of those of
its arguments, whose places in the stream follow from the count of
expressions still to be read (`Pending`). `Instances` and `Unfoldings` are all such
readings with admissible trees, `Convertible` and `Derivable` the least sets closed under
one step of a rule. A `World` holds what these are about: tables, theorems declared,
cells and their meanings.

**ProofDag, ThmVerify, MmbExport, MmbImport, MmbElab.** Pure algorithms as operators
on records. A lisp value is a tree; whether equal parts of it are one pointer
(`interned`) or each has its own is an input, for `Dedup` looks values up by
pointer and hashes by content. `vec` is the hash table with its `shared` flags;
`BuildNode` moves what is used once and refers to what is shared, and `twice` is
the panic "taking a value twice". `ThmVerify` compares nodes by address, as the
code does, and its verdict "panic" is an index that is not there. A command of a
stream is [op, data, save] and a heap slot is a number, which the exporter counts
as the code does and never reads back from mm0-c.

**MmbPipeline.** The machine is the whole of `Verifier`, but its command is the next
one of `code`: `Advance` is that command, and `Refuse` happens only when no action is
enabled for it. Declarations of `Theory` come first, then one of `Candidates`; each
was elaborated, checked, exported and read back by `MmbElab`, which is what `decl`
holds: [kind, entry, code, verdict, trees, back].

**CoercionsC.** `coes` is `g_coes` with its extra column for provable sorts;
`NoCycleSeen`, `NoDiamondSeen` and `Extended` are the three loops of
`KW_COERCION`. The first of them, over what leads to `s1`, fills the column of `s2`
only; the extra column gets an entry for `s1` and for nothing to its left. `coerce` is the function of the name with its recursion bounded
by a fuel that no call exhausts.

**CoercionsRs.** One file after the other; `add_coe` is the operator `AddCoe`,
which returns every outcome the order of a hash map allows, errors in the middle
of its loop included. `Import`, `MergeCoercion` and `MergeEnd` are
`ParserEnv::merge` one coercion at a time; sort ids are places in the vector of
one environment, so that ids of two environments can be confused as in the code.

**Coercions.** The declarations of the first file are steps of both parsers until
mm0-c refuses one; mm0-c has no imports, so it stops there. `ImplementsGraph` is
refinement: the variables `declared`, `provable`, `failed` of mm0-c's table are those
of `CoercionGraph`.

**Notation, MathParser, MathPrinter, Infer, MathC.** The two parsers, the
printer and the elaborator are recursive functions of the code, and recursive operators
here, with the same cases in the same order. A formula is a sequence of tokens and the
parser's position an index into it; a result of the mm0-rs parser carries the precedence
it was read at (`q`), that inside its parentheses (`par`) and the warnings so far. The
scope of a declaration is `lc`; `finalize_vars` is `FinalizeVars`, and a metavariable is
a tree node with the context of its use in `hole`, which `Resolved` fills in. Where the
code takes any sort that fits, so does `Settled`. A printed tree is [q, text]:
`ExprParen` encloses the text where q is below the level asked for. The term with its
coercions is a tree, so the two programs' results can be compared. Precedences are
those of the code, with 65535 for `max`, as it is in mm0-c.

**Formula.** `Declare` is one notation command in both programs: mm0-rs goes on after an
error, mm0-c stops. Then the declaration follows in the same file (`Stay`) or in a file
that imports it (`Import`), in which the notations come in the order of a hash map.
`State` states one declaration: `r` is what mm0-rs makes of it, `back` what it makes of
what it prints of `r`, `reads` what mm0-c reads from the same formulas, under binders in
which everything inferred is written out.

**Compiler.** A task is named by the path of import positions that led to it; its
`pc` follows `elaborate` and `ElabFuture::poll`. `cache` is `FileCache`, `chan`
the oneshot channels, `emitted` the atomic `MAX_EMITTED_ERROR`. Sections under
the lock of a file are one action each. An environment is the set of files whose
declarations it holds.

**Joiner, Project.** `calls` is the call stack of `write`; a text with n imports is
n + 1 pieces. `Project` joins a graph of files and then compiles it: its step is one of
`Joiner` while that runs, then one of `Compiler`.

**Server.** `vfs` is `Vfs` (loaded files: version and text), `parsed` the mutex
with the cache, `downstream` the dependents, `jobs` the list of running jobs with
the locals of each. Each section under a lock is one action, and the reads in
between (version before, text after, the test whether the text changed, the
diagnostics) are actions of their own. A text is the list of its imports; a hash
is the version with the hashes of the imports. `MayBeLocked` is a `try_lock` that
may fail. The client opens files, changes them and shuts the server down.
`Spawned` gives new jobs numbers that are neither in use nor awaited by anyone, as an
`Arc` or a channel of the code is never confused with another.

**Logger.** `log` is `Push` then `Signal`; the thread is `Test`, `Sleep`, `Swap`,
`Drain`; `Logger::stop` is `StopStore`, `StopNotify`, `StopJoin`. A signal wakes
the logger only if it waits (`asleep`), and it may wake by itself.

**ServerMain** extends `Logger`: thread 0 is `Server::run`, the others are jobs.
`inbox` is what the client has yet to say, `threads` the list of `Jobs`, `reqs` the
table of requests. What a job elaborates is left to `Server`: here it is time that
passes and messages that are logged. `Finish`, `Answer`, `Leave` and `NotifyAll` are
the end of a job in the order of the code; `StopLogger`, `CancelJobs` and `AwaitJobs`
the end of `run`.

**Dataflow.** `Pop` and `Flow` are the loop of `iterate_to_fixpoint_from`, one edge at
a time; `Order`, `Neighbours`, `Transfer` and `Join` are what an `Analysis` supplies.
`MirOpt` instantiates it for reachability (backwards) and twice for ghost
propagation; the remaining passes (`ApplyReach`, `ApplyGhost`, `Legalize`, `Storage`)
rewrite the procedure in one step each.

**MirRun.** `Lower` is `build_vcode`: the order of the blocks, the error values, the
panics. Then the source runs on its variables (`env`) and the code on its
allocations (`mem`), one block of each to a step; `said` and `saidLow` are what an
observer sees: calls with their arguments, branches, asserts, returned values.

## 3. What TLC checks

### Runs

| run | bounds | what it shows |
|---|---|---|
| `verifier_proofs` | five theories, every command stream; stack 5, heap 3, store 4, unify stack and heap 2; `BARE` | paired conversions, no saved obligation, the store, the dependency caches, soundness of every proof step |
| `verifier_statements` | hypotheses, repeated statements, a definition, local statements, Sorry, up to three binders; stack, heap, store 3, unify stack and heap 2, one hypothesis | types, every array within its capacity, pointers; the file is accepted only for what the specification asks; Sorry and axioms are never passed over |
| `verifier_unsound` | one theory with a term whose result depends on its bound argument | *violated*: a statement that does not follow is accepted |
| `mmb` | ten declarations, then one of some six hundred: proofs by hypotheses, axioms and conversions, right and wrong, and definitions, with and without shared parts | the elaborator never panics, what its checker accepts mm0-c accepts, what mm0-c accepts can be imported and is the same |
| `mmb_dummies` | a definition with two dummies | *violated*: a theorem that verify.rs accepts is refused by mm0-c |
| `coercions` | two files over three sorts, two of them provable, three coercions and one | both tables are typed, mm0-c's implements `CoercionGraph`, mm0-rs's is exact without errors, and the two parsers agree |
| `formulas` | 157 files of up to three notations at levels that meet; eighty declarations, each written in three ways, typed and with types left out | what mm0-rs prints it reads back as the same declaration, without a warning; mm0-c reads the same trees |
| `project` | three files; all graphs with at most two imports to a file; one error of any level, or one missing file, in the acyclic ones and around a way back to `Main`; an import under a doc comment | one elaborator per file, no lost waiter, real cycles, complete output, a truthful exit code, termination; the joined text is the program that was compiled |
| `server` | one to three files, two to four notifications | no lost waiter, no abandoned file, rest is reached, and at rest everything is current |
| `server_triangle` | A imports B and C, B imports C; three notifications | *violated*: the server rests with an outdated A |
| `server_main` | two clients: two requests with a cancellation, a request with an edit; one message to a thread | every request is answered once and before the exit, messages come once and in order, the server exits |
| `mir` | four thousand procedures of one to five blocks in five families, three inputs each; words of two bits | the analyses are exact, storage holds what a block relies on, the lowering meets no `unreachable!()` arm, code and source behave alike |

Deadlock is not reported: each of these programs may stop (an accepted or
rejected file, an idle server, a finished compiler). Where stopping too early
would be the error, a liveness property says so.

### Why the bounds are enough

* `Verifier`: what can go wrong in the kernel goes wrong within one proof over
  few expressions. Four cells hold a saved conversion with both sides and a
  variable; a stack of five holds a proof, an assertion and its obligation, each
  with its second expression (what `ConvCut` leaves, and all that `Unfold` needs);
  the heap of three holds a binder, a saved conversion and a saved proof; two slots
  of the unify heap hold a binder and a saved subterm or dummy. Each theory is there
  for one mechanism: two constants, of which one does not follow (`ConstFile`); a
  definition with a dummy, and a theorem proved by a conversion (`DummyFile`); a
  disjointness condition, under a definition that binds its variable
  (`DisjointFile`); a term that depends on its bound argument (`DependentFile`) and
  a definition over it (`ResultFile`); hypotheses (`HypFile`); one statement twice
  (`TwiceFile`); theorems with as many binders as the unify heap has places, the one
  proved by the other, and an axiom with one more, which must be refused (`WideFile`).
  The capacities matter only to `TypeOK`, and the theorems hold for all of them.
* `MmbPipeline`: the capacities are larger than any candidate needs, as in mm0-c. The
  candidates combine every conversion of depth one (reflexivity, symmetry, unfolding,
  congruence) with every other to depth two, use the same subproof and the same
  conversion twice, chain two conversions, bind a variable and a dummy apart and not
  apart from the body, and claim things their conversion does not show.
* `Coercions`: three sorts are enough for a path extended on the left, on the
  right and a diamond; with four both tables are known to be incomplete (section 5).
  The second file begins with its import, which is where sort ids still agree.
* `Formula`: the terms have one of each shape: a constant, a unary and two binary
  operators, a binder, a coercion. Their notations are at the same level, one apart and
  further, to the left and to the right, prefix, infix and general, ending in a variable
  and in a token, above the level of applications and at `max`; some give one token or
  one term two notations, or are refused. Two operators at two levels, with a
  prefix operator between, are all that the rules for the end of an operand compare;
  trees are up to five deep. Without their parentheses, formulas mean something else or
  are errors, which both programs have to see alike.
* `Compiler`, `Joiner`: three files give every shape on which the code branches:
  a file asked for by two others, a file asked for by one that waits, a diamond's
  two sides with a common end, a cycle with one entry and with two, a cycle off
  the main file, an import listed twice.
* `Server`: `Solo` (one file changed before its jobs end), `Self` (a file that
  imports itself), `Pair` (importer and import, both edited) let the client act
  at any moment; `Chain` and `Fork` have three files and a patient client. More
  notifications repeat the same races on a larger state.
* `ServerMain`: two jobs show a job that leaves the list from the front and from
  behind, a request answered before, during and after the shutdown, a request
  cancelled before and after its answer; one message of each of three threads can be
  left in the queue by a lost signal and carried along by another's.
* `Mir`: the families follow the branches of the passes: straight code with copies,
  overwrites and splits of storage (`Straight`), two arms that meet or of which one is
  a contradiction (`Diamond`), a loop with a call and a ghost (`Loop`), unbounded
  arithmetic ended by a word or a comparison (`Legal`), asserts, exits, failures and
  calls with and without effects (`Effects`). Constants reach past the two-bit word in
  both directions, and shifts reach past its width.

### Fairness

* `Logger`, `ServerMain`: weak fairness of the logger thread, of the main thread and
  of each job between its push and its signal and on its way out: these are threads
  that are runnable. That an elaboration ends is `ComesToRest` of `Server`. Nothing
  makes a client go, a thread log or the condition variable wake by itself.
* `Project`: weak fairness of the next step: the pool has nothing else to run and a
  task that can move is polled, but no promise is made to any one task.
* `Server`: weak fairness of `Jobs`: the pool runs jobs that can move. The client
  need never send anything; its notifications are bounded per project.
* `Verifier`, `MmbPipeline`, `Coercions`, `Formula`, `MirRun`: safety only, no fairness. That the
  worklist engine ends is `EngineProgresses`, an action property that shows the measure
  which decreases, and of which `EngineAlwaysProgresses` and the two theorems on climbing
  prove the parts.

### What the properties do and do not say

* `ProofsAreDerivable` and `DependenciesAreTracked` leave out theories with a
  term whose result depends on a bound argument (`ResultsAreClosed`, and only in
  the `Thm` mode for the caches): there they fail, which is `verifier_unsound`.
  The dependencies are checked with fewer dummies than dependency bits; the one
  variable more that the code admits has no bit.
* `AcceptedIsImported` excepts three kinds of proof, each a disagreement of section 5;
  `ExportedIsAccepted` is checked on definitions with one dummy.
* `PrintedReadsBack` asks that the operators of a level have one direction, and that
  every infix notation has a direction; mm0-rs sees to neither (section 5). It asks for no
  unnecessary parentheses only where each right associative infix notation ends in a
  variable: others are printed as lists.
* `FormulasAgree` asks nothing where one program refuses a notation that the other
  accepts. What mm0-c reads and mm0-rs refuses has to be a formula with something
  other than a bound variable of the sort where one is asked for, or a value that
  depends on more than its type says: mm0-c leaves these to the proof file.
* `Exits` leaves out the stop whose signal falls between the logger's test of the
  flag and its wait: there the join never returns. `ExactlyOnceInOrder` says that a
  message is printed once or still queued, in order, not that it is printed: what is
  logged after the logger has stopped stays in the queue.
* `Terminates` leaves out import graphs with a cycle that can be entered at two
  files: there tasks wait for each other for ever. `OutputIsComplete` and
  `CompiledIsJoined` are about bare imports.
* `RestIsFresh` is asked of a client that waits for rest between its actions and
  of projects in which no file is reached by two ways. `ComesToRest` and
  `NoLostWaiter` are asked of every client. `ComesToRest` leaves out import cycles of
  several files: two files that import each other and are opened together wait for
  each other, each at work and each with the other's job on its list.
* `BehavesAsSource` is asked of procedures that do not meet the storage and ghost
  errors of section 5: no variable is read by the condition of a branch or an assert,
  or passed to a call, after its storage was given away, and no branch has its first
  target only in reach of an effect.

Each property has a mutant in `PROJECT.json`: a variant of a definition with a
plausible bug under which TLC finds that property violated.

## 4. What is proved

The theorems hold for every value of the constants that satisfies the assumptions
named in the modules; each assumption only says of what kind a constant is, or what
the code reads from it. A lemma for each action, or a few alike, shows that the
invariant is kept.

### mm0-c: `Verifier_proofs`

`Verifier_proofs` proves, from `VerifierAssumption` only (the tables are sequences
of entries, capacities are natural numbers, the unify stack has a slot), hence for every file, specification
and capacity:

| theorem | what it says |
|---|---|
| `VerifierInductive` | `IndInv` holds in every reachable state |
| `VerifierTypeOK` | none of the arrays (store, stack, heap, hypotheses, unify stack, unify heap) outgrows its capacity; table indices are in range |
| `VerifierStoreWellFormed` | expressions are finite trees of declared terms with well-sorted arguments |
| `VerifierPointersValid` | every pointer is to a cell of the kind the code reads it as |
| `VerifierConversionsPaired` | conversions and obligations have their second expression below them |
| `VerifierHeapHoldsNoObligation` | no open obligation is saved |
| `VerifierAxiomsAreSpecified` | no axiom is declared without its statement in the `.mm0` file |
| `VerifierSorryIsReported` | a theorem proved with Sorry keeps the file from being accepted |
| `VerifierSpecificationFollowed` | an accepted file has the sorts, terms and theorems of the `.mm0` file, one for one and in order |

The properties are not inductive by themselves; `IndInv` is their conjunction with
what they silently rely on:

* `TheoryInv`: the counters stay in the tables, the terms declared have declared
  sorts, and the current statement's entry exists. `Hyp` and the end of a proof
  index `g_sorts` with the sort of an expression, a term's cell with its id.
* `StoreInv`: each cell refers to earlier cells, to declared terms and sorts, with
  arguments that fit. It must be stated of the store alone so that a growing store
  keeps it (`CellInExtends`), and of the counters so that a declaration does
  (`StoreGoodDeclare`): a term's cells survive from a proof into the next statement.
* `StackInv`: pointers and the pairing of the two-slot elements. Any command that
  pops one slot of a pair must pop the other.
* `HeapInv`: also that the binders stay on the heap through the whole proof:
  `verify` passes them to the unifier at its end without looking at their kind.
* `HypsInv`: a definition has no hypotheses and those of a theorem are consumed by
  its last unification, for the statement of a definition or a term does not reset
  the hypothesis stack while it reuses the store.
* `UnifyInv`: what the unifier holds points into the store; `Unfold` leaves the
  right-hand expression on top, so that the obligation pushed on return is paired.

That the unifier's arrays have room is `RoomInv`, beside `IndInv`: a declared theorem,
a declared definition and the one whose statement is being matched have no more binders
than the unify heap has places. `Thm` and `Unfold` copy that many into it without a test;
`push_uheap` has tested it once for the entry, at the end of its own statement.

The last three theorems have invariants of their own: an axiom is never local
(so its statement is always matched), and a file once marked with Sorry stays
marked at every later statement until it is refused. For the specification, `SpecInv`
says at every statement, not only at the end, that what is left of the `.mm0` file is
its end, and that the statements read so far are matched, for each of the three
tables, by an increasing map into the entries declared so far (`InOrderOf`). Entries
without a statement, those of local definitions and theorems, are what the map leaves
out. A new entry goes after all others, so `InOrderNext` extends the map at its end
and nothing already matched moves.
The proof has a lemma for each command under the heading of its part of the
machine; `StatementStep`, `ProofStepKeeps` and `UnifyStepKeeps` collect them.

### What mm0-c accepts is derivable: `VerifierLogic_proofs`

From the same assumption as `Verifier_proofs`, and on top of `IndInv`:

| theorem | what it says |
|---|---|
| `VerifierDependenciesTracked` | the dependencies cached with expressions cover the free variables; in a definition they are just those |
| `VerifierProofsDerivable` | what stack and heap hold as proved or converted is derivable |
| `VerifierAcceptedIsProvable` | a theorem without hypotheses is accepted only if it is a theorem of the logic |

All three are said of statements with no more bound variables than the mask of
dependencies has bits (`nbv <= DepsBits`): the test at `verifier.c:402` lets one more
through, for which there is no bit. The third leaves out theories in which the result of
a term depends on a bound argument (`ResultsAreClosed`), for there it is false
(`verifier_unsound`, section 5); the first two leave them out by their own statement. No
other limit is set: any tables, any streams, proofs and expressions of any size.

* `DepsInv`: while there are bits enough each bound variable has its own, and only bound
  variables are counted; the cached set of each cell covers what its arguments leave free
  (`Covers`) and, in a definition, is that set (`Exact`). `Meanings` is a recursive
  function over the store: that it is well defined, and that a new cell leaves the old
  meanings as they were, is shown first (`MeaningsAre`, `MeaningsGrow`).
* `LogicInv` says in a proof that stack and heap hold only what is derivable, and in a
  call of the unifier what it has established so far. To outlast what comes
  after, it speaks of every world that the present one can grow into and of every set of
  hypotheses that contains the present ones (`AlwaysSound`): a proof on the heap is
  used when there are more cells, and more hypotheses.
* An open obligation is a promise about what is below it, so the stack is sound under
  the condition that the obligations above are met (`Met`). `Unfold` promises before it
  calls the unifier; `InUnfold` keeps that promise apart from the stack, on which it is
  entered when the call has ended well.
* The unifier: `Trace` says that there is a cell for each command read so far; that
  commands which build an expression agree with their cells; that references mean what
  was saved; that the unify stack holds the cells of what is still to be read, at the
  places that `Pending` names. At `End` nothing is left to read, so the trace is a reading
  of the stream. For a theorem, with the tests of `Thm` (sorts, disjointness by
  the cached sets, which cover the free variables), it is an allowed instance
  (`ThmApplies`). For a term it is an unfolding with fresh dummies (`UnfoldApplies`). The
  hypotheses met on the way were on the stack, hence derivable.
* That `Least` is the least set closed under its step is a fact about finite sets
  (`LeastIs`): what can be added to a set that grows gets smaller.

The library's theorems on induction over numbers cannot be instantiated here, so
every induction is made with a set of numbers: those for which the claim fails have a
least one.

### The coercions of both parsers: `Coercions_proofs`

| theorem | what it says |
|---|---|
| `CoercionsInductive` | `AllInv` holds in every reachable state |
| `TableImplementsGraph` | mm0-c's table takes and refuses coercions as the graph of unique paths does |
| `CoerceIsTyped` | what `coerce()` inserts for an entry is a chain of declared coercions to the sort asked for |
| `ChainsAreTyped` | an entry of mm0-rs is a chain of coercions from the one sort to the other, for any number of sorts and files |
| `CoercionsEntriesAreTyped` | both together |
| `CoercionsCleanGraphIsExact` | a file without an error has unique paths, finds every path, and has `coe_prov` up to date |
| `CoercionsParsersAgree` | the two parsers refuse the same first file, but for a second way to a provable sort |

What is about completeness is said of files with at most three sorts (`num_sorts <= 3`, in
any number of files): with four it is false, for the table is completed one step to each
side of a new coercion (section 5). What is about mm0-rs is said of files whose import
comes first (`~ImportAnytime`): elsewhere the merge confuses sort ids (section 5).

* `CInv`, of mm0-c: entries name declared sorts; in the column for provable
  sorts stand the provable ones and sorts one declared coercion before a sort that has an
  entry there, every declared coercion into a provable sort giving one (`CProv`: not every
  path does, section 5); and, below four sorts, an entry is there just where
  there is a path, and its middle sort is on it (`CSteps`). With three sorts a path has at
  most two coercions, which is why one step to each side is enough; the proofs go through
  where a new coercion can be on it. That `coerce` comes to an end and to the
  right sort is then a least counterexample of its fuel.
* `RsInv`, of mm0-rs: of the environment at work and of every finished file, each entry
  is a chain of coercions with the right ends and, unless there was an error, entries are
  the declared coercions with their compositions and `coe_prov` is up to date (`Exact`). In
  a merge that counts the coercions still pending as declared, so that those of an import
  may come in any order. Ids of two files are compared through the names of the sorts; the
  ids of the import are kept when it comes first (`WithAllSorts`).
* `AgreeInv`: while neither has refused anything, the two tables have the same entries,
  at ids one apart (`SameFile`). A declaration that one of them refuses the other then
  refuses by its own test; `CSink`, that a sort coerces to one provable sort at most, is
  what mm0-c sees to and mm0-rs does not.

### The logger and the main loop: `ServerMain_proofs`

For any set of threads, any number of messages and any moment of a wakeup, a
cancellation or the stop; for the main loop, any client that numbers its requests
differently (`ClientAssumption`), any number of jobs and any order of the two.

| theorem | what it says |
|---|---|
| `LoggerTypeOK` | types; the batch is empty outside the drain, so the swap leaves the queue empty |
| `LoggerExactlyOnce` | a message is printed or still queued, once, and those of a thread are in order |
| `ServerInductive` | `ServerInv` holds in every reachable state |
| `ServerImplementsLogger` | each step of the server is one of `Logger` or changes nothing of it |
| `ServerLogsExactlyOnce` | the logger's two properties hold in the server |
| `ServerExitIsComplete` | at the exit every request taken has one answer, and no job can touch the tables |

`ExactlyOnceInOrder` is about the printed messages, the batch and the queue one after
the other, and is inductive with `TypeOK`: a swap moves the queue behind an empty
batch and changes nothing of that sequence. What of `ServerExitIsComplete` is not
inductive is how the two lists come to agree: `ListIsExact` (the list holds the jobs
that have not left, each once; the wait for the jobs tests that list),
`AnsweredOnce` (a job has its answer from the step that sends it on, and answers come
from nothing else) and `NumbersDiffer` (requests taken and requests to come), without
which the answer to one request could be counted for another. `RoomForJobs` is the
bound of the model: there is a thread for each job the inbox may still spawn.

### The compiler: `Compiler_proofs`

For every set of files, every import graph, cycles, missing files, errors of any
level and imports under annotations included, and every order of the tasks.

| theorem | what it says |
|---|---|
| `CompilerInductive` | `CompilerInv` holds in every reachable state |
| `CompilerOneElaborator` | one task elaborates a file, none is abandoned, and the tasks that wait are known to it |
| `CompilerOutputIsComplete` | the environment exported is that of just the files needed |
| `CompilerExitZeroMeansClean` | exit code 0: each file needed was read, is ready and has no error that counts |
| `CompilerCyclesAreSeen` | reported cycles are cycles; a graph with a cycle is not exported |

That an output is complete, clean and without cycles is said of bare imports, as in the
properties. The invariant has these parts:

* `ChannelsAre`, `TreeIs`: tasks and channels form a tree; a channel exists for each
  readable import of a task that has come to its imports. A key determines the importer
  and the position (`KeyAppend`), so an answer cannot reach the wrong task.
* `OwnersAre`, `WaitersAre`: among the tasks of a file one, at most, elaborates it or
  has; the cache says so; its senders are just the tasks that wait.
* `TasksAre`: what a task has made of the answers so far (`ImportsTask`), what it has
  sent (`AnswerTask`), that an environment with a file has all of that file's
  (`EnvironmentTask`), and that the path by which a task was reached is one of
  imports (`CycleTask`), which is why a reported cycle is a cycle.
* `CleanBelow` and `CleanAcyclic`: the difficult part. A file on whose elaboration a
  cycle was met answers Ok to those who ask for it later, so that no answer tells that
  the graph below is acyclic. What does is that a task which has met no cycle has below
  it only tasks that are done with Ok (`CleanBelow`), and that every set of files
  elaborated so has one that imports none of the set (`CleanAcyclic`). When another
  file joins them, it is either the one, or the set without it has one.

`OutputIsComplete` then follows as the set exported contains `Main` and is closed
under imports (`EnvironmentTask`), and `Needed` is the least such set
(`NeededIsLeast`, a lemma on `ImportGraph`).

### Join and compile: `Project_proofs`

| theorem | what it says |
|---|---|
| `ProjectImplementsCompiler` | each step of `Project` is one of `Compiler` or changes nothing of it |
| `ProjectInductive` | `JoinInv` and `CompilerInv` hold in every reachable state |
| `ProjectCompiles` | what is proved of the compiler holds after a join |
| `ProjectCyclesAreSeen` | join panics just when a file it reaches imports `Main`; `CompilerSeesCycles` |
| `ProjectCompiledIsJoined` | if compile exits with 0, the joined text is the program compiled, each file once and after its imports |

`JoinInv` describes the recursion at any moment: the call stack is a path of imports
without repetition (`StackIs`); of a file on it the pieces before its next import are
written, of any other file started all are, in order (`PiecesAre`); the imports passed
are started (`ImportsStarted`), so that when the stack is empty the files started are
closed under imports, hence those needed. `WholeBefore`, that an import is whole when
the text goes on after it, is true of acyclic graphs only: an import of a file that is
on the stack is cut short. So `CompiledIsJoined` needs both invariants: that
compile exits with 0 is what says that the graph is acyclic.

### The elaboration jobs: `Server_proofs`

| theorem | what it says |
|---|---|
| `JobsInductive` | `ServerInv` holds in every reachable state |
| `ServerNoLostWaiter` | who waits for a file or an import has a job that owes the answer; a file in progress has a job at work |
| `ServerRestIsFresh` | at rest, the results, the diagnostics and the dependents of all loaded files are those of the texts |

The first two hold for every set of files, texts and imports, cycles included, every client and every
order of the jobs; the bound on notifications plays no part. `Consistent` says of each
job by itself what it holds at which line (`JobIs`: as many answers asked for as
imports passed), of each file that the job named in its cache is at work on it and its
senders are waiting jobs of that file (`ParsedIs`), and of each waiting job that it is
among them. `Answerable` says that each import without an answer has a job that will
send it. The critical step is the takeover: a job for a newer version finds the
file in progress, puts itself in the cache and must keep the old senders; the
superseded job goes on, and when it publishes it answers whoever is on the list by
then, those its successor took over included, and removes the entry. So a job at work need not be the
one that the cache of its file names; only the converse is invariant. The proof needs that numbers of new jobs are neither used nor awaited
(`Spawned`): for that the running jobs must be finitely many, which is part of the
invariant, as is that a file has finitely many dependents.

`ServerRestIsFresh` holds for every set of files and any number of notifications, of
projects in which no file is reached by two ways (`IsForest`: one file, at most, ever
imports a given one, once, and no file imports itself through others) and a client
that waits for rest. Both are needed: `server_triangle` breaks it with two ways to a
file. At rest is no state to start an induction from, and the caches are wrong, on the
way, about whatever has not been told yet; the invariant (`FreshInv`) says how wrong:

* There is one file, `x`, to which the change has come (`WaveNow`). A job not ended is
  of one of three kinds (`Kind`): it *leads*, for `x`, and answers nobody; or it *reads*,
  for a job above it, a file that was never loaded, which nobody depends on yet; or it
  is *idle*, and will find that its file is settled. But for idle ones there
  is at most one job not ended for a file (`Alone`).
* A loaded file with no job is *settled* (`Settled`): its result has the hash that its
  text and the results of its imports give, its diagnostics are of its version, and its
  `deps` are its imports. The only exception is the importer of `x`, as to `x`, while
  the leader has yet to tell it (`Behind`).
* A job at work holds its file alone, is not canceled, and every answer it has received
  is still what is known of the import (`Doing`): no import changes under it, as all
  jobs not ended are for files of lower rank, `x` itself, or idle.
* `downstream` is, of each file, just those that depend on it (`KnowsImporters`): by the
  `deps` of a result, and, of a file in progress, by the imports it had and has and by
  how far `update_downstream` has come (`Counts`). This is where the order of the code
  matters: the dependents are updated before the result is published.

When the leader tells the importer of `x`, that file becomes `x` (`TellGoesOn`); a file
opened again that is loaded already is followed by an idle job for it beside the job for
its importer (`OpenLoadedGoesOn`). Two actions, `LockWaits` and `LockSupersedes`, are
never enabled under these conditions (`NoneConflicts`), nor is `ImportCloses`.
No induction over the depth of imports is needed: hashes are compared one import deep,
and the invariant has that comparison for every file at once.

### The dataflow engine: `Dataflow_proofs`

About the worklist engine of the MIR passes, for any transfer function, any graph on
which the analysis stays among a set `B` of blocks and a set `D` of states (`Closed`, a
part of `EngineInit` and `EngineInv`: it is about the graph the engine runs on, which no
step changes) and any join that obeys two laws (`JoinLaws`): joining a state twice is
joining it once, and what a state has absorbed stays absorbed when it grows by something
else. For the analyses of `MirOpt`, `B` is the blocks of the procedure, and `D` the three
reachability states, or the records of an `active` rank in `Nat` and a set of the
procedure's variables.

| theorem | what it says |
|---|---|
| `EngineInductive` | `EngineInv` holds in every reachable state |
| `EngineSolves` | when the queue is empty every block queued at the start is stable: what it passes on has arrived at each neighbour |
| `EngineAlwaysProgresses` | a step changes one state by a join, or takes from the queue, or takes from the edges |
| `ReachJoinLaws`, `GhostJoinLaws` | the joins of both analyses obey the laws, though that of ghost propagation is no least upper bound |
| `ReachJoinClimbs`, `GhostJoinClimbs` | a state that a join changes climbs: Dead, Unreachable, Reachable; more variables or a higher rank, and neither lost |

The invariant (`EngineInv`) says where what is still missing can be: a block is
queued, or stable, or it is the block at work, and then each edge that has not
absorbed its state is still on the list of edges. The second law is what keeps a
stable block stable while its neighbour is joined from elsewhere; the case of an edge
from a block to itself, which changes the state at work, falls back to the queue.
`EngineAlwaysProgresses` with the two theorems on climbing is a measure for the end of
the loop, lexicographic in the states, the queue and the edges; that a run therefore
ends is liveness and not proved. `AnalysesAreExact` checks the
same at rest on the procedures of the `mir` run, and that reachability is then
graph reachability.

### Only model-checked

* Liveness, out of the prover's reach: `SignalledIsPrinted`, `RequestsAreAnswered`,
  `Exits`, `Terminates`, `ComesToRest`.
* `MmbPipeline`, `Formula`, `MirRun` and `AnalysesAreExact`, whose models and references
  are recursive operators over expressions, formulas and procedures, with which the
  provers cannot deal.

## 5. Where code and documents disagree

Three runs end in a violation of what the repository says of itself:

* `verifier_unsound` (`mm0-c/verifier.c:442-458`): in a proof, the dependencies of
  a bound argument are not added to the cached set of a term, nor are those of the
  result. For a term such as `pred {x: var}: wff x` the cached set of `pred x`
  lacks `x`, a distinct-variable condition passes, and a theorem is accepted that
  does not follow, against `mm0-c/README.md:11`.
* `mmb_dummies` (`elab/verify.rs:498`): a dummy met while a definition is unfolded is
  compared with the heap entries matched so far only; two dummies of one definition
  unfold to one variable, and mm0-c refuses the file.
* `server_triangle` (`server.rs:163`): a job that finds its file in progress takes
  that result, though it may have been computed from an outdated import.

Further observations, made while modelling and not turned into runs. Where a property
would fail for one of them, section 3 says what it leaves out.

mm0-c:

* `verifier.c:752`: the opcode decides whether the specification is read; a
  `LocalDef` whose table entry is a term declares it without a statement in the
  `.mm0` file, against `mmb.md:208`.
* `verifier.c:402`: the test lets a 56th bound variable through, for which
  `TYPE_DEPS_MASK` has no bit; `README.md:44` says at most 55. The bit that a
  binder's type reserves is not tested either.
* `verifier.c:632-642`: the comment on `ConvSorry` says it discharges an
  obligation; the code drops a conversion.
* `verifier.c:397`: `Dummy` refuses sorts that are `free` as well as `strict`.

Coercions and notations:

* `parser.c:826-842`, `elab/environment.rs:1048`: the table is completed one step to
  each side of a new coercion, not both sides together. With four sorts a path of
  three coercions whose middle one comes last is missing (in mm0-rs depending on the
  order of a hash map); cycles and diamonds through it go unnoticed.
* `parser.c:850`: with `x > y` declared before `y > v`, `v` provable, the path from `x` to
  `v` is entered, but the column for provable sorts is extended for `y` only, so that a
  formula of sort `x` is a type error, against `mm0.md:252`. Declared in the other order
  it is accepted, and mm0-rs accepts both.
* `elab/environment.rs:1120`: the merge of an import remaps the term of a coercion but
  not its sorts. An import that is not the first statement enters coercions between
  the wrong sorts.
* `mm0.md:250` asks that the *undirected* graph of coercions be acyclic; both
  programs refuse only directed cycles and two directed paths. Only mm0-c minds a
  coercion from one provable sort to another.
* `parser.c:809-822`, `elab.rs:408-421`: the sorts a coercion names are not
  compared with those of its term.
* `elab/environment.rs:983-991`: the comment says that all operators at one level must
  have the same associativity and that `add_prec_assoc` sees to it; `add_prec_assoc` is
  called only by the merge (1100). Within one file a level may hold `infixl` and
  `infixr`; then `a :: (b + c)` is printed as `a :: b + c`, which reads back as
  `(a :: b) + c`. mm0-c refuses such a file.
* `elab.rs:438-545`: a general infix notation that ends in a constant may leave its
  associativity open; `math_parser.rs` and `elab/lisp/pretty.rs` then panic at
  `expect("infix with no associativity")` when it follows another infix, or is printed.
* `elab/environment.rs:1008-1017`: `add_prefix` and `add_infix` enter the notation under
  its term before `add_nota_info` can refuse it; a refused notation is then used to
  print the term.
* `elab/local_context.rs`: a nullary notation becomes a list of one atom, whose head a
  local variable of the same name captures; mm0-c reads the term.
* A second notation of one token at the same precedence replaces the first in mm0-c;
  mm0-rs reports it.

Imports, compiler, joiner:

* `elab.rs:619, 632`: an import under a doc comment or an annotation is started and
  neither awaited nor merged, against the comment at `compiler.rs:317`.
* `elab.rs:650`: the list of an import cycle is said to contain the target file; a
  file that hears of a cycle from its import need not be on it.
* `compiler.rs:318` notes that cyclic imports can deadlock: they do when a cycle can
  be entered at two files.
* `joiner.rs:67`: only a cycle through the joined file is found; the `stack` is said
  to be there to check for cycles (line 29).

Proofs and the mmb format:

* `elab/verify.rs:43`: in a conversion of a conversion, the inner target is returned
  without following a reference: when it is shared the proof is refused.
* `mmb/import.rs`: `Refl` uses its expression without marking it as reused; built
  later, it is taken twice, which is a panic.
* `elab/local_context.rs:990-998`, `elab/verify.rs:790`: a proof's list of hypotheses
  holds the named ones only, its statement holds all; the checker refuses the theorem.
* `elab/verify.rs:572` counts the bound arguments that `verifier.c:441-457` forgets.
* `mmb/export.rs` drops the expression of a reflexivity and the arguments of an
  unfolding: a proof that the checker refuses can be exported as one that mm0-c accepts.
* `mm0b_parser/src/write.rs`: `add_thm_core` pushes the name of a theorem to the names
  of the terms.

Server:

* `server.rs:140`: `Logger::stop` signals without the mutex; the signal can be lost
  and the join hang. `server.rs:1895`: the logger is stopped before the jobs, whose
  later messages nobody prints.
* `server.rs:231-243`: two files that import each other and are opened together wait for
  each other for ever: each job finds the other file in progress. The note on deadlock at
  `compiler.rs:318` is not made here.
* `server.rs:453`: opening a file that was loaded as an import keeps the text from
  disk; `server.rs:513`: after a close the entry that `update_downstream` indexes may
  be gone.

MMC compiler (`mm0-rs/components/mmcc/src`):

* `mir_opt/storage.rs:405-409`: what the condition of a branch or an assert, or a call,
  reads is not counted as a use, though the comment at 383-386 says what is; the
  storage of such a variable can be given away before it is read. `TyKind::meta` treats
  a structure the wrong way round.
* `mir_opt/ghost.rs:122-130`: when only the first target of a branch can matter the
  hypotheses are swapped but not the targets (doc 52-62): the jump goes to the block
  that was dropped, and the lowering panics (`build_vcode.rs:997`).
* `mir_opt/legalize.rs:110`: an assignment legalizes the value it overwrites instead of
  the new one; widths are mixed, and `as` takes its sign from the target.
* `build_vcode.rs`: the arguments of a jump are moved one after the other, so that one
  may overwrite the source of the next; blocks that a diverging call names are visited.
* The condition of a branch is erased as ghost when one arm ends in a failure or an
  exit; predecessors that are dead are marked reachable by the join.
* `mir_opt/dominator.rs`: the immediate dominator that is returned is always the entry.

## 6. What is not modelled

* Bytes and layout: how a table or an opcode is read from a file (`mm0b_parser`), the
  index for debug output, error messages, `main.c`. `Verifier` takes tables as values.
* The elaborator's unification and refinement of proofs (`elab/refine.rs`, the rest of
  `elab/local_context.rs`, `elab/inout.rs`) and its Lisp (`elab/lisp.rs`,
  `elab/lisp/eval.rs`, printing of values): an interpreter whose data is the
  state. `MmbElab` starts from the proof it leaves. The order in which statements run
  is in `Compiler` and `Server`.
* In `Formula`: characters, delimiters and comments; a comma that calls Lisp; binders
  without a name; the modifiers of sorts; the limit on bound variables; warnings of unused
  variables; variables that are also called as a term or a token; precedences of
  mm0-rs that do not fit 16 bits; imports into a file that has notations of its own.
  mm0-c's comparison of a formula with the table (`check_expr`) is in `Verifier` as
  matching the next statement.
* The rest of the environment merge (atoms, terms, theorems).
* In the server what a request answers, closing a file, elaboration on save, files
  that cannot be read, import cycles of several files.
* In `Joiner`, imports under annotations and the header; in `CoercionsRs`, imports of
  `.mmb` files; the `.mmu` text format and `mmu.py`, which checks it.
* The MMC compiler before the MIR (parsing, name resolution, inference, construction)
  and after `build_vcode` (registers, encoding, linking, the proof it writes): large
  functions whose correctness is a type system's or an instruction set's. Of the MIR,
  places with projections, tuples and arrays are left out.
* `mm0-hs`, the Lean formalizations, `m0e`, the editor plugins, documents, examples.

## 7. Plan

Done, in this order: the kernel and its proof (`Verifier`, `VerifierLogic`,
`Verifier_proofs`, `VerifierLogic_proofs`); the concurrent part of mm0-rs (`Logger`, `Compiler`, `Joiner`,
`Server`, `ServerMain`) and what composes it (`Project`); the coercions of both
parsers and their agreement, with the proofs (`Coercions_proofs`); notations, formulas, inference and printing
(`Formula` and what it is made of); the way of a proof from mm0-rs to mm0-c and back; the
optimizer of the MMC compiler and its engine's proof; the proofs of the concurrent part of
mm0-rs (`ServerMain_proofs`, `Compiler_proofs`, `Project_proofs`, `Server_proofs`).

Next, to model:

 1. `Server`: `close` and the dependents of a file that goes away, unreadable
    imports, elaboration on save, cycles of several files.
 2. `Environment::merge` for atoms, terms and theorems, against a specification in
    which the merge of two environments is the union of their declarations.
 3. The `.mmu` format and `mmu.py`, beside `MmbPipeline`; the linker of `mmcc`.

Next, to prove:

 1. For the kernel, that the derivable statements of a world are those of any larger one
    (a proof needs no expressions but its own), so that `AcceptedIsProvable` for each
    theorem gives the consistency of the whole file with its axioms.
