# kuli in TLA+

kuli (C++) installs and runs tools from Luau blueprints: it evaluates a blueprint to a graph
of derivations, realizes them in a content-addressed store, records a *generation*, projects
it as shims and config files into the user's directories, and runs commands here or on other
hosts. This directory holds TLA+ modules translated from its source, TLC configurations that
check them on small instances, and proofs checked by TLAPS of what matters most.

The whole design rests on files. There is no daemon and no lock: every command is a process
that reads files, changes them in memory and writes them back, and may die between any two
steps. So most modules have the same shape: the files are shared variables, a process is a
record with a program counter and what it has read, an action is one handler or one step
between two file-system calls, and what may go wrong is a set of *mishap* kinds with a bound.

Contents: [inventory](#inventory), [modules](#modules), [runs](#runs), [bounds](#bounds),
[fairness](#fairness), [proofs](#proofs), [what the code does not keep](#what-the-code-does-not-keep),
[not modelled](#not-modelled), [plan](#plan).

## Inventory

| Component | Code | State it keeps | Operations | Hard behaviours | Correct means |
|---|---|---|---|---|---|
| Content-addressed store | `libs/kuli-store`, `libs/kuli-http/download.cpp` | store directories with markers, one staging directory and one download file per path | `realize_fetch`, `realize_from_archive`, `realize_inline` | races on shared names, crashes, leftovers, unchecked writes, hash-prefix collisions | a marked path is complete and immutable, success means content, retries succeed |
| Archive extraction | `kuli-store/archive.cpp` | the list of entries, the names that headers before an entry gave it, the destination | `extract`, `extract_tar`, `extract_zip`, `place_entry` | partial output, format by file name, names in headers of their own, one shared top directory | an archive is read as what it is, and leaves its files under their own names |
| Profile generations | `kuli-bp/generation.cpp`, `gen_cmd.cpp`, `apply.cpp` | manifests `<id>.json`, `current`, shims, deployed files and backups, `kuli.lock` | apply, commit, activate, switch, rollback | torn files, partial projections, stale pointers, ids raced for | history append-only, `current` loadable, what is current is what is projected, user files survive |
| Scripture registry | `kuli-bp/scripture.cpp` | `scriptures.json`, basename shims | install, uninstall, `resolve_basename` | whole-file rewrites, shims shared with the profile | installs additive, no dangling shim |
| Blueprint evaluation | `kuli-luau/luau_frontend.cpp` | the VM: call stack, graph, cache of siblings, in-progress marks, pending diagnostic, deadline | `evaluate`, `pkg_index`, `ctx.lib.*` | errors caught by `pcall`, cycles, loops | the graph is closed and acyclic, cycle detection exact, evaluation ends |
| Plan and url resolution | `kuli-bp/adapter.cpp`, `resolver.cpp` | none between applies | `dfs`, `to_apply_ir`, `resolve_urls`, `select_asset` | shared children, order, ties | children first, once; the right asset |
| Engine | `kuli-engine/engine.cpp` | none between documents but the evidence session of an apply | `validate`, realize loop, `execute_exec`, `execute_pipeline`, `route_remote`, queries | failing stages, lost links, inherited stdin, glob backtracking, unchecked records | nothing hidden, each stage fed by the one before, the session true to the store, a query finds what it describes |
| IR validation | `kuli-ir/validate.cpp` | none | `validate`, one check per kind | references between entries in any order | no well-formed plan refused, no incomplete one executed |
| Hosts, capabilities, routing | `kuli-bp/hosts.cpp`, `capability.cpp` | `hosts.json`, identity key, cached records | host add/remove, `capability sync`, `route` | key raced for, stale records, lost links | records monotonic and signed by their node, a command runs at most once |
| Blueprint sources | `kuli-bp/source.cpp` | entry files, trees, temporary zips | add, update, remove | shared temporary names, two requests, partial updates | a registered source has its own repository's tree |
| Shims, paths, PATH wiring, process spawning | `kuli-platform` | shim files, one registry value on Windows | `write_shim`, `remove_shim`, `run_process` | Windows/POSIX differences | part of their callers here |
| Hashing, canonical JSON, crypto, diagnostics, CLI | the rest of `libs/`, `apps/kuli` | none | pure functions, dispatch | – | not modelled, see below |

How they interact. `kuli bp apply` runs evaluation, ordering, url resolution, the engine's
realize loop (each a call into the store), then commit and activation of a generation. `kuli
scripture` writes into the same `~/.local/bin` as activation but keeps its own registry. `kuli
mesh` and `kuli route` go through the engine's transport, which looks the host up in
`hosts.json` on every stage. A document may also come from a file (`kuli run-ir`); what has no
derivations (a line, a question) never opens a session. Sources feed evaluation with files. All
of it is by direct calls within a process, and by files between processes.

## Modules

| Module | Models | State and actions against the code |
|---|---|---|
| `ContentStore` | what the store promises: write-once registers | one step per successful request |
| `Store` | `store.cpp` step by step, for any number of processes | `dir`, `tmp`, `archive` are the store path, its staging directory and its download, with names computed from the path alone, as in the code; `buf`, `todo` are what `extract` holds in memory. Actions: `Check`, `Download`, `Fetched`, `FetchFails`, `VerifyDownload`, `Verify`, `ClearDir`, `ClearTmp`, `Open`, `PutFile`, `PutFails`, `Extracted`, `WriteMarker`, `Publish`, `PublishRefused`, `LostRace`, `Discard`, `Crash`. `remove_all` goes entry by entry. A write may fail while the code still looks at its stream (`PutFails`) or only when the destructor flushes it (second branch of `PutFile`, `LoseTail`), after which extraction, marker and rename go on; `lossy` is an auxiliary record of the latter. |
| `GenerationLog` | what the profile promises: an append-only history and a pointer | `Append`, `Select`, `Lose` |
| `Profile` | apply, commit, activate, switch, rollback, lock file | `gens`, `current`, `bin`, `file`, `bak`, `lock`, `realized` are the disk. One action per file operation of `activate` and `commit`; loops over shims and files are one step per element in any order. |
| `Scripture` | install and uninstall | the registry is loaded, changed and saved whole |
| `Kuli` | `Profile` and `Scripture` on one `~/.local/bin`, and basename resolution | one command at a time of either |
| `Evaluation` | `evaluate` and `pkg_index` | a blueprint is a list of statements (use a sibling, build, fail, loop, return), each maybe under `pcall`; `stack` is the Luau call stack, `inProgress`, `cache`, `pending` the fields of the frontend's state |
| `ApplyPlan` | `dfs`, `resolve_urls`, `validate_apply_derivation`, the engine's dry run, realize loop and evidence session | `calls` is the recursion of `dfs`, `order` its output. It starts from well-formed graphs, which is what `Evaluation` guarantees (`GraphSound`), or, at the validation, from any document. `steps`, `dropped` and `summary` are the session: what was written, and what the unchecked streams lost. |
| `Assets` | `select_asset`, `url_ext`, the dispatch of `extract` | a name is the words and extensions the code looks for |
| `Archive` | what `extract` does with the chosen file: `gunzip`, `zstd_decompress`, `extract_tar`, `extract_zip`, `place_entry` | a name is the sequence of its segments, a file's content the number of its header. `long` and `pax` are `gnu_longname` and `pax_path`, kept from one turn of the loop to the next; `disk` is the destination, in which a file may be in the way of a directory |
| `Pipeline` | `execute_pipeline`, `execute_exec`, `route_remote`, `run_process` | data are known by who wrote them; `ran` is an auxiliary record of what ran |
| `Query` | `collect_paths`, `glob_match`, `execute_file_query`, `execute_text_search`, the filters of `execute_process_query` and `execute_env_query` | a tree is the sequence of its entries in the order of the walk; `p`, `t`, `star`, `mark` are the variables of `glob_match`, one action per branch of its loop |
| `Engine` | `Engine::execute` on documents without derivations: `Pipeline` or `Query` | no state of its own |
| `Mesh` | host registry, identity keys, capability cache, routing | `task[p].rec` is the record a sync or a route carries; nodes change what they can do (`Change`) as time passes (`Tick`) |
| `Sources` | add, update and remove of sources | the zip is named after the repository only (`ZipOf`), so repositories can share one; `fetch_to_file` may return a zip that is cut short as a success, since nobody looks at its flush and close (second branch of `Download`), and `Extract` refuses it |
| `MC*` | instances for TLC | |
| `StoreProofs`, `KuliProofs` (`Profile`, `Kuli`), `EvaluationProofs`, `ApplyPlanProofs`, `MeshProofs`, `EngineProofs` (`Pipeline`, `Query`), `ArchiveProofs` (`Assets`, `Archive`), `SourcesProofs` | theorems | |

Definitions introduced as "Mutant" are plausible bugs: each property of each run is violated
when the definition after it is replaced by the mutant, which shows that the property says
something about that code.

Abstractions common to all: contents, hashes, names and commands are model values; messages,
formatting and logging are left out; a file that was truncated and not completely written is
`Torn` and reads as the code reads it (mostly as an empty file). In `Profile`, realizing is
one step per derivation (the `Store` promise, `ContentStore`, is what it stands for), one
blueprint gives an alias to one derivation, and the user does not edit files between commands.
In `Evaluation`, the memory cap and mutation of `ctx` are not modelled. In `Pipeline`, line
ending normalisation is abstracted, as is a single local stage that streams to the terminal
instead of being captured; stderr is reduced to which stages were told of. In `Query`, a file that was found can be read;
which lines match is given. In `Archive`, the size in a PAX record agrees with the header's, and
entries are not filtered by path (no caller asks for it). In `Mesh`, all
nodes share one time base, in seconds as in the code.

## Runs

Every run that passes explores its instance completely.

| Run | Specification | What it shows |
|---|---|---|
| `store_serial` | `FairSerialSpec`: at most one process per path | With crashes, network and disk failures at any step, a marked path holds exactly the files of its content (`MarkedIsComplete`) and success leaves those of the requested content (`SuccessIsComplete`), each whole unless its write failed only when the stream was closed, which the code does not see (`MarkedIsWhole`, below, does not hold); a request after the last mishap succeeds whatever leftovers there are (`RetrySucceeds`), and the protocol implements `ContentStore` (a published path never changes). |
| `store_race` | `FairSpec`: two processes, same path | Races and all, every call returns: no two processes keep each other from finishing. |
| `store_race_partial` | `Spec`, expected violation | Two processes fill one staging directory; a path gets a marker over an incomplete directory. |
| `profile_serial` | `FairSerialSpec`: one process at a time | Under crashes, failed realizes, failed writes and failed backups: the profile implements `GenerationLog` (`current` names a complete manifest, none is ever rewritten), parents are older and complete, `current` moves only over a full projection; a shim runs a derivation that is in the store, unless the blueprint's root does not reach it (`ShimsResolve`); short of mishaps the profile directory shows exactly the current generation and no file of the user is lost; after the last mishap apply and rollback do what they should. |
| `profile_race` | `Spec`, expected violation | Two applies take the same id; the second rewrites the first one's manifest. |
| `kuli_serial` | `KuliFairSpec`: one command at a time of profile or registry | No basename shim is left without a scripture, profile commands leave the registry alone, installs and uninstalls take full effect after the last mishap, also on a torn registry (`RegistryTakesHold`). |
| `evaluation` | `FairSpec` | The graph is closed and acyclic; marks of siblings in progress are the call stack, whatever was raised and caught; a sibling is evaluated once; the diagnostic is of the error that ended it; evaluation ends unless a blueprint caught its time-out. |
| `apply_plan` | `Spec` | The plan of a blueprint is a duplicate-free order, children first, of what the root reaches, so that the validator never refuses it; nothing is stored before every url is known. Of blueprints and of any document that passes the validator: the evidence session is true to the store (`EvidenceTrue`). |
| `mesh_serial` | `SerialSpec` | Cached records only get newer, are signed with their node's key, a routed command runs at most once, lost links included; `host add` and `host remove`, which rewrite the whole registry, change the entry of one alias (`HostsAdditive`). |
| `sources_serial` | `FairSpec`: one command at a time, pushes in between | A tree is given up only for a download of its own repository that was reported complete (`KeptUntilFetched`; reported is not arrived, see `KeptUntilArrived` below); what is extracted is the repository asked for; an entry's commit is the tree's; after the last mishap an update repairs a source whose entry can be read, whatever became of its tree (a torn entry is not repaired: `update` does not find it). |
| `pipe_line` | `FairEngineSpec` | Each stage reads what came back from the one before; success is about the last stage; nothing runs twice or fails silently; a query finds exactly what its filters and globs describe (`AnswersRight`); a line ends unless a command waits for typing, and every question is answered. |
| `assets_pick` | `ArchiveSpec` | The chosen asset is for this host if there is one; an archive is not unpacked as something else; what is unpacked is each file under the name its packer gave it, less the one directory all are in, or the extraction fails (`UnpackedAsPacked`). |

`TypeOK` is a conjunct of an invariant of every run: `MarkedIsComplete`, `ParentsOlder`,
`GraphSound`, `ChildrenFirst` and the first invariant of the others.

A deadlock is an error except where the program ends (`evaluation`, `apply_plan`, `pipe_line`,
`assets_pick`: one evaluation, one apply, one line, one choice).

## Bounds

| Run | Bounds | Why enough |
|---|---|---|
| store | 2 processes, a fetched path two contents claim and a scripture path, contents of 1 and 2 files, 2 mishaps (1 in the race) | a partial directory needs two files, a collision two contents; two mishaps reach a crash during the clean-up after a crash |
| profile | 3 blueprints (one alias changing owner, one dropped, a `KuliExe` shim, a derivation its root does not reach, one target deployed, redeployed, dropped), `MaxGen` 3, 1 mishap | three generations give a rollback over a rollback and an apply after a rollback; what needs more mishaps (`CurrentLoadable`, `ParentsOlder`, `AppendOnly`, the refinement, `ShimsResolve`) is proved for any number |
| profile race | 2 processes, 2 generations, no mishap | the shortest race |
| kuli | 2 scriptures, 2 aliases that scriptures, derivations and blueprints all claim, 3 generations, 1 mishap | every pair of owners of a shim occurs |
| evaluation | 3 blueprints, 13 bodies with and without `pcall`, derivations with a forbidden cycle | a cycle through one, two and three blueprints, an error raised two calls deep and caught at each level |
| apply plan | all graphs of 4 nodes with up to two children each, repeated ones included; documents of up to 3 entries in any order, with repetitions, missing urls, fields and references | diamonds, chains, unreached nodes; an entry used before it is given |
| mesh | 2 nodes, 2 aliases (also of one node), 2 keys, time up to 2, 1 mishap | an older record after a newer one; aliases moved; torn keys |
| sources | 2 names, 2 repositories sharing a temporary zip, 2 commits, 2 mishaps | a failure after a failure leaves the zip of the other repository behind |
| pipeline | 1 alias, 3 stages, all registries, 2 mishaps | a stage before and a stage after the one in question |
| queries | every glob of up to 4 characters of `a b * ?` on every name of up to 3 of `a b`; trees of up to 3 entries, 2 roots, every type filter, depths up to 2 | two stars with a character between and after them; an entry below the limit between two above it (`AnswersRight` is proved for all) |
| assets | all releases of 2 assets over 3 name endings, some of 3, one of every ending | ties need two assets, their order three |
| archives | zip and tar of up to 3 entries over 5 files, directories, a link, an escaping and an empty name, damaged entries; a long name and a PAX record in any order before one file, with another file behind (`MCPacked`); writes that fail or are lost | a name that reaches the entry behind needs two files; a file in the way of a directory two; one top directory of all but one entry three (`UnpackedAsPacked` is proved for all) |

`MaxMishaps`, `MaxGen`, `MaxClock`, `MaxHead` and `MaxStages` bound counters and are
constants of the modules. `mesh_serial` uses symmetry of keys and `store_race_partial` none;
no run with a liveness property uses symmetry.

## Fairness

A process that runs keeps running: weak fairness of its own steps, and nothing else. Nobody is
obliged to start a command, to crash or to fail. This is what the operating system gives a
runnable process, and needs no assumption about scheduling between processes. Recovery
properties say "after the last mishap" (`mishaps = MaxMishaps`), so they never assume that
mishaps stop, they only say what happens once they have. In `Evaluation`, a loop is not a
step: weak fairness of the VM and of the clock gets past it only through the interrupt. In
`Pipeline`, commands end; a user is not obliged to type, so a line may wait for one. In `Query`
the walk and the loop of `glob_match` go on, which the thread that runs them does.
`CallsReturn` excludes the runs in which other processes keep starting calls for ever.

## Proofs

The theorems hold for all values of the constants: any number of processes, paths, blueprints,
generations and mishaps. Every safety property of a run that passes is one of them. Each proof
has an inductive invariant; those that TLC can evaluate were checked with it first.

*Store* (`StoreProofs`). `TypeCorrect` for `Spec`. For `SerialSpec`, `SerialInvariant` proves
an invariant that says of each process what its program counter implies about the directory it
works on: nobody else works on the same path, what is in the staging directory is the part of
its content that `todo` does not list, an unmarked directory is gone once it passed `ClearDir`,
the marker is written only over a full staging directory. Full means all files of the content
and no others, each whole or cut short by an error the code could not see any more (`Holds`):
the theorems say what the code's own checks achieve, and not that the disk kept what was
written. `MarkedIsComplete` alone is not inductive: before `Publish` the staging directory must
be known to be complete. From it follow `MarkedCompleteHolds`, `PublishedImmutableHolds`,
`SuccessCompleteHolds` and `StoreRefinesContentStore` (a marked path is a filled register; each
step fills one register or stutters).

*Profile* (`KuliProofs`). `TypeCorrect` for `Spec`. For `SerialSpec`, `SerialInvariant`: one
process is active, the id it is about to write is greater than any on disk, the parent it has
read is `current`, what it is about to activate is a loadable manifest. Then
`CurrentAlwaysLoadable`, `ParentsAlwaysOlder`, `AppendOnlyHolds` and `ProfileRefinesLog`.
`ShimsAlwaysResolve` is for `Spec`, with any number of concurrent processes: its invariant
`RInv` says that a loadable manifest, and what a process has loaded, only has shims of
derivations that are realized or `Unreached`: the graph holds every derivation that was built,
commit projects them all (generation.cpp:213), and only what the root reaches is realized.
Nothing is assumed of the blueprints. `CurrentAlwaysShown`, one process at a time and no mishap
so far, follows the loops of activation (`VInv`): what is still on a process's lists is as the
current generation has it, what is not is as the one it activates (`Moving`), and a user's file
is under the target or in its backup (`Under`). `ActivationAlwaysProjects` allows mishaps, as
long as no write error is seen only at the flush (`"flush" \notin Faults`): while nothing has
failed, what has left the lists of a writing process is in place (`Wrote`).

*Kuli* (`KuliProofs`), one command at a time, of the profile or of the scripture registry.
`KInv` is the invariant of the profile together with the types of the registry's tasks, and
says what a task is about to save: the registry as it is on disk, but for its own entry
(`Holds`). `RegistryOnlyLosesItsEntry` follows from it with any crash or failed write, and
`KuliRefinesLog`, that scripture commands leave the generation log of `Profile` alone.
`BasenamesAlwaysResolve` is about states at rest with no mishap so far, and needs what is true in
between (`BInv`): while the profile switches, a shim that re-enters kuli is of an installed
scripture, or still on the list of those to remove, or of the generation that `current.json` is
about to name (`Switching`); while a scripture is installed or removed, it may be one of that
scripture's basenames (`Entering`). The generation in hand must be the one on disk when
`current` moves to it, which is where `SInv` of `Profile` is needed again.

*Evaluation* (`EvaluationProofs`). `TypeCorrect`; `MarksAreCalls` (the marks are the keys on
the stack above the main blueprint, each once: `Unwind` and `ReturnSibling` both pop the mark
with the frame); `GraphAlwaysSound` (a node is added only after its children, so a set without
a sink cannot arise); `SiblingsOnce`. `VerdictAlwaysExplains`: under `Unguarded` nothing is ever
caught, so an error ends the evaluation and `pending` is the one it ended with (`Kept`).

*ApplyPlan* (`ApplyPlanProofs`). `ChildrenAlwaysFirst`: depth-first search marks a node as
seen before its children are placed, so the invariant relates the recursion to the output:
what is seen is placed or on the call stack, consecutive calls are parent and child, and
acyclicity of the graph (`WellFormed`) keeps a call from skipping a child that is still on the
stack. `PlanAlwaysReach`: what is placed is closed under children, and everything seen is in
every closed set with the root. `StoreAlwaysAfterUrls`.

`EvidenceAlwaysTrue` needs of each stage what it has done: everything before `at` is recorded
or dropped, and is realized if it leaves files.

*Mesh* (`MeshProofs`), for `SerialSpec`, with any number of nodes, aliases, crashes and lost
links. The invariant says of the one active process what it holds in memory: the registry on
disk with one entry changed (`SaveOK`), a record of its node that is unsigned, or signed with
the key on disk unless that is torn (`RecordOK`), newer than the cached one once it is about to
replace it, and that it has run nothing yet (`RunOK`). `SignedByIdentity` alone is not
inductive: that a first key does not disown a cached record follows from no record of a node
without a key being in any cache. From it follow `SignedByOne`, `RunsAtMostOnce`,
`CacheAlwaysMonotonic` and `HostsAlwaysAdditive`.

*Pipeline* (`EngineProofs`), for lines of any length. `StagesFed`, `VerdictTrue` and
`NothingEverHidden` share an invariant that relates what ran to the stage the line is at: every
entry of `ran` is of an earlier stage, once, and the data in hand are those of the stage before.

*Query* (`EngineProofs`). `AnswersAlwaysRight` is for every tree, glob and name. What a glob means
is that its characters can be laid out over the name (`Splits`); the loop invariant of
`glob_match` says that what is before `p` is laid out over what is before `t`, and that of all
layouts the one in hand ends earliest, which is why going back to the last `*` alone is enough.
For the walk: what is found is what was sought among the entries passed.

*Sources* (`SourcesProofs`), for `QuietSpec`, with any number of sources, repositories,
temporary zips, crashes and failures. The invariant follows the one active process (`StageOK`):
from the end of the download until the next one the zip is the last commit of its repository,
cut short only after a mishap, so is the tree once extracted, which is whole, and so is the
commit it has asked for. Of every other source it says (`Settled`) that, short of mishaps, its
tree is that of its entry. `OwnAlways`, `CommitAlwaysNamesTree` and `KeptAlways` follow; the
latter needs that only a process that has its zip in hand, or has dropped the entry, touches a
tree. It says `reported complete`, as `fetch_to_file` does; that the zip is whole is false (see
below).

*Assets* (`ArchiveProofs`), for releases of any number of assets. The loop of `select_asset`
keeps a candidate with the highest score so far (`PickInv`), which is an argument about scores
only: an asset with both words of this host has at least 10 points, one with a word of another
host fewer. `AssetsOfThisHost` excludes Intel Macs, where the statement is false (see below).
`ArchivesReadAsWhatTheyAre` is by the endings: `url_ext` keeps the last one, and where that is
enough for `extract` it is also the answer for the whole name.

*Archive* (`ArchiveProofs`), for archives of any number of headers. `UnpacksAsPacked` has two
invariants. `ListInv` says of the parser that `entries` holds exactly the entries among the
headers read, in their order, each under its own name, and that `long` and `pax` are what the
headers since the last entry gave (`LastName`); both reset with each entry, which is what makes
the names its own. `PlaceInv` says of the placing that the files on disk are those of the entries
placed, the last one of a name winning: making directories changes no file (`DirsStore`), and
writing a file changes that one (`FileStores`). At the end `find_common_top`, which looks at the
entries, is the shared directory of the property, which looks at the headers (`TopTaken`), and
a name that does not end in a slash has nothing to trim. That a bounded set has a greatest
element comes from the well-foundedness of `<` in the library. The theorem is about archives
that are read to their end (`WholeStreams`); without that it is false (see below). The proof
showed that the property had been wrong about an empty GNU long name after another one:
`extract_tar` takes the last one, empty or not (archive.cpp:255), and so does `OwnName` now.

Assumptions are those named in the modules (`StoreAssumption`, `ProfileAssumption`,
`EvaluationAssumption`, `ApplyPlanAssumption`, `MeshAssumption`, `PipelineAssumption`,
`QueryAssumption`, `SourcesAssumption`, `KuliAssumption`, `AssetsAssumption`,
`ArchiveAssumption`), which TLC evaluates on every run.

Only model-checked: all liveness (`RetrySucceeds`, `CallsReturn`, `ApplySucceeds`,
`RollbackMovesBack`, `RegistryTakesHold`, `EvaluationEnds`, `UpdateTakesHold`, `EndsOrWaits`),
which is out of this prover's reach. There are no recursive operators: recursion is the `calls`
and `stack` of the modules.

## What the code does not keep

Two of these are runs. The others were found with the same modules; the last column says how
to see one again, starting from the run named. Their statements stand at the end of the
modules, or are the run's own property under a wider specification.

| Statement | Where it is said | What the code does | How to see it |
|---|---|---|---|
| `MarkedIsComplete` (`Store`) | store.hpp:8 | two processes share the staging directory | run `store_race_partial` |
| `PublishedIsImmutable` (`Store`) | store.cpp:145 | a racer clears a directory published after its check | `store_race_partial` with this property |
| `MarkedIsWhole` (`Store`) | store.hpp:8 | streams are tested before they are flushed (archive.cpp:46, store.cpp:225): a file cut short at its close is marked and published, and the call reports success | `store_serial` with this invariant |
| `AppendOnly` (`Profile`) | generation.cpp:203 | two commits take one id | run `profile_race` |
| `ReapplyRepairs` (`Profile`) | generation.cpp:283, gen_cmd.cpp:188 | a failed switch leaves wrong shims; re-apply compares only hashes and is a no-op | `profile_serial`, Faults `{"disk"}` |
| `CreatedFilesRemoved` (`Profile`) | generation.cpp:58 | a redeployed file is backed up as if it were the user's, and comes back | `profile_serial`, no mishap, `UserFile <- MCNoFile` |
| `ProfileShowsCurrent` (`Profile`), its part about the user's files, with mishaps | generation.cpp:41 | a crash between restore and the move of `current`: the retried switch deletes the user's file | `profile_serial`, Faults `{"crash"}`, checking `\A t \in Targets : UserFile[t] # None => UserFile[t] \in {file[t], bak[t]}` |
| `ActivationProjects` (`Profile`) with late write errors | generation.cpp:282 | streams are tested before they are flushed | `profile_serial`, Faults `{"flush"}` |
| `ReplaceRefuses` (`Profile`) | design.md:504 | a user's file is overwritten | `profile_serial`, no mishap |
| `LockIsRealized` (`Profile`) | apply.cpp:73 | the lock lists, and a shim runs, what the root does not reach and nobody realized | `profile_serial`, no mishap |
| `RegistryAdditive` (`Kuli`) with overlapping commands | scripture.cpp:82 | the later save drops the other's entry | `ScriptureAct` without `AllQuiet`, two processes |
| `InstalledReachable` (`Kuli`) | scripture.cpp:82 | activation removes a shim that the registry provides | `kuli_serial`, no mishap |
| `BudgetBounds` (`Evaluation`) | luau_frontend.cpp:448 | the interrupt switches itself off; caught time-outs leave no limit | `Programs <- MCLoops` |
| `VerdictExplains` (`Evaluation`) under `pcall` | luau_frontend.cpp:55 | `pending` is never reset | without `Unguarded` |
| `CacheMonotonic` (`Mesh`) with overlapping syncs | capability.cpp:214 | compare and replace are separate | `Spec`, two processes, `MaxClock` 3 |
| `SignedByIdentity` (`Mesh`) with overlapping first uses | capability.cpp:48 | both generate a key | `Spec`, two processes |
| `RunsWhereItFits` (`Mesh`) | capability.hpp:42 | an alias moved to another machine keeps its old record | three nodes, `MaxClock` 3, no mishap |
| `FallsBack` (`Mesh`) | design.md:321 | `--fallback` is only for "no peer fits" | Faults `{"link"}` |
| `OwnRepository` (`Sources`) with overlapping syncs | source.cpp:182 | one temporary zip for all repositories of a name | `Spec`, two processes |
| `KeptUntilArrived` (`Sources`) | source.cpp:191 (the order: download, then remove) | flush and close of the zip are not looked at (download.cpp:103) and no hash is given: a zip cut short costs the old copy and cannot be extracted | `sources_serial` with this property |
| `CommitNamesTree` (`Sources`) with pushes during a command | source.hpp:26 | the commit is asked for after the zip | `Spec`, one process, no mishap |
| `StageFed` (`Pipeline`), input never typed | engine.cpp:98 | a stage after one that wrote nothing inherits kuli's stdin | without the disjunct for `Typed` |
| `RightHost` (`Assets`) on macos-x64 | resolver.hpp:25 | `amd64` is not scored on an Intel Mac | `Targets = {"macos-x64"}` |
| `HostsAdditive` (`Mesh`) with overlapping commands | hosts.cpp:53 | the later save drops the other's entry | `Spec`, two processes |
| `UnpackedAsPacked` (`Archive`) with more than one stream | archive.hpp:4 | only the first gzip member or zstd frame is read (archive.cpp:159, 181), and a zstd stream may end anywhere; what is missing is not noticed | `Archives <- MCFrames` |
| `AnswersRight` (`Query`) for names with a `*` | engine.cpp:249 | equal characters are compared before wildcards (engine.cpp:253), so `*` does not match the name `*a` | without `PlainNames` |
| `KnownFormatsUnpack` (`Assets`) | design.md:495 | `x.tar.gz` is saved as `<hash>.gz`, which `extract` refuses | `Releases <- MCArchives` |

Three more are seen by reading rather than by a run. A text search prints the matching lines
before the first binary one, although "binary files (a NUL byte) skip" (engine.cpp:342, 389). A
walk whose next directory cannot be entered ends, and with it the root (engine.cpp:304; `lost` in
`Query`). Documents of kind `EnvSet` and `FileOp` pass the validator (validate.cpp:238) and,
having no case of their own in `execute`, reach the realize loop, which indexes a `derivations`
that is not there through a const reference (engine.cpp:662).

## Not modelled

- Network queries and host facts (`sense.cpp`): what the system says is copied to the output.
- Regular expressions and the matching of a line; the order and wording of output.
- The field-by-field checks of the validator for the kinds of document that are lines, and the
  types of fields the validator does not look at.
- Canonical JSON, derivation hashing, crypto: pure functions. Hashes and keys are values that
  cannot collide or be forged, except that `Store` lets two contents claim one path, since a path
  only has a prefix of the hash.
- Path filters of `extract` and `create_zip` (no caller in the program), byte offsets and sizes
  in tar headers, mirrors and redirects in HTTP.
- `evaluate_adapter` and running a scripture: the same VM, without a graph.
- The Windows PATH value in the registry: one read-change-write shared with every program.
- Diagnostics, the command line but for which handler a command reaches.
- Windows' file locking: renames and removals follow POSIX.

## Plan

Done, in this order: the store and its specification; generations and their log; the
registry and its composition with the profile; evaluation; planning; sources; mesh;
pipelines; assets; extraction of archives; validation and the evidence session; queries; the
proofs about mesh, pipelines, queries and sources, and of what activation leaves in place; the
proofs about the registry beside the profile, the choice of assets and the extraction of archives.

Next:

1. Type correctness and the refinement of `GenerationLog` with overlapping commands, as far as
   it goes: what of the history survives two processes.
2. `Kuli` composed with `Store` through `ContentStore`, and with `Evaluation` and `ApplyPlan`
   as the source of blueprints, so that what is `Unreached` is what planning leaves out.
3. The ordered projection of two derivations that provide one alias; constraint matching of
   `capability_matches`; `evaluate_adapter`.
