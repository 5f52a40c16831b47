# ScopeSifter in TLA+

ScopeSifter is a command and a Go library that answers questions about source code (where is
a symbol, what surrounds a line, what changed) in small pieces of text. These modules model
the parts of it that keep state between steps, share something with other processes, or count
against a limit. TLC checks them on small instances, and TLAPS proves the central properties
for all values of the constants.

Paths below are relative to the repository. `navigate.go`, `navigator.go` and their
neighbours are in `navigator/`.

## 1. Inventory

### Components

| Component | Code | State | Operations | Modules |
|---|---|---|---|---|
| Result budget | `cmd/scopesifter/main.go`, `navigate.go` (findMany, limitFindResponses, appendResults) | results left, per response `truncated` | sharing `--limit` over selectors | `ResultBudget` |
| Find engine | `navigate.go` (Find, FindMany, Inspect, Outline) | candidates per query | walk, read, scan, path pass, limit | `FindScan`; of Inspect and Outline the budget and the reads |
| Changed query | `navigate.go` (Changed, changedPaths, changedLines) | the commits resolved, the list of files, results | asks Git, reads files, reports | `ChangedQuery` |
| Line ranges, diff contract | `navigate.go` (hunk reader, contextRanges, uniqueInts), `internal/gitdiffcontract` | numbers and ranges collected | reading hunks, unique, context, merging | `LineRanges`, `ChangedRanges` |
| Patch of a response | `navigate.go` (changedPatch, boundedPatchCommandOutput) | two collectors | consume, append, commit, kill Git | `PatchCollector` |
| Filesystem view | `navigator.go` | identity of the root | verified open, scan, walk, snapshot | `FileTree`, `SourceRead`, `RepositoryWalk` |
| Git execution | `navigate.go`, `git_identity.go`, `git_revision.go` | identity of the executable | run, bound, verify | environment of the above |
| Release publisher | `internal/releaseartifacts/release_publish.go` | a draft on the server | the draft transaction | `ReleasePublish` |
| Release build | `internal/releaseartifacts/release.go` | `dist` | check the refs, build, stage, rename | `StagedDirectory`, `ReleaseBuild`, `Staging` |
| Grammar generation | `internal/grammargen` | files of the repository | generate, install | `ArtifactInstall`, `AtomicInstall` |
| Managed clones, oracle | `cmd/scopesifter-validate` | directory of clones | clone, rename, validate; compare | `StagedDirectory`, `ManagedClone`, `Staging`; the oracle is not modelled |
| Tree-sitter adapter | `tree_sitter_adapter.go` | none | copy a tree under budgets and a timeout | planned |
| Language backends, brace scopes, cleaning | the rest of `navigator/` | none | text in, ranges out | not modelled |
| Process policy, project check, workflow runner, entry points, grammar tables | `internal/*` | none | predicates, dispatch | not modelled |

### How they interact

* The command parses its options and calls the library once per selector (`inspect`,
  `outline`) or once for all (`find`). Both sides share a limit over selectors, each with code
  of its own.
* Every library operation verifies the repository's root, then **walks** the tree and
  **reads** sources through the filesystem view. Nothing is locked: other processes may write,
  rename and link at any time.
* `changed` asks Git several questions, one process each, and reads the files itself between
  them. The repository may move on between any two.
* The patch of a `changed` response streams the output of up to two diffs and one comparison
  per untracked file through collectors that may have Git killed.
* The publisher speaks HTTP to GitHub, which other runs and people use at the same time. A
  request that failed for the client may still be carried out.
* The generator replaces three or four files of the repository, which must go together.
* `find` walks and reads with the view, may ask Git what has changed, and may be cancelled by
  its caller at any point.
* The release build and the validation command each make a directory (`dist`, a clone) that
  other runs of them want to make as well.

### What is hard about it

Interleaving with processes that take no notice (view, changed, publisher), requests with an
unknown outcome (publisher), failure and death half way (installer), and limits that are met
exactly or passed by one (budget, patch, walk, find), a cancellation between any two steps
(find), and several runs that want to make the same thing (build, clone). `PROJECT.json` lists each hazard at its line
with the properties that watch it.

### What makes each part correct

* *Budget*: no more results than the limit; every selector gets its even share and an answer;
  truncation is told truly.
* *Changed*: results lie inside the text that was read; the changed lines are exact; every
  changed file is answered; a limit only cuts the answer off.
* *Patch*: a bounded, exact prefix of what Git wrote; truncation is told truly.
* *View*: a read is a snapshot of the file at the path; a walk misses nothing that stayed
  where it was and finds nothing twice.
* *Find*: an answer is true of files that were there and complete for those left alone; all queries
  are answered from one reading of a source; a quiet repository has one answer.
* *Publisher*: nothing incomplete becomes public; a run touches only its own draft; success
  means published as sealed; a draft left behind is reported by the run that knows of it; a rerun does not create another;
  a run ends.
* *Installer*: all files or none; no original is lost.
* *Build and clone*: a target that is there is one run's work as a whole; runs agree on who made
  it; what a run reports of the target and the refs is so.

## 2. Plan

Modules in the order of their importance; the ones marked with * are done.

1. `ResultBudget`*, and its proofs*.
2. `ReleasePublish`*, and its proofs*.
3. `PatchCollector`*, and its proofs*.
4. `ArtifactInstall`* refining `AtomicInstall`*, proved*.
5. `LineRanges`* used by `ChangedRanges`* (proved*: exact ranges, and that the reader and the
   strict parser agree) and by `ChangedQuery`* (proved*: all its properties).
6. `FileTree`* under `SourceRead`* (proved*; the copy into a snapshot and its budget
   included) and `RepositoryWalk`* (proved*).
7. `FindScan`*: the find engine over the walk and the reads, with cancellation and the
   sharing of the limit (proved*: its types and the bound on candidates, that its answers are
   faithful, and that of a quiet repository they are the reference).
8. `StagedDirectory`*, shared by `ReleaseBuild`* and `ManagedClone`*, composed in `Staging`*
   and proved*.
9. `SyntaxCopy`: the copy of a syntax tree under a node and an operation budget, as a pure
   algorithm against a reference copy.

Abstract specifications worth stating: installing (done), publishing (a release that is
absent, a draft or complete), a read (one content at one moment), a budget (a multiset of
grants). Every safety property of a passing run is now a theorem as well (section 6), so what is
worth doing next is more of the model: item 9, and the filters on globs and kinds in `FindScan`.

## 3. Modules and the code

`PROJECT.json` maps every definition to its lines. Actions carry the name of the function
they stand for where there is one. Wording, logging and layout are left out; an error is
an outcome and not a text.

### `ResultBudget`

The loop of `inspect` and `outline` in the command (`CommandShare`: add, then divide, with the
width of Go's `int`), the loop of `FindMany` (`LibraryShare`: divide, then round up) and the
single shared call. `remaining` is what is left of the limit, as in the code, and `left` how many
selectors are still to come. `responses` is what will be printed. A selector fails, or has any
number of results up to `MaxResults`. `Candidates` keeps the
one extra result with which the code notices a truncation. `MaxInt` stands for the largest
`int`, and `Wrap` for its overflow.

### `ReleasePublish`

One action per request of `publish`: policy, listing page by page, tag, creation,
reconciliation of a lost creation, uploads, draft, the two pages of the asset list, downloads, tag,
publication, and the same checks again. An answered creation has three outcomes (`CreateDraft`), as
in `createDraft`: the draft is valid and the run goes on; it is named but otherwise not as requested,
and the run fails and reports it; or its id, tag or draft flag is wrong, and the run
fails as if there were none. `unnamed` remembers, for the properties only, that the run knew of no
draft: by such an answer, or because an answer was lost and the listing did not show it. `RequestFails` is every way a response can be unusable; the
request then stays in `inflight`, from where `Deliver` may carry it out at any later time
or never. `Crash` ends a run anywhere. The administrator changes a draft's assets, publishes,
deletes, moves the tag or switches the policy off, `MaxAdmin` times. The server's side (`ServerCreates`, `ServerUploads`,
`ServerPublishes`) is external, as the code expects it: one asset per name, one published
release per tag, nothing changes in an immutable release.

### `PatchCollector`

Git writes byte by byte, a newline or another one. `Consume` is the collector's `consume`,
`inner` the one of the running command, `outer` the one that spans the commands; `AppendByte`
and `AppendEnd` are `appendFragment` and the final commit of newlines held back. `ReadingBounded`
is about when Git is killed.

### `ArtifactInstall`, `AtomicInstall`

`ArtifactInstall` does one file system call per step: stage, move aside, move in, and on
failure remove, restore and unstage in the code's order. Each call may fail, and a run may die
before any of them and be run again. `broken` remembers that a step of the rollback itself
failed. `AtomicInstall` says what a caller sees: begin, and return with all files or none;
its refinement is the property `AllOrNothing`.

### `LineRanges`, `ChangedRanges`

`LineRanges` holds one round of each loop (the range of a hunk, of a line with context,
the merge, the removal of duplicates) and the merge of a whole list (`MergedUpTo`), which the
query uses as well. `ChangedRanges` runs them: headers are read one by one
with the limit on expanded lines, then numbers are made unique, then context is added and
merged. Git's hunks are about a file of `current` lines, while `total` lines were read before:
the two differ if the file was written in between. `ContractSpans` is what the strict parser
of `internal/gitdiffcontract` reads, the reference.

### `ChangedQuery`

The whole command over a repository with commits, an index and a working tree. A content is a
set of line numbers that keep their order, so that two contents have one difference, whose
hunks Git writes (`Hunks`). Each question to Git and each read of a file is a step: resolving
the base and HEAD, the listing, then per file the read, the diff and, without a base, the
question whether a file without hunks is untracked. `Edit` commits, checks out, stages or
writes a file, anywhere in between. With a base, commits that were resolved are compared,
so edits do not matter. `EnclosingScope` chooses the smallest scope around a line as the language
backends do; which scopes a backend finds in a source is the constant `Scopes`, any set of pairs of
lines, the same for sources of the same length. In the run a file of three lines has one scope
inside another, so that one scope holds several changed lines and several are returned, and a shorter
one has none.
`PatchCollector` is the patch of the same response.

### `FileTree`, `SourceRead`, `RepositoryWalk`

`FileTree` is the state of the file system and what others do to it in one step: write, cut
off, remove, link, rename (over a file as well), replace the root. An open file or directory
is its inode. `SourceRead` is one `readRelativeLines`: root, then a Lstat, an open and a comparison per
name, then reads of one piece, then the checks of the handle and of the path. `RepositoryWalk`
is `repositoryFiles`: each directory is opened anew from the root, compared with what its parent's
reading saw, read, and its entries looked at one by one against four limits; the files found
are sorted. `Before` is the order of paths as strings, a strict total order on the paths within
the depth limit, and `Sorted` is any arrangement of the files by it (they differ, so there is
one). `QuietWalk` measures a repository that is left alone by itself: `Walked` is every path a
walk comes to, `Pieces` the pieces of its sources, and `Exceeded` says that there are more of
them, deeper or larger ones than a limit allows. A read ends in one of two ways, as the
code uses an opened source: its lines are returned, if it is not larger than a limit, or it
is copied into a snapshot of an untracked file, piece by piece, out of a budget (`op`, `limit`,
`remaining`).

### `FindScan`

`FindMany` from its first check of the context to the sharing of the limit. The walk looks at
one file per step, each in a directory of its own, and a read opens a source in one step and
checks it in another: that a walk and a read are what these steps say is what
`RepositoryWalk` and `SourceRead` show in detail. The loop over the sources is `OpenSource`,
`ReadSource` and one `ScanQuery` per query; a source that cannot be opened or read is passed
over, except when the root was replaced. The sources left (`todo`) are a set: `Sooner` is the
order of their names with the preferred file before all others, and `NextSource` the first by
it. `AddCandidate` keeps a candidate once and stops at one beyond the limit. Then
`ChoosePathQueries` decides which queries are looked up as paths, which takes a second walk, and `Finish` shares the limit. `Checked` is the check of
the context, at exactly the points where the code has one (`FindPathCandidates` has its own, before
each file that is listed); a read has its own, whose error is
an error of that read. `Change` and `Cancel` happen between any two steps. A line is the
set of occurrences a backend finds in it; `EnclosingScope` is the smallest of the scopes it finds in
the source (the constant `Scopes`) around a line. `Wanted` is the filter on changed files; filters on
globs and kinds are left out.
`ResultBudget` has the budget of a `FindMany` call over any results; here the results are those
that were found.

### `StagedDirectory`, `ReleaseBuild`, `ManagedClone`, `Staging`

`StagedDirectory` is what the two programs share: a stage of a fresh name, filled file by file,
Go's `os.Rename` as the two system calls it makes (it looks at the target, then renames), the
deferred removal of the stage, and failure or death at any step. `ReleaseBuild` adds the
check of HEAD and the tag, the look for `dist`, and the error when the rename was refused;
`ManagedClone` the clone that is there already, the second look after a refused rename, and the
validation of a directory: what kind of file it is, whether Git calls it a work tree, and its origin,
a step each. `calm` remembers, for the properties only, the runs during which nobody has
interfered since their first step (`Begin`). `Staging` runs several runs of either, beside
others who create, empty or remove the target (`OthersChange`) and move the refs
(`MoveRefs`). Names of stages are taken to be fresh for ever, as `os.MkdirTemp` makes collisions
unlikely and not impossible. What a build makes of a commit, and what Git clones of
an origin, is one value.

## 4. Runs

All runs are exhaustive. Where a system may stop (a response was returned, a run ended, a
bound was reached) deadlock is not an error and the configuration says so; that is the case
for all of them, since each models one call or a bounded number of them.

| Run | What it shows | Bounds | Distinct states |
|---|---|---|---|
| `result_budget` | the limit is kept, shared evenly and told truly, for all four ways of sharing | limits −1..8, up to 3 selectors, up to 4 results each, failures | 134,804 |
| `release_publish` | two runs and an administrator on the same tag | 3 releases, 2 of other tags, pages of 1, 2 pages, 1 administrator's step, 2 artifacts | 272,880 |
| `patch_collector` | bounded, exact, truthfully truncated | 3 lines, 5 bytes, up to two diffs and one untracked file | 117,823 |
| `patch_collector_lines` | finding 1 | 3 lines, 9 bytes | stops at the violation |
| `artifact_install` | all or nothing, originals kept | 3 files, 3 runs | 199,956 |
| `changed_ranges` | lines and ranges inside the source, ordered, apart, exact | files of 5 lines, 4 expanded numbers, context 0 to 2 | 52,290 |
| `changed_query` | the whole answer under one change of the repository | 2 files, up to 3 lines in one of them, limit 0 or 1, return line, context or scope | 4,238,118 |
| `source_read` | a read is a snapshot at the path, within its limit, never through a link | 4 inodes, 2 names, files of up to 2 pieces, 2 changes | 1,018,584 |
| `repository_walk` | nothing missed, nothing twice, limits kept | 4 inodes, 3 names, 4 entries, depth 1, 2 changes | 727,144 |
| `find_scan` | answers are true, complete for what was left alone, and in a quiet repository the reference | 2 sources and another file, sources of up to 2 lines, 1 or 2 queries, limits 0, 1 and 3, 1 change, 1 cancellation | 4,544,880 |
| `find_scan_cancelled` | finding 2 | the same without changes | stops at the violation |
| `staging` | the target is one run's work or nothing, runs agree, and what they report is so | 3 runs, 2 files, 2 values, 2 changes | 4,724,984 |

Why the bounds are enough to be of interest:

* Three selectors are the fewest where shares rounded up differ from the first to the last.
  Limits from a negative one past the number of selectors cover every branch of the sharing.
* Two publishers, a draft each and an entry on another page are what the races on the listing
  need; one step of the administrator between any two requests shows which checks notice it.
  The same properties held with 4 releases, 2 others and pages of 1 (585,444 states).
* Five bytes and three lines let both limits be met exactly and passed by one, with newlines
  held back in either collector.
* Three files have a first, an inner and a last one to fail at; three runs are one that dies,
  one that repairs and one that replaces.
* Five lines hold two hunks with a line between them, at both edges of the file.
* In the query, the file of up to three lines (a third one only after a first, since only the order
  of lines matters) meets every kind of hunk at every place; the second file is there
  for the order of the answer, the limit across files, and a list that changes while it is read.
* Two changes are what it takes to replace something and put it back. In `find_scan` one is
  enough for what it is about, a file that differs between the walk, the read and the answer,
  since putting a file back is `SourceRead`'s subject.
* Two sources of two lines hold a definition and a reference on one line and hits of both
  queries in one scope; limits 1 and 3 are below, at and above what is found, and odd, so that
  two queries get unequal shares. Only the combinations of options that meet in the
  code are enumerated (`MCRequests`).
* With a base the query also begins with a history of two commits, in a clean working tree: there is
  something to answer, and the one change may move HEAD while the query is at it.
* Three runs are one that dies, one that wins and one that comes second.

Symmetry is used in `staging` alone, whose runs are alike and whose properties are about
safety. Elsewhere line numbers and names are ordered, or publishers appear in a liveness property.

### Fairness

Only `RunEnds` needs it: `FairSpec` adds weak fairness of `Step(p)` for each publisher. The
code justifies it: the HTTP client has a timeout of five minutes per request
(`release_publish.go:101`), the loops over pages and artifacts are bounded, and a run that was
started is not paused. Nothing is assumed of `Deliver`, of the administrator, or of the start
of a run.

### Assumptions about the surroundings

* A write to a file moves its modification time on. The code compares times and sizes
  (`navigator.go:482`), so a file system that does not tell two writes within one tick apart
  would defeat it.
* Reading the entries of a directory is one step.
* A link may lead to any directory or file.
* `RerunCreatesNothing` is stated as long as no administrator acts: a release deleted while
  the listing is paged moves others to pages that were read already, and the code cannot see
  that. `release.yml` also runs one job per ref at a time; the code has no lock of its own, so
  the model does not rely on it.
* `ChangedLinesExact` and `AnswerIsPrefix` are stated for answers that are settled: with a base,
  or when nothing was edited while the command ran. For the others `ResultsInsideSource` is
  what remains.
* `FindFaithful` asks for completeness only about files nobody touched, that could be read, and
  in requests that are not cancelled; about others an answer must still be true of one content
  the file had, and of the same one for every query. `QuietFind` and `CancelledIsTold` are about
  repositories nobody changes.
* `RunsAgree` is stated for histories in which only the runs themselves change the target.
  `ReportHolds` is about the runs others leave in peace from their first step on, whatever was
  changed before: the code looks at the target and the refs once each, so what is
  changed after a look it cannot know.
* `DraftIsReported` is about drafts a run knows of: see the observations.

## 5. Findings and observations

### Findings

1. **A truncated patch may have more lines than `--max-patch-lines`** (`navigate.go:1968`, run
   `patch_collector_lines`). Newlines at the end of a cut fragment are committed against the
   byte limit only. It takes a repository with `diff.suppressBlankEmpty`.
2. **A `find` that is cancelled may succeed with results missing** (`navigate.go:379`, run
   `find_scan_cancelled`). Reading a source stops when the context is done, but the loop over
   the sources takes that error for an unreadable file. After the last source the context is not
   looked at again unless some query needs the pass over the paths, so the answer is
   returned without an error and without `ResultsTruncated`, whereas `WithContext`
   (`navigator.go:63`) and its test promise a cancelled request.

### Observations

Three more things the modules show, which the properties take as the code has them:

* The rounding in `cmd/scopesifter/main.go:145` adds before it divides. With a limit within a few
  of the largest `int` the sum wraps and a valid selector is refused. `SelectorsServed` is
  stated, and proved, for limits whose sum with the number of selectors is an `int`.
* A file that is taken out of the index and left in the working tree is untracked, but
  `git diff HEAD` calls it deleted: it is reported with its line 1 (`navigate.go:2351`), not as a
  whole as other untracked files are (`navigator/navigate_test.go:1862`). `ChangedQuery` has
  the case, and `ChangedLinesExact` follows the code.
* A creation that is answered with a wrong id, tag or draft flag leaves a draft behind that the run
  does not mention: `createDraft` then calls it not created (`release_publish.go:350`), and `publish`
  returns before the report is registered (`release_publish.go:139`). The error says that the
  answer does not match; the comment at `release_publish.go:146`, that a draft is retained for review,
  is of drafts the run knows of. `DraftIsReported` excepts such answers (`unnamed`).

## 6. Proofs

Each `*_proofs` module extends the module it is about. Inductive invariants:

* `Results_proofs`, about `ResultBudget`: what has been served plus what is left is the limit,
  and what is left is at least one for each selector that is still to come as long as the limit was
  at least their number. From it follow `BudgetTotal`, `BudgetServes` (no selector is without
  its even share, or refused) and `BudgetTruthful`. They hold for any limits whose sum
  with the number of selectors is an `int` (`NoOverflow`, an assumption of each theorem).
* `ReleasePublish_proofs`: `Inv` says for each run what its record says by itself (`RunOK`) and
  what it knows of the release it holds as long as that exists (`HoldOK`), for each release
  which run it is of (`ReleaseOK`), and for requests that may still be carried out that they
  belong to a run that is over or knows it lost the answer, and that a publication left when
  all artifacts had been seen (`RequestOK`): what arrives late cannot spoil what another run
  made. `RerunOK` follows a release that was there from the start through the listing: it is
  on the page that is read next or on a later one. All five safety properties follow, for any
  number of runs, releases, pages and artifacts.
* `PatchCollector_proofs`: a collector is below its limits until it is cut, and newlines held
  back are at most one more than the byte limit. `PatchMemory` follows: what is kept is
  bounded, and Git is stopped after a number of bytes that depends on the limit alone.
  `TextInv` relates what the collectors hold to what was written: the inner one, with the
  newlines it holds back, all of it while the command runs; the outer one, with what it has not
  seen yet, the patch so far, or a shorter beginning of it once it is cut. `PatchText` follows.
* `ArtifactInstall_proofs`: `PhaseInv` says for each phase of a run and each file, depending on
  whether its index is below, at or above the current one, where the old and the new version
  are. It holds for runs that could undo what they did; `InstallIsAtomic` shows that
  every step is a step of `AtomicInstall` or changes nothing a caller sees, broken runs
  included. `InstallKeepsOriginals` is the safety of the first contents. `CleanInv` says
  that a run that has not failed came through the cleanup, path by path: `InstallLeavesNothing`.
* `Results_proofs`, about `FindScan`: see below.
* `Changed_proofs`, about `ChangedRanges`: in each phase, the lines so far are inside the source and sorted as
  far as needed, and the ranges are those of the lines so far, apart by at least one
  line. `RangesCollected`, `RangesReported` and `RangesExact` (the ranges lie apart and cover
  exactly the lines and their context) follow for files of any length, any hunks and any context.
  `RangesAgree`: hunks that Git writes are in order (`HunkSpansInOrder`), so the lines
  collected are those of the hunks' ranges (`LinesOfHunks`), and merging single lines gives the
  ranges that the strict parser reads.
* `Changed_proofs`, about `ChangedQuery`: see below.
* `SourceRead_proofs`: `ReadInv` relates what is open to what Lstat saw, and the pieces read to
  the content as long as the modification time has not moved. `ReadSnapshot`: a read that
  succeeds returned one whole content of the file. `ReadByName`: nothing but the named file is
  ever taken for it. (A directory reached through a link is accepted only if it is the very
  directory that had the name when it was looked at.) `ReadLimit`: neither reading nor copying
  goes beyond its limit, and a budget loses exactly what was copied. `PathInv` adds where the
  descent stands while the directories on the path have stayed the same, and what it holds open
  while the file has too: `ReadByPath`.
* `RepositoryWalk_proofs`: `WalkInv` is `TypeInv`, `BoundInv` (everything kept has been
  counted), `OrderInv` (directories are read breadth first, so what is found is not met again)
  and `CoverInv`: a file that stayed where it was is found, or a directory on its path is
  still to be read, or is being read and the entry on the way to it is left. `CoverInv` is
  what makes `WalkIsExact` inductive: others may do anything beside the path. In a repository
  that is left alone, `QuietInv` says that what is open is what its path names, and `CountInv`
  and `SizeInv` that no path is counted twice, so what has been counted is at most what there
  is; hence `WalkIsQuiet`. Sorting is shown to have a result by inserting one path at a time.
* `Staging_proofs`: a run renames its stage, so `StageInv` says that a stage holds what its run
  has written; a run that made the target is past the steps that choose its value
  (`MakerInv`). `StagingWhole` follows. For `StagingReports` the invariant `ReportInv` says
  of each run that others leave in peace what it has seen so far and is still so (`Knows`), and of
  one that has ended that its report is (`Told`); a step of another run only fills or takes a target
  that is absent or empty. For `StagingAgrees` the
  invariant `AgreeInv` says what each step of a run knows of the target: a run that
  lost the rename without a failure of its own lost it to another run, whose work stays because
  it is not empty (`MadeStays`, which is where the assumption that a directory has at least one
  file is needed).

### The changed query

`QueryInv` is `QueryTypes` (with it, that no more than one result beyond the limit is ever held),
`ResultsOfRead` (a result is about a listed file, and about lines of what was read of it) and
`QueryPhases` (of the files that are left nothing is said yet, and the one looked at has been
read). The last part is what makes the second one inductive: a file is read again only
if nothing has been said of it. `QueryTypeCorrect` and `ResultsStayInside` follow, whatever is
committed, staged, checked out or written between two steps.

For the other two, `AnswerInv` says what is known while the answer is settled (`Quiet`: with a
base, or nothing edited), phase by phase: the commits resolved are those of the repository, the
files listed are those that differ (`QuietList`), what was read is what is there (`QuietRead`),
and the results so far are the reference for the files that are done, in their order, cut off
one beyond the limit (`QuietResults`). An edit with a base changes neither the commits resolved
nor what Git says of them (`TreesStay`); without one it ends `Quiet`.
`AnswerComplete` (property `AnswerIsPrefix`) needs that appending results that may repeat, with
the limit applied at every append, is the same as cutting the distinct list (`AppendsDistinct`). `LinesExact` (property
`ChangedLinesExact`) needs that the numbers taken from the hunks of two contents are the added
lines and one next to each gap (`NumbersExact`), and that the numbers are returned
whole, one by one, in merged ranges or with context. Answers by scope are not in it: a scope holds
lines that did not change.

### Find

The invariant is `FindTypes /\ FindFacts`. `FindTypes` says that the candidates of each query are
distinct and at most one beyond the limit (`Kept`), from which `FindTypeCorrect` follows.
`FindFacts` has four parts, each needed for the next:

* `WalkFacts`: a file that nobody has touched and that the walk has passed is listed if it is
  there, what is listed was there, and an untouched file counts as changed exactly if it is.
* `SourceFacts`: the lines that were read are one content the file has had, and the one it has
  as long as its version is the one that was opened.
* `SymbolFacts`: for every source that is done there is one content, the same for all queries,
  from which all of them say the same: what a query has of that source is a beginning of what it
  finds there, and all of it unless the query is full (`SourcesDone`). That content is
  the present one if the file was left alone. While a source is scanned, the queries before `turn`
  speak of the lines in hand and those after it say nothing of it yet (`SourcesLeft`).
* `AnswerFacts`: the path candidates are the ranked hits of the files that were found, cut, and
  each answer is its query's candidates up to its share of the limit (`Given`).

Other processes only add to the contents a file has had (`Onward`), so what may be said of a file
stays so (`SayableGrows`). `AnswersFaithful` (property `FindFaithful`) follows for any number of
files, changes and queries.

For `QuietAnswers` (property `QuietFind`), `QuietFacts` adds what holds while nobody changes
anything, every file can be read and nobody cancels: there is no error, the sources done all come
before those left, and what each query has is what it finds in the sources done, taken in order
and cut one beyond the limit (`QuietSymbols`); the second walk finds exactly the files that are there
(`QuietPaths`). A scan keeps it because cutting off after each source is cutting off once at the end
(`CutMore`), and because adding a hit at a time, each once, to a list that has none of them adds
the distinct ones as far as they fit (`AddIsCut`). The sharing of the limit is shown over the
rounds of its loop (`EveryRound`): as long as the limit is at least the number of queries, every
query that is still to come has its share left. TLC finds `QuietFacts` true of all states of the
run `find_scan`.

Assumptions: only the named ones on the constants, which TLC evaluates on its instances.

Induction over data: the library's induction theorems take an operator, which the provers
cannot instantiate, so what a recursive function computes is shown by a least counterexample
(`Least`: a set of numbers that is not empty has a least member), from which the step before
would have made another. That there is such a function at all is shown the same way, by
extending one that goes as far as the number before.

Folds and sorts are treated alike: what a fold over a sequence has after each round is such a
function (`FlatTo`, `AddTo`, `SharedTo`, `AppendByRounds`), a set of sequences that has the empty
one and with each its extensions has them all (`SeqInduction`), and the members of a finite set in an order are the
list in which each stands at its place (`Ranked`), which is the only one.

Model-checked and not proved: `RunEnds`. Out of the prover's reach are liveness under fairness,
ENABLED, and modules with RECURSIVE operators, which is why recursion here is by recursive
functions and folds. The two properties the code violates (section 5) are not theorems.

## 7. Not modelled

* Matching: which lines and paths match a query, occurrences, columns, snippets. Pure text;
  `FindScan` is given, for a line, what is found in it, and for a path its rank.
* The language backends, brace scopes and cleaning: pure functions of a text, and by far the
  most of the code. The rest of the system sees the ranges they return, for which `ChangedQuery`
  and `FindScan` take any (`Scopes`).
* `inspect` and `outline` beyond their budget: a read, or a walk and reads as in `find`, and
  then text.
* In `changed`: path filters, renames, and the check of the root's identity. The patch is made
  of several diffs and a listing of untracked files, each of a moment of its own
  (`navigate.go:2097`); the code makes no promise that spans them.
* In the view: making a view. A copy into a snapshot that fails is left half written; its
  directory is removed by the caller.
* In the publisher: the shape of URLs, headers and JSON, each of which is a request that fails
  (or, for the answer to the creation, one of the two failures of `CreateDraft`).
* In the build: what it compiles and validates, and that Publish reads `dist` again and seals it.
* Git itself: what it prints is modelled, how it is found, hashed, pinned and configured is not.
  That the executable is verified after a buffered command and not after a
  streaming one (`navigate.go:2493`) is listed as a hazard without a property.
* The tree-sitter adapter: see the plan.
* The generated grammar tables, more than two thirds of all lines, and the scanners ported with them:
  data and code of third parties, with no behaviour of this program's own.
* Process policy, project check, workflow runner, entry points: no state.
