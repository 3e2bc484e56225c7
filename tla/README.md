# TLA+ models of the proto and enum generator scripts

The repository's code generators are two Python scripts:

- `src/scripts/update_protobufs.py` (class `ProtoGenerator`). It fetches the
  consensus-node protos. It generates `RequestType.java`, `Status.java`,
  `FeeDataType.java` and `FreezeType.java` from four proto enums, then
  rewrites the proto files into the SDK.
- `src/scripts/generate_contract_function_param_methods.py` emits the
  `addIntN`/`addUintN` methods of `ContractFunctionParameters`.

## Inventory

| Part | Code | State | Operations |
|---|---|---|---|
| ProtoFetch | `ensure_protobufs`, `run_command`, `is_branch` (161-190, 119-141) | the git checkout | clone, fetch, checkout, pull; each can fail |
| Scanner | `parse_enum_from_file`, `parse_enum_code` (378-425) | `content`, cursor `i` | locate enum, dispatch on the nearest of `=`, `//`, `/*`, `\n`, `}` |
| CommentAccumulator | `parse_sl_comment`, `parse_ml_comment(_line)`, `generate_comment` (439-473, 267-277) | `comment_lines` | append a line, clear after a member |
| IdentifierNormalizer | `ensure_cap_snake_name`, `id_is_next`, `ENUM_OVERRIDE` (475-501, 23, 434) | none (pure) | name to CAPITAL_SNAKE_CASE |
| SectionAssembler | `add_to_<Target>`, `finalize_<Target>`, `replace_last_enum_comma` (279-336) | `<Target>_sections[1,3,5]` | append a declaration, valueOf case and toString case; turn the last `,` into `;` |
| Synthesizer | `setup_java_sections`, `load_premade`, `output_java_file`, `generate_<Target>` (64-112, 253-261, 338-376) | sections, output file | write the sections in order |
| ProtoSync | `clear_dir`, `do_generate_modified_protos`, `do_replacements*` (192-251) | proto output directory | delete, copy with rewrites |
| CLI | `main`, `run` (503-552) | working directory | construct, chdir, then the steps in a fixed order |
| ContractParamGenerator | the second script | four lists | one entry per width 16..256 |

How the parts interact: the four targets run one after another in
`run`. Each target reads one proto file. The Scanner drives the
CommentAccumulator and the IdentifierNormalizer. It hands each member to
the target's `add_to_` callback, then calls `finalize_`, and
`generate_<Target>` writes the file. Everything runs on a single thread.
The only outside effects are git subprocesses and the file system.

What makes the code hard to test is the scan loop over `str.find`
results:
- it handles a `-1` result (the marker is absent);
- it shares the mutable `comment_lines` buffer across calls;
- it skips the rest of a line after each member;
- it catches any exception around the whole loop.

`PROJECT.json` lists these hazards at their lines.

## Modules

- **CapSnake.** `ensure_cap_snake_name` as the recursive operator
  `CamelToSnake`, plus `IdIsNext` and `FinalName` (the override). Names are
  sequences over an abstract alphabet given as CONSTANTS. The alphabet
  distinguishes:
  - upper-case and lower-case letters;
  - the letters `I` and `D`;
  - `_`;
  - characters without case.

  The module also holds `SpecFinalName`, the declarative rule of spec
  section 4.2: split before every upper-case letter except the D of "ID".
- **MCCapSnake.** One state per name of up to `MaxNameLen` characters.
  - `UtilPrng` is spelled `AaBb`.
  - The override `AA_BB -> BB` stands for `UTIL_PRNG -> PRNG`.
- **EnumExtract.** The abstract specification of one enum scan. Its
  variables are the members the enum body holds (`source`), the members
  emitted so far (`emitted`) and `closed`. It emits them in order, then
  closes.
- **EnumScanner.** One target: `parse_enum_from_file` with its scan loop.
  - The file is a token sequence. Each marker is one token, so the code's
    `+2` is `+1`. Positions are 0-based offsets, as in Python.
  - Variables:
    - `text`, `i` and `comment_lines`;
    - `decl`, `valueOf` and `toString`: sections 1, 3 and 5;
    - `pc`: locate, scan, write, done.
  - Each branch of `parse_enum_code` and of `parse_enum_from_file` is one
    action. This includes the error paths:
    - the file is missing;
    - the enum is not found;
    - no marker remains;
    - a block comment is unterminated;
    - a name is empty, so `IndexError` is caught and finalize is skipped.
  - `Finalize` is `finalize_<Target>`. `WriteJavaFile` is
    `output_java_file`.
- **MCEnumScanner.** Renders every proto file of a small grammar. A body
  holds up to `MaxItems` members. Each member has:
  - a leading comment form: none, blank line, `//`, empty `//`, `/* */`,
    a javadoc with `*` lines and `&`, or `//` followed by `/* */`;
  - a trailing form: none, `//`, or a multi-line `/* */`.

  The body can also end with a dangling comment. The enum can end in one
  of these ways:
  - `}` on its own line, followed by another message;
  - `}` inline;
  - `}` inline at the end of the file;
  - the file is truncated;
  - a block comment is unterminated;
  - the enum is absent;
  - the file is missing.

  A member line may have no name before `=` (`NoName`). The constant
  `NamelessAfterMember` says whether such a line may follow a member, or
  only open the body.

  The ghost variable `layout` remembers the layout, so that `Expected`
  can compute, from the specification's rules, the members the file
  holds. `Kept` cuts them at the first nameless line: garbled input halts
  the scan of the body and what came before is kept (spec section 5 and
  the error list of section 7). `Extract` instantiates EnumExtract with this refinement mapping:
  - `source <- Expected(layout)`;
  - `emitted <-` the decl entries without separators;
  - `closed <- pc = "done"`.

- **ProtoSync.** The end of `run`: `clear_dir(PROTO_OUT_PATH)` and then
  `do_generate_modified_protos`.
  - The input tree maps `<<directory, file name>>` to a content. The output
    directory is flat: it maps a name to a content, or to `DirEntry` for a
    subdirectory such as `mirror/`.
  - A content is a record of what the rewrite acts on: the `java_package`,
    and the set of import paths, each `<<dir, name>>`.
  - `Rewrite` is `do_replacements`, which maps the package through
    `PROTO_REPLACEMENTS`, followed by `FlattenImports`. `FlattenImports` is
    `do_replacements_proto_imports`: it drops the directory of every import
    unless the file mentions google.
  - The actions are: `ClearDirMissing`; `ClearDir`, where any entry may fail
    to be removed and is warned about; `GenerateNoInput`; `GenerateStart`
    (the mkdir); `WalkDir` (os.walk, top-down); `SkipFile`; `ProcessFile`;
    and `ProcessFileFails`, an exception that is printed, after which the
    walk goes on.
  - `TypeOK` says, among the types, that out_path is flat: its entries are
    names, never `<<dir, name>>` paths.
- **MCProtoSync.** In the input, `services/` holds `state/`. The files are
  `x.proto`, `y.proto` and `README`. Their contents:
  - import a sibling, a google proto, or nothing;
  - use the packages `api`, `service` and `mirror`.

  `MCContentsMixed` adds a content that imports both a google proto and
  `state/y.proto`, as a services proto using `wrappers.proto` does.
  `ValidTree` keeps trees whose directory imports name another file of
  the tree.

  The output starts empty, or holds `mirror/` and a stale `old.proto`, or
  is missing. The input path may also be missing.
- **ProtoFetch.** `main` and `ensure_protobufs`, over successive runs of
  the script that share `hedera-protos-git`.
  - A commit is `<<ref, version>>`.
  - The remote's refs are fixed: two branches, and two tags that point at
    older commits.
  - The clone's state has three parts: `known` (its remote-tracking refs
    and tags), `local` (its branches) and `head`.
  - Each git command is one action, with a success branch and a failure
    branch:
    - clone, fetch and pull fail only while the remote is unreachable;
    - checkout fails on a ref the clone does not know, or in a broken clone.
  - `CloneCrashes` kills the process during `git clone`. The directory
    stays behind, broken.
  - `NotBranch` is `is_branch` returning false: `git branch --list` lists
    local branches only.
  - `Rerun` starts the script again with any argument, and with the remote
    reachable or not.
- **MCProtoFetch.** The clone starts in one of four states: absent, stale
  on `main`, stale with `dev` local, or current. The arguments are: none,
  a tag, a branch, an unknown ref, or too many.
- **ContractParams.** The whole second script.
  - `AddWithParamType` is one iteration of the `range(16, 257, 8)` loop.
    `ParamType` is its if/elif/else.
  - `Fragment` is the record a template is filled with: the kind, the
    width, the parameter type, the stream method, and whether the
    `@throws` line is present.
  - The writes of `output.txt` are `WriteBanner`, `WriteVersion` and
    `NextList`.
  - It has a single behaviour, so no MC module is needed.

- **Generator.** The four targets, from `ProtoGenerator()` in `main` to
  the end of `run`. It composes the other parts:
  - A scan is given by its result: the members in source order, and
    whether `finalize_<Target>` was reached. scanner_ok shows that the
    scan refines EnumExtract, which justifies this abstraction.
  - `ensure_protobufs` is one step that returns or exits. ProtoFetch
    details it.
  - `clear_dir` and the proto rewrite are the single step `SyncProtos`.
    ProtoSync details it.

  The section lists keep the code's 0-based indices and lengths: 7 for
  RequestType and FeeDataType, 5 for Status and FreezeType.

  The actions:
  - `SetupJavaSections` loads the premade fragments relative to `cwd`.
  - `GoToScriptDir`.
  - `EnsureProtobufs` / `EnsureExits`.
  - `ParseMissingFile` / `ParseScan`.
  - `AddToTarget`: sections 1, 3 and, for RequestType and FeeDataType, 5.
  - `FinalizeTarget` / `ParseEndsEarly` (enum not found or exception).
  - `OutputJavaFile` / `OutputJavaFileFails`: `mkdir` or `open` fails, or
    a write fails after `open(..., "w")` has truncated the file.
  - `SyncProtos`.

  The history variables `results` and `failedWrites` let
  `JavaFilesRegenerated` compare each file with `Layout`. `Layout` is the
  file that spec sections 3, 6 and 7 describe. Its last declaration is
  always terminated, because spec section 3 runs finalize once, after
  all members and before synthesis. It does not depend on whether the
  code reached `finalize_<Target>`.
- **MCGenerator.** Its inputs:
  - two-member enums, with two scan results: the enum not found, or two
    members and the loop finished. An exception after a member needs a
    line with no name before `=`, which is not protobuf. What it does to
    the declarations is described under "Not modelled";
  - `premade/Status-4.txt` missing;
  - `freeze_type.proto` present or missing.


## Runs

| Run | Checks | Result |
|---|---|---|
| capsnake_reference | `CapSnakeMatchesSpec`: the code equals the spec rule on all 111,110 names of up to 5 characters | pass |
| scanner_ok | `TypeOK`, `DeclTerminated`, `ImplementsEnumExtract` on upstream-style layouts (2 members, 7 leading forms, `//` trailers) and on truncated, unterminated, enum-less and missing files, with a nameless first line | pass, 186,726 states |
| scanner_trailing_block | `ImplementsEnumExtract` with `/* */` after a member, as in the spec's section 8 example | violation: the comment is lost |
| scanner_eof_member | `CursorNeverMovesBack` with the last member on the last line and no newline | violation: the cursor goes back to 0 |
| protosync_ok | `TypeOK`, `EveryProtoWrittenOrReported`, with unlink/rmtree, read and write failing in any combination | pass, 6,782 states |
| protosync_same_name | `EveryProtoWrittenOrReported` with `x.proto` in both directories | violation: the second overwrites the first, and nothing is printed |
| protosync_google_imports | `ImportsResolve` with a file importing both a google proto and `state/y.proto` | violation: the directory import is kept, while the file lands in the flat output |
| fetch_runs | `TypeOK`, `GeneratesRequestedRef` over 2 runs; the first may be killed during the clone | pass, 1,171 states |
| fetch_crash | `AbortsOnlyWhenUnreachable` with the clone killable | violation: after a killed clone, reachable runs exit |
| contract_params | `OutputMatchesSpec`, `ParamFitsWidth` | pass, 165 states |
| generator_ok | `TypeOK`, `JavaFilesRegenerated` started in the script's directory, with writes allowed to fail | pass, 118,848 states |
| generator_cwd | `JavaFilesRegenerated`, also started from another directory | violation: every Java file is written without its premade fragments |

The findings in `PROJECT.json` say what each violation means for the
generated Java.

Bounds:
- Two members are enough to show a comment attaching to the wrong
  neighbour and a separator in the middle of the list.
- The leading forms cover every comment branch.
- `MaxMembers = 4` is above `MaxItems`. It is reached only by the
  restarting scan of scanner_eof_member.
- scanner_ok renders a nameless line only as the first line of a body.
  After a member, such a line makes the code skip finalize. That case is
  described under "Not modelled".
- The runs are kept to one per question. Several scenarios are not
  among them:
  - a name clash in CapSnake (`i` and `I`);
  - `}` on the last member's line, which repeats the rest-of-line hazard of
    scanner_trailing_block;
  - a nameless line after a member;
  - fetch and pull failing while the remote is unreachable. Generation
    then goes on from a stale branch head, whereas spec sections 5 and 7
    call a fetch failure fatal;
  - `clear_dir` emptying the output when the input path is missing.

  `PROJECT.json` lists their hazards.
- Names of up to 5 characters cover the ID marker at every position and
  the override.
- ProtoSync: two directories and three file names are enough for a name
  clash, a sibling import, a non-proto file and a stale output entry.
  With `CanFail`, every subset of output entries may fail to be removed.
- ProtoFetch: two runs are enough for a crash in one run to affect the
  next. Two branches and two tags cover these cases:
  - a tag, checked out detached;
  - a local branch, which is pulled;
  - a branch only on the remote, which becomes local at checkout;
  - the default branch of a fresh clone.
- Generator: two members show the order and the last-versus-first
  separator. The two scan results cover `finalize_<Target>` reached and
  skipped. One missing premade file and one missing input
  file are enough to show that what is missing is left out, and nothing
  else.
- ContractParams has no bound: the model runs the whole width table.

## Fairness

No run checks a liveness property, and no module assumes fairness.
- The scan loop need not end. scanner_eof_member shows the cursor going
  back to 0 on a last line without a newline.
- `run_command` and `is_branch` call `subprocess.run` without a timeout
  (lines 123 and 132). A git command that hangs blocks the run, so
  neither the fetch nor a whole run can be claimed to end.
- The remaining loops (os.walk over a finite tree, the width table)
  end by their shape, and saying so checks nothing.

## Not modelled

- A single state space for all of `run`. Generator abstracts
  `ensure_protobufs` and the proto sync to one step each, and ProtoFetch
  and ProtoSync check those steps separately.
- Which targets get the reverse mapping. The code gives it to RequestType
  and FeeDataType (lines 304 and 315). Spec section 4.5 says "only the
  first two", request and status codes. `HasReverse` follows the code, so
  `JavaFilesRegenerated` asks whether each file is regenerated as the
  code's table says. The difference is a fixed table, not a behaviour; no
  run checks it.
- A nameless line after a member (line 487). `ensure_cap_snake_name`
  raises `IndexError`. The handler at line 399 skips `finalize_<Target>`,
  so the declaration list ends in `,`. Spec sections 3 and 5 run finalize
  and halt silently instead. With `NamelessAfterMember = TRUE`, TLC finds
  `DeclTerminated` violated. No run keeps that configuration: the input
  is not protobuf, and the run slots went to realistic inputs.
- `clear_dir` failures (line 220). A stale entry that cannot be removed
  is only warned about, and it stays beside the regenerated protos. No
  property is checked about it.
- Exceptions outside the `try` blocks of the sync: `clear_dir`'s
  `iterdir` (line 211) or the output `mkdir` (line 233) raising would end
  `run` early. Entries that are
  neither a file nor a directory are not modelled either.
- The comment substitutions of `generate_comment` (`&` to "and", `<tt>`
  removed). `Expected` applies the same `GenerateComment` as the code, so
  the refinement carries them along without checking them.
- A truncated Java file after a failed write. It is modelled, but the
  code promises nothing beyond the printed error.
- `get_latest_tag`: nothing calls it.
- A git command that hangs. Each command is one step that returns
  success or failure (`NetworkOk`).
- The textual search for the enum (lines 386 and 391). `EnumStart`
  matches the tokens `enum` and the name, so it finds a mention inside a
  comment, as `str.find` does. No run renders such a file, though. The
  four violation runs each show a different defect of the same scan or
  run, and they were kept. A name of which `HederaFunctionality` is only
  a prefix is not expressible either, because names are whole tokens.
- The text of the proto files and templates. The rewrite acts only on the
  package and the imports. A contract fragment is its parameters.
- Text layout: indentation, blank lines and the exact Java syntax. A
  declaration is a record of its parts and separator.
- Whitespace inside lines: `strip()` is the identity in the token model.
- The tie-break between markers at the same offset. It cannot happen,
  because the markers are distinct characters at distinct offsets.
