# A TLA+ model of `bl`

This directory holds TLA+ modules that model parts of the builderlab CLI (`bl`, `sq`), TLC
configurations that check them on small instances, and TLAPS proofs of the most important
results for every instance. Paths and line numbers are those of the repository
(`src/bl/...` of the crate, `crates/builderlab-auth/...`). `PROJECT.json` maps every definition
to the lines it stands for, and lists runs, hazards, findings and theorems.

To check: `tlc -config Client.cfg MCClient.tla` and so on for the runs below;
`tlapm InstallLockProofs.tla` and so on for the proofs.

## 1. The system

`bl` is a command-line program: each run reads files in the user's home, talks to servers, changes
files or remote state, and exits. It has no daemon and no database. What makes it hard to get right
is everything that outlives a run: two runs at once, a run killed half-way, a file operation that
fails, an answer that is lost. Below, for each component: its state, its operations, with what it
interacts, what is hard about it, and what makes it correct.

**Install locks** (`skills_install.rs` 28-96, `agents_install.rs` 719-776). State: one file per
skills home, and one per agent. Operations: `acquire` (create exclusively; if the file is there and
older than fifteen minutes, remove it and try once more), drop (remove). Used by install, update and
remove. Hard: leftovers of killed runs, two runs that judge the same file, commands that take longer
than the limit. Correct: one holder at a time; a leftover does not lock everybody out for good.

**Agent files** (`agents_install.rs`). State: the agent's Markdown document, the JSON record of what
`bl` installed, stage and backup files of a run. Operations: `classify` decides whether the document is
bl's; install, update, remove exchange or remove the pair by renames, and `restore_pair` undoes them.
Interacts with the lock, the marketplace and the user's editor. Hard: any of the renames may fail, so
may the undoing; a crash anywhere; the user edits. Correct: the pair changes as a whole; nothing of
the user's is lost; a record never vouches for other bytes.

**Skill packages and links** (`skills_install.rs`, `skills_targets.rs`). State: for each skill a
package directory with metadata, a link or copy in each target directory, staging and previous
directories, `.backups`. Operations: install (stage, exchange, link every target, roll back),
remove (from all targets or some, forced or not). Interacts with the lock, the target registry, the
agent tools that read (and sometimes replace) the links. Hard: a chain of up to 3n+4 file operations
with a rollback at every point; directories of the user's in the way. Correct: failure leaves what was
there; the skill is on disk until it is removed; targets lead to the installed version.

**Skills doctor** (`skills_doctor.rs`). No state of its own. `--fix` looks at each link, makes missing and broken ones
anew, and sweeps work directories, all without the lock. Hard: an install is at the same path. Correct: it repairs and
never loses anything.

**Skills commands** (`skills.rs`, `skills_models.rs`, `skills_slug.rs`). State: plans of several
operations, pins, preferences. Operations: install from a list, a bundle or a path, update, remove,
status, logout. Hard: `update` reads what is installed before it takes the lock; a plan stops in the
middle; pins and targets are merged. Correct: an update brings back nothing that was removed meanwhile.

**Credential storage** (`auth_storage.rs`, `keychain.rs`). State: credentials of all environments
in one file or keyring entry. Operations: load, store, delete, each a read-modify-write without a lock.
Hard: two commands at once; a crash in the write. Correct: one environment's login does not touch
another's.

**Browser login** (`auth_login.rs`) and **organisation switch** (`workspace.rs`). State: a loopback
server and a pending login; the server's idea of the session. Operations: start, callback, exchange,
store; rotate, store. Hard: the ten-minute limit against a late callback; the credential is rotated
before it is stored. Correct: a failure leaves the user with a credential that works, or with a
message that says how to get one.

**Hosted apps** (`apps.rs`). State: the platform's record of each app. Operations: plan, reserve,
inspect, set visibility, initialize, deploy, roll back, delete, access lists, community grants and
renewals. Hard: an answer that is lost after the request was served, a request that arrives after its
sender gave up, other users and other runs on the same ID. Correct: what an error says is true; a
private app is never visible; a retry goes on where the first try stopped.

**Raw requests** (`curl.rs`). State: the stored hosted-app session, and what has been read of a running
`curl`. Operations: check the arguments, log in, run `curl`, forward or withhold its output, judge the
answer, log in again and repeat. Hard: headers arrive in a file and output in a pipe, each at its own
pace, and what is to be shown depends on both; a request with effects must not be repeated. Correct: what
the last answer put out is shown once and in order; nothing with an effect is sent twice.

**Marketplace client and agents commands** (`skills_api.rs`, `skills_archive.rs`, `agents.rs`). No state
between commands. Operations: list page by page; detail, plan, version record, artifact of an agent. Hard:
others publish and withdraw between two requests. Correct: what was put together from several answers is
consistent; a listing ends.

**Configuration and preferences** (`config.rs`, `skills.rs`, `lib.rs`). State: `~/.bl/config.yaml`, rewritten
in place. Hard: a login holds a question open for as long as the user likes. Correct: what was reported set
stays set.

**sq tools** (`lib.rs`, `cli.rs`, `runtime.rs`, `kgoose.rs`, `catalog.rs`). No state. Operations: choose
backend and session, ask for extensions and their tools, make flags of a schema and JSON of flags, call.
Hard: schemas nest and refer; the list changes between two requests; an answer is lost after the tool
ran. Correct: one call, with what has the types the schema names, and with a session meant for that backend.

**Output, errors, start-up**: formatting and dispatch.

Components share state through files (lock, packages, links, credentials, preferences) and through the
servers; within a run everything is sequential, but for the login's server thread and `curl`'s reader
threads. So the actors of the models are runs of commands, the user and her tools, the clock, the
network, `curl` and the servers.

## 2. The modules

| module | models | extends or instantiates |
|---|---|---|
| `ExclusiveLock` | abstract: what a lock promises | |
| `InstallLock` | both lock types, by system call | `ExclusiveLock` (refined) |
| `AgentLifecycle` | abstract: an agent's pair changes as a whole | |
| `AgentInstall` | the agent files, by system call, under the lock | `InstallLock` (composed), `AgentLifecycle` (refined) |
| `SkillLifecycle` | abstract: a skill's package and its places in the targets change as a whole | |
| `SkillInstall` | one skill's package, links and work directories; doctor | `SkillLifecycle` (refined) |
| `SharedTarget` | the path of one target while an install links it and the doctor repairs it | |
| `SkillsCommands` | several skills: install, update and remove as plans of operations | |
| `Marketplace` | listing, and the requests of an agent's installation | |
| `HostedApp` | create, initialize, visibility, deploy, rollback, delete of one app ID, by request | |
| `AppSharing` | who can open an app and for how long: visibility, access, publishers, grants, renewals, `get` | |
| `AppsRequest` | whom a `bl apps` command sends its session, what it shows of an answer | |
| `SessionStore` | abstract: a map of sessions of which a command changes one entry | |
| `AuthSessions` | the credential file, login, logout, organisation switch and `bl curl` on it | `SessionStore` (refined) |
| `BrowserLogin` | one browser login: main thread, listening thread, callbacks, time limit | |
| `CurlRequest` | one `bl curl`: arguments, output, consent, second request | |
| `ToolCommand` | one `bl tools` or `sq` command: backend, session, schema, call | |
| `Preferences` | the preferences file and the commands that change it | |
| `MCClient` | `AppSharing`, `CurlRequest`, `SkillsCommands`, `AppsRequest`, `Preferences`, `BrowserLogin`, `Marketplace`, one scenario each | those |
| `MCWaiting` | `InstallLock`, `BrowserLogin`, `Marketplace`, `ToolCommand`, one scenario each, the first three with fairness | those |
| other `MC...` | one module for TLC | |
| `CommandProofs` | theorems of `CurlRequest` and `SkillsCommands` | those |
| `ClientProofs` | theorems of `AppSharing`, and of `MCClient` with the four modules it instantiates | `MCClient`, `CommandProofs` |
| `WaitingProofs` | theorems of `ToolCommand` and of the lock in `MCWaiting` | `MCWaiting`, `InstallLockProofs` |
| other `...Proofs` | theorems of `InstallLock`, `AgentInstall`, `SkillInstall`, `HostedApp`, `AuthSessions` | the module, or its `MC...` |

`MCClient` and `MCWaiting` are no compositions: the commands in them share no state in the program. A
variable `scenario` says which module moves; the others stay in one initial state. A run of them checks each
of the modules as if it were alone, and conversely each module moves in `MCClient` as it does alone
(`EachAlone` in `ClientProofs`). What does interact is composed: the lock with the agent files
(`AgentInstall`), the doctor with the commands (`SkillInstall`, `SharedTarget`), all commands that use the credential file
(`AuthSessions`). `SkillsCommands` takes what `SkillInstall` details for one step, `Marketplace`'s
`Download` what `AgentInstall` details, `CurlRequest`'s `Login` what `BrowserLogin` details.

### InstallLock

`owner` is the file at the lock's path, named by the run that created it; `age` its age, which stops
counting one unit after `StaleAfter` because nothing tells two older ages apart. `pc` and `attempt` are
where each run is in `acquire`. Each file-system call is an action: `CreateNew` succeeds only without a
file, `FindTaken` and `JudgeStale`/`Refuse` are the two halves of finding one (the age is read later
than the failed create), `Unlink` removes *whatever is there by then*, as does `Release`. Every
call may fail where the code allows for it; `Crash` leaves the file. The two lock types are the same
algorithm.

### AgentInstall

Contents are model values: a version of the marketplace, `UserDoc` (bytes that are no version), `Absent`. A record
names the version whose bytes it vouches for, or is `Foreign` (does not prove ownership). The labels of `at` are the
calls of `replace_pair_with_rename`, `remove_pair` and `restore_pair` in their order. A rename or removal may fail up
to `MaxFaults` times in a run (`faults`), also while undoing. Resolving, downloading and validating change nothing and
are one action, `Resolve`, which yields a version or ends the run. `result` tells apart the error that comes after the
fact: `leftover` is that of a backup which cannot be removed when the new pair is in place (`DropBackups`). Stage
files are left out: nothing ever reads what a run leaves of them. `SettledPair` is the refinement mapping to
`AgentLifecycle`: the pair, or, while a run that may still fail is at work, the pair it found.

### SkillInstall

One skill and the targets it is linked into. `pkg`, `links`, `saved` (what is under `.backups`), `orphans` (work
directories without an owner) are the disk; the other variables are the run, of which the lock admits one at a time.
Removing a directory tree and writing the metadata file are one step each; a copy to a target that fails or is cut off
may be there in part (`Partial`). `prior`, `linked` and the labels `unlink`, `relink`, `discard`, `restore` are the
rollback: `restore_target_path` is two steps, and one of them that fails ends the rollback of the links, unless the
link is the one that was being made (`GiveUp`). The doctor has its own variable because it takes no lock: `DoctorLook`
is the look at a link with the moving away of what is there, `DoctorLink` the symlink or copy, `DoctorRemove` and
`DoctorPutBack` the `restore_target_path` after a copy that failed. `Spec` leaves it out, `RepairSpec` runs it between
commands; in `DoctoredNext` it sweeps between any two steps, and repairs links, one step after the other, between
commands. A repair beside a command is `SharedTarget`'s. `SettledPackage` and `SettledLinks` are the refinement
mapping to `SkillLifecycle`: what is there, or, while an install is at work, what it found. An install thus takes
effect when it is over; a removal, which the code does not undo, place by place.

### SharedTarget

`path` is what is at the skill's path in one target, `stage` where an install and a doctor are in `link_into_target` and
`restore_target_path` on it, `moved` what each has moved away and may put back, `kept` whether the user's directory is in
`.backups` for good, `source` whether the package it is all copied from is whole. Every call is a step, with all its failures:
the doctor's look (`Inspect`), the look at an existing link, the moving away, the symlink, the copy *into whatever is there by
then* (`WithCopy`), the removal of whatever is there, the rename back. The rollback of the install may begin at any time
(`RollBack`), as another target may fail. `crossed` remembers that both were past clearing the path at once.

### SkillsCommands

`inst` is the metadata of each installed skill (version, pinned, targets), `holder` the install lock, taken for
exclusive here, `newest` the marketplace's versions. A run reads what is installed into `seen`, sends it (`Payload`,
which leaves out what is forced), gets a plan (`todo`), which is any the marketplace may make of it (`Plans`: also
with an operation that nobody asked for, `Unasked`), and carries it out operation by operation (`Execute`, `Skip`).
The order in which the code does these things is kept: `update` reads before it takes the lock, `install` after.
`Elsewhere` is another command in that window; `outdated` remembers it. `Stop` is every way in which a run ends early.
The marketplace is an assumption, stated in the module.

### Marketplace

`cursor` and `listed` are a listing; `detail`, `plan` and `local` are an agent's installation, whose four
requests are an action each. `Publish` and `Withdraw` happen in between. A cursor stands for a place in the
catalog, a published version does not change; plans and downloads may be anything, and `Pinned`, `Authentic`,
`Unpacks` and `OneDocument` are the checks they must pass. That a noop is for the version installed here is no such check: the
client believes it. Statuses are the exit codes of the code.

### HostedApp

`app` is the platform's record of the ID, `late` the requests whose sender has given up and which may still
be served. Each request is one action whose parameter `reply` is what the client hears: success, a
success that cannot be read, a refusal, an error that says nothing (5xx), an answer about something else,
or none. What the platform does with it is `Exchange`. The plan that `create` starts with changes nothing
and is folded into `Begin`, which chooses its outcome. A GET is read in the action that decides upon it.

The platform is not in the repository; it is an assumption: an ID is reserved for one owner and not
given again; the owner alone changes the app; a deleted app is not changed; a refusal means that nothing was
done. An error that is no refusal may come after the fact. A command may also end before any of its
requests that change something (`Decline`): no confirmation, no archive, an ID it cannot look up. `rollback`
is refused for an app without an earlier version.

### AppSharing

`policy` is who can open the app, `grantRev` and `renewRev` the revisions a compare-and-set is checked
against, `life` the incarnation (an ID's app may be deleted and another made; the revisions begin anew).
A run of `community grant|revoke` reads the revision (`ReadRevision`) and writes with it (`Write`); a renewal takes
revision and ID from the user, who gives the same again for a retry (`chosen`). Visibility, access and publishers
overwrite. `Dialog` is the owner in the browser, `Recreate` the first deployment or another app under the ID,
`late` the requests that nobody waits for any more. `Audience` is what `get` makes of an answer that may lack
fields. `blind`, `word`, `truth` and `effect` are histories for the properties. The platform is an assumption,
stated in the module.

### AppsRequest

`target` is the URL, `holds` what goes with the requests: nothing yet, the session, or the identity a workstation's
proxy adds. `Begin` is the choice of both from every combination of flags, variables and preferences (`Trusted`,
`OfOperator`, `ThroughProxy`); `Verify` the check of the session with the account's state; the other actions an answer
each, with its values classified by where the session occurs in them (as it was sent: `echo`, in JSON's escapes:
`spelled`, as a member's name: `key`, or nowhere), and `RedactJson`, `ShownOfError`, `Cleared` what is left of that on
the screen. `Cleared` looks at the body as it came, before the JSON is read, the others after it. `CommunityNames` is
the question for names that `get` and the changes of an audience go on to. Exit codes are kept.

### AuthSessions

`file` is the content of the credential file: for each key (an environment and its CLI or hosted-app use) a credential
or none, or `Torn`, what does not parse. `issued` and `live` are the servers' side: what each credential was issued
for, and which are still accepted. `at`, `job`, `kind`, `held`, `draft`, `sends`, `warned` and `result` are the runs;
the labels of `at` are the points where a command touches the file or the network. `get` of the storage is `Get`;
`set` and `delete` are three steps, as in the code: `Store` or `Drop` reads the whole file into `draft`, `Open` cuts
the file off, `Fill` writes `draft`. So two commands may each write what they read before the other's write, or
overlay each other. Reading, opening and filling may fail; `Crash` ends a run anywhere. `Verify`, `Browser`, `Rotate`,
`Revoke`, `Try` and `Send` are a request each, with every outcome the client tells apart, lost and unusable answers
included. `Found`, `StorageFails`, `Written` and `LogoutGoesOn` say how each command goes on, with its tests and its
early returns. The histories say when less is promised: `told` (trouble was reported for the key, or its session ran
out), `troubled` (a session may have been left behind: a command failed, warned or was killed, or `bl curl` gave up a
good session because the app had turned it down), `shared` (two commands on one environment at once), `overlap` (the
file was written between another run's read and its write).

`Entries` is the refinement mapping to `SessionStore`: the file, or, while a command writes it, what it is about to hold,
so that a write counts from the moment the file is cut off. It is lost when a write fails, or when two overlap.

The servers are an assumption: a credential is issued once and for one use, a switch may replace it, a
logout ends it, and it may end by itself (`Expire`, not while a run has yet to store it, as it would be only
seconds old). `bl curl` goes through the hosted-app domains of an environment one after the other; the
model has one. The loopback server of the login is one outcome of `Browser`. Left out: the macOS keyring
(one entry per session, so none of this interleaving), removal of the legacy cache, `curl`'s
argument checks and output.

### BrowserLogin

`main` and `listener` are the two threads, `channel` what the second sends the first. A request to the port is
anything (`Arrives`); `OwnState` and `Code` are what the code makes of its parameters. `TimeOut` is the end of
the ten minutes, possible at any instant at which nothing has been received. `page` is what the browser is shown.

### CurlRequest

`lines`, `put`, `exited` are curl: lines written to the header file, pieces put into the pipe. `got`, `held`, `shown`
and `state` are the client's loop (`Read`), which looks at the header file after each chunk. Chunks are of any size;
an output is cut into pieces only as far as the code tells them apart (a head, a body, the text of `-w`), and `Limit`
is `BODY_CAPTURE_LIMIT` in pieces. `answer.before` is the head that comes before the final one: of an interim
response, of a proxy, or, with `--retry`, of an attempt that curl makes again, whose body it puts out, too (`Earlier`;
one such attempt). `Known` is what the client takes for the answer at that moment: the last complete head. `Judge`,
`ForgetSession` and `Again` are what follows. Whether a request has effects is computed twice: as the client does
(`Method`), and as curl does (`CurlMethod`).

### ToolCommand

`env` is every combination of program, host, path, organisation; `Target` what the code makes of it. `Connect` changes
the backend's extensions between two requests. `Kind`, `Accepts` and `Value` translate a schema into a flag and its
text into JSON; `Fits` is the reference: which values have the types and are among the choices that a schema names.
**Of a schema, code and model read `type`, `items`, `anyOf`, `$ref` and `enum`, and nothing else**: `minimum`,
`const`, `pattern`, `maxLength`, `minItems` and the like are not checked before the call (`runtime.rs` 384-422), so a
value that fits may still be one the schema forbids, and the backend has to refuse it. The code follows nested schemas
by recursion. The schemas of the model have at most one array or choice inside another, so `Shape` and `Fits` are
defined level by level instead (`LeafShape`, `PartShape`, `Shape`), with what is common to the levels in `ShapeBy` and
`FitsBy`.

### Preferences

The file, and for each command what it has read (`draft`). A write is two steps, `Open`, which cuts the file off, and
`Fill`. A `login` asks in between for as long as the user likes and reads the file again afterwards (`ReadAgain`).

## 3. Properties and runs

| run | module, specification | bounds | checks |
|---|---|---|---|
| `lock` | `MCWaiting`, `WaitingSpec` | see below | `TypeOK`, `ExclusiveUntilStale`, `OneFaithfulCall`, `LeftoverIsCleared`, `WaitsEnd` |
| `lock_race` (violated) | `MCInstallLock`, `PromptSpec` | 2 runs, limit 1 | `MutualExclusion` |
| `agents` | `MCAgentInstall`, `AgentsSpec` | 2 versions; one run at a time with 3 faults and crashes anywhere, or 3 runs that contend, 1 fault each | `FailureIsAtomic`, `PriorPairOnDisk`, `RecordVouches`, `ResumableUnlessTorn`, `UserDocKept`, `CommandsAreAtomic` |
| `skills` | `MCSkillInstall`, `WorldsSpec` | 2 targets; 2 versions, 2 faults, no doctor; or 1 version, 1 fault, a doctor that sweeps anywhere and repairs between commands; or 1 target's path, an install and a repair at once | `InstallsAreWhole`, `InstallIsAtomic`, `SkillKept`, `PlacementsCurrent`, `UserDirsKept`, `OnlyCrossingHarms` |
| `skill_remove` (violated) | `SkillInstall`, `Spec` | 2 targets, 2 versions, no fault | `RemovedEverywhere` |
| `skill_sweep` (violated) | `SkillInstall`, `RepairSpec` | 2 targets, 2 versions, no fault, doctor between runs | `SkillOnDisk` |
| `client` | `MCClient`, `ClientSpec` | see below | `ClientTypeOK`, `UnchangedIsTrue`, `AppliedToWhatWasRead`, `ToldTruly`, `SettingsKept`, `SecretKept`, `OwnLoginOnly`, `OnePicture`, `ShownOnce`, `ResentRightly`, `DoneIsInstalled`, `KeptUnlessForced`, `PlacementsPreserved` |
| `skills_pins` (violated) | `MCSkillsCommands`, `SkillsSpec` | 1 run, 2 skills, 2 versions | `PinIsRecorded` |
| `apps_race` | `MCHostedApp`, `Spec` | 2 runs, 2 users, 2 profiles, no late request | `DoneIsDone`, `SparesOthers` |
| `apps_retry` | `MCHostedApp`, `RetrySpec` | 1 run after the other, 2 users, 2 late requests | `PlainFailureIsNone`, `NeverVisible`, `RetryCreates` |
| `auth_shared` | `MCAuthSessions`, `Spec` | 2 runs, 2 environments, 3 credentials | `OneEntryAtATime`, `RightServer`, `StoredIsLive`, `NoOrphans`, `LogoutLeavesNothing` |
| `auth_recover` (violated) | `MCAuthSessions`, `Spec` | 1 run, 1 environment, 2 credentials | `RecoveryIsPossible` |

`lock` has four scenarios: `lock` (3 runs, a limit of 1), `login` (every callback), `market` (3 items, pages of 1, 2
versions) and `tools` (every environment, every schema of one level of nesting). `client` has eight: `sharing` and
`renewing` (`AppSharing` with one run at a time, one other person, one community, one renewal ID, revisions and
incarnations up to 2, one late request; without renewals, and without the commands that overwrite), `curl` (bodies up
to 2 pieces, a limit of 3, at most two of the six output options at once, stored sessions with an end), `skills` (one
run beside the unnamed one of `Elsewhere`, 2 skills of which one needs the other, 2 targets, 2 versions), `requests`
(every setting), `preferences` (two commands), `login` and `market`.

What they show, beyond the comments in the modules:

* *Locks.* Until some file has been judged stale, exclusion holds under any interleaving and any crash; if
  every command finishes in time and none crashes while it holds the lock, the lock implements
  `ExclusiveLock` (proved). With one crash it does not (finding 1). A leftover goes as soon as it is stale
  and somebody keeps trying.
* *Agents.* With at most one failing operation, the pair is as before or as asked for. "Done" means the latter and an
  error the former, with nothing left behind, except for one error: when a backup cannot be removed after the last
  rename, the command fails with the new pair in place and the backup beside it; the message names the backup. With
  any number, the old pair is still on disk. The only crash after which the next command reports a conflict about bl's
  own files is the one between the last two renames. Commands that contend for the lock implement `AgentLifecycle`.
* *Skills.* Rollback is complete after one failure and the skill is never lost without the doctor; without it the
  commands implement `SkillLifecycle`, which also bounds what an install may leave that is killed or fails twice. No
  command loses a directory of the user's that it is not forced to remove, and no doctor that repairs links between
  commands does, whenever it sweeps. A doctor that repairs a link while an install is about can destroy such a
  directory, or empty the package's files; but only if both have cleared the path and are still at work there at once
  (`OnlyCrossingHarms`). What the doctor saw before that does no harm, however old it is, because
  `prepare_target_path` looks again.
* *Plans.* An install or update removes no skill, and of what it was asked for, and what that needs, replaces nothing
  local, and by an update nothing pinned, unless that is forced; that is all the client sees to. What else the
  marketplace puts into a plan is carried out, whatever it is about (section 5). Success means that everything is
  there; an update keeps the targets of the skills that it is *about*, not of what those need. All three except an
  update that another command overtook before the lock: each exception is necessary.
* *Marketplace.* A listing has every item that was there throughout, once; a record and its document are of one
  version, the one planned, also when a newer one is published between two of the requests; every conversation ends.
  An agent reported up to date is the version that was planned only if the marketplace's noop is right.
* *Hosted apps.* A create that says it is done has done it; its plain failure means that nothing was done;
  it does not take up what is not its own; a private app is never visible; retrying succeeds in the end.
  Of the commands on access, "nothing was changed" is true; a grant or a renewal is applied to the state it was made for
  or not at all, however late it arrives, also when its app is gone and another has its ID; what `get` calls a
  verified audience was complete. The session is sent to nobody it is not for, with any URL and any setting; of an answer that
  repeats it, as it is, in JSON's escapes, or as a name, nothing is shown, but for escapes in a list of communities (section 5).
* *Credentials.* Whatever the interleaving, no credential is stored for or sent to another server than
  its own. That the file and the servers agree on the sessions there are (`StoredIsLive`, `NoOrphans`,
  `LogoutLeavesNothing`) holds only up to what the properties except: overlapping writes, two commands on one
  environment, and reported trouble. Each exception is necessary: TLC finds a counterexample to each property
  without it. The one that matters to a user is `overlap`: two commands for *different*
  environments can bring back a session the other one replaced. Without overlap the file implements `SessionStore`:
  however the commands interleave, each rewriting of the whole file changes one entry.
* *Browser login.* Nothing that does not know this attempt's `state` ends it, unless it breaks the listening; what is
  stored was issued for this attempt; it ends by the time limit at the latest.
* *Raw requests.* Output is neither lost, nor doubled, nor reordered, and an answer that led to a second request
  leaves no trace, at any pace of header file and pipe. Three things are excepted (section 5): `-i` behind a proxy,
  `-w` with `-o`, and `--retry`.
* *Tools.* What is sent has the types, and is among the values, that the schema names, wherever the code makes a flag of it,
  unless an enum is hidden where the flags do not look; nothing is said of the rest of a schema. No session goes out with `sq`,
  through a workstation's proxy, or without an organisation.
* *Preferences.* A setting is lost only to a command that writes at the same instant, or to a write that is cut off;
  a question held open loses nothing, because the file is read again.

**Why these bounds.** Two runs suffice for a race on a lock; the third one of `lock` is there to find
it created anew. `StaleAfter = 1` distinguishes fresh, at the limit and stale, which is all the code
distinguishes. Two versions tell the new one from the old one; a third could only be equal in its
treatment. Two faults are one that starts a rollback and one inside it; three in `agents` let two
fail inside (the new document that is not removed *and* a file that is not put back). Two targets give
a rollback a link to undo and one that it was on the point of making. Two users and two
profiles give each criterion of `is_matching_incomplete_reservation` a counterpart that fails only it.
Two late requests allow one of an earlier run to overtake one of a later run. In `auth_shared` two
environments are the one that is rewritten and the one that is meant; three credentials are a stored session,
the one that replaces it, and another command's. Each run is one command, so the two are either at once or
one after the other; what still earlier commands left is in the initial file, which is any file of stored
sessions. In `client`, the second party of a compare-and-set is the owner's dialog, a late request of an
earlier run, or the next app under the ID, so one run is enough; revisions up to 2 let one be met that is
equal to an older one of another incarnation. Two skills are one that is named and one that is needed or
bystanding. Three items in pages of one put a withdrawal and a publication before, at and after the
cursor. A body of 2 pieces and a limit of 3 let the output with its heads fall on both sides of the limit, and each
piece arrive before or after the head that decides on it.
`SYMMETRY` is used only in runs that check invariants and action
properties, over sets whose elements are only compared: versions and targets in `skills`; runs, users and profiles in
`apps_race`; runs, environments and credentials in `auth_shared`.

**Fairness.** Two runs check liveness. In `lock`, `WaitingSpec` says of the lock that time passes, that a run of
one user that can take a step takes one, that this user keeps running the command, and (strong fairness) that a
run which again and again gets to look at the file, to judge it stale, to remove it, at some time does; nothing is
assumed of other runs. The code has no loop over the attempts, so without a user who retries nothing can be
promised; and removing a file may fail any number of times, but not always. It says of the login that the main
thread runs and that time passes (`recv_timeout`, and requests with a timeout of their own), nothing of
the browser or of who else sends to the port. Of the conversation with the marketplace it says that each request is
answered or fails, which the HTTP client's timeouts justify. In `apps_retry`, `RetrySpec` says that the user runs the
same command again, and that neither the network, nor the platform, nor a kill or an early end hits the same
request of it for ever. `RetryCreates` claims success only for a user who runs nothing but the one create; the other
user's commands would take the ID for good. No fairness is assumed of any action of the code for safety.

Deadlock is checked in every run but `lock` and `client`, some scenarios of which stop when their command has ended.

## 4. What is proved

For every value of the constants that satisfies the named assumptions (sizes and bounds are natural
numbers, model values are distinct, `MaxHold <= StaleAfter`):

* `InstallLockProofs`: `TypeCorrect`; `ExclusionUntilStale`, `TimelyExclusion` and `Refinement`. The
  invariant behind the first two is `HoldersOwn`: as long as nothing has been judged stale, whoever holds the
  lock created the file that is at the path. `ExclusiveUntilStale` alone is not inductive: it does not
  say whose file is there, and a holder that does not own it would let `CreateNew` succeed. For the
  timely environment, `TimelyInv` adds that a file is there only while its creator holds the lock and that it is
  not older than `MaxHold`, hence never stale. `Refinement` maps the set of holders step by step.
* `WaitingProofs`: `OneFaithfulCall` (`CallIsFaithful`), and the lock's safety in the composition
  (`WaitingExclusion`). That what is sent fits the schema (`Fits`: types and enums, through items, choices and
  references) is proved from the inside out: of a leaf (`LeafValue`: what `parse_scalar_value` accepts for a type is a
  value of it), of a choice, an item, an array, and then of a schema (`ValueFits`). The step that could fail is the
  one from what the code *infers*, a shape and then a kind, to what the schema *says*: `ScalarSound` and `ArraySound`
  show that what a flag of that kind accepts fits the schema, unless an enum is hidden where the flags do not look,
  which the property excepts. `ToolInv` adds where the command is: the tool has not been called before the last step
  (`ran`), and the session at hand is the one of the target's backend (`TargetForm`).
* `AgentInstallProofs`: every property of the run `agents` and the type invariant. A step of an agent command is a
  step of the lock or leaves it alone (`LockStep`), so the lock's theorems carry over. All theorems need that two
  commands do not work at the same time: either there is one (`OneAtATime`, then with any crash, any duration), or all
  hold the lock in time (`TimelySpec`, where the lock's invariant gives exclusion). `PriorInv` (`PriorPairKept`) says
  for each label where the old document and the old record are: in place before the first rename, in the backup after;
  `PriorPairOnDisk` forgets which of the places is meant. `NoUserDoc` (`UserDocSafe`) says that a command that got
  past `Classify` works on a document that is not the user's, in every place it may be. `Exact` (`AllOrNothing`) gives
  for each label and each number of failures so far, none or one, the exact content of both places and both backups:
  undoing is right only if `had` says which of the two renames were made. It also says that a backup is left exactly
  with the error that comes after the fact. `WholeIInv` (`RecordIsTrue`, `Resumable`) adds what a killed command may
  leave. `PairIsAtomic` is the refinement: each step of a command maps to a step of `AgentLifecycle` or to a stutter,
  where the pair counts as changed with the last rename that can fail; `ContendedCommands` states it of the instance
  of the run.
* `SkillInstallProofs`: every property of the run `skills`, and the type invariant. `Phase` (`TypeCorrect`) says what
  the package directory may hold at each label, crashes and the doctor included, and `Linking` that a run has linked a
  target at most once, which the undoing of links relies on (`UserDirsSafe`, for `DoctoredSpec`: the doctor sweeps at
  any point, and repairs links between commands). `Mending` says that while a repair is under way no command is at
  work and no directory of the user's is at the path it has cleared: this is what an install at the same time would
  break, and why the theorem does not have one. `TypeCorrect` and `PlacementsAreCurrent` are about `DoctoredSpec`,
  too. `HarmNeedsCrossing` is `SharedTarget`'s: until both have cleared the path, whoever has finds there what he has
  put there himself (`Cleared`), and the other has nothing to put back (`Apart`). `Aside` and `Safe`
  (`SkillStaysOnDisk`) say which of backup and package moved aside `restore` would put back, and that it is the
  installed one. `Undoable` (`FailingInstallIsUndone`) keeps track of what was there: the package, in one of three
  places (`PackageKept`), and at each target either what is there or what the run remembers to put back (`LinksKept`).
  `Orderly` (`PlacementsAreCurrent`) says of a run that met no error how far it has come. `SkillStaysOnDisk` and
  `FailingInstallIsUndone` are for any spec without a doctor; `SkillKeptWithoutDoctor` and
  `InstallIsAtomicWithoutDoctor` state them of the instance of the run. With a doctor the first is false (finding 3).
  `InstallsImplementLifecycle` is the refinement of `SkillLifecycle` by any number of runs with any failures and
  kills; `InstallsAreWholeWithoutDoctor` states it of the instance of the run. While an install is at work the mapping
  stands still, so its last step has to account for everything at once. `Traced` says that nothing is anywhere but
  what was there, nothing, or what is to come, also in what the run remembers to put back, whatever has failed: this
  is what a killed install leaves. `Reckoned` says that a run undoes its work, or gives up, for a failure only, so
  that an install that met none has done all of it. With `Undoable` these two tell apart the three ends of an install
  (`InstallIsOver`). `Labelled` and `Narrowing` do the same for removals: the metadata to be written at the end is
  still that of the package, without some targets.
* `CommandProofs`, of the skills commands: all properties of the module (`SkillsTypeOK`, `DoneIsInstalled`, `KeptUnlessForced`,
  `PlacementsPreserved`), for any number of runs, skills, targets and
  versions and any relation of needs. The step from plan to disk is `Faithful` (the plan is about what is
  asked for), `Kept` (under the lock a skill is as it was read, or as the plan wants it) and `Complete` (what is asked
  for is there, or still in the plan). `DoneIsInstalled` was once an invariant, of the state after a success; the
  proof showed that to be true of one run only, as a second one may remove the skill before the first has returned. It is
  now a property of the step that reports success.
* `HostedAppProofs`: all safety properties of the module (`TypeCorrect`, `FailureIsPlain`,
  `OthersSpared`, `PrivateIsNeverVisible`, `DoneIsTrue`), for any number of runs, users, profiles and late
  requests. `EffectsServe` and `AppIsLater` say what no request can undo (owner, profile, deletion,
  initialization). `Doubtful` carries the doubt from the reservation to the report; `Sparing` says that
  an app barred from a command stays so; `Innocent` says that while nothing may show the app, whoever is at
  `initialize` has a private app before it, and so has every late request to initialize: without the
  second half, a late request could break the property long after its run is gone. `Finishing` says what
  a create has achieved at each label.
* `AuthSessionsProofs`: every property of the run `auth_shared`, the type invariant and `SentOnce`
  (`ResentOnlyIfSafe`), for any number of commands, environments and credentials. `RightServer` speaks of the file and
  of what a run has in hand; it is not inductive, because a run writes back a `draft` it read earlier. `Holds` adds
  that every draft has only credentials of the right kind and that the entry it changes is the credential in hand;
  `Placed` says which commands reach which label, which fixes the session a run is at; `Counted` bounds the requests
  at each label. `Moves` gathers what `Goto` and `End` do to a run, so that each step is argued once.
  `StoredSessionsAreLive`, `NothingIsForgotten` and `LogoutIsComplete` are about the file and the servers together.
  Their invariant speaks of `Images`, what the file holds or will hold when the run that cut it off has written:
  `SoundAt` says that an image holds good sessions, or that somebody is about to mend it or to tell (`Mending`);
  `TrackedAt` says that the good sessions of a key are in every image, or that a run knows them; `Follows` that a run
  in an undisturbed environment has in hand what is stored; `Fresh` that a session about to be stored is known to
  nobody else; `InTurn` that without an overlap one run writes at a time. The attempt at `StoredSessionsAreLive` found
  an error in the model that only a third run shows: a login that found the session it had read to be good withdrew
  what had been reported of the key (`told`), though another run had meanwhile replaced the entry (`Vouches` now asks
  for that). `OneEntryIsChanged` (`OneEntryAtATime`) is the refinement of `SessionStore`. The write counts with
  `Open`: there the entries become the `draft`, and `InTurn` says that unless writes overlap this draft is the file as
  it is then, but for one entry (`OpenKept`). `Fill` changes nothing any more if it succeeds; if it fails, or the run
  is killed before it, the map is lost, and no step brings it back. An `overlap` loses the map, too: there the code
  promises nothing, as one command may bring back what the other replaced.
* `CommandProofs`, of `bl curl`: all properties of the module (`CurlTypeOK`, `ShownOnce`, `ResentRightly`), for any
  size of body and any limit. `Written` says how far curl can be while heads are missing, `Decided` that output which
  may have to be taken back is passed on only when the head is known and lets the session stand, `Passing` and
  `Closed` where every piece read so far is: shown or held back. `ShownOnce` speaks of the end only, so none of this
  follows from it.
* `ClientProofs`: every other property of the run `client`. `EachAlone` shows that each module moves as it would
  alone, so that the theorems of `CommandProofs` hold in it, too (`ClientTypeCorrect` is about all seven). Of
  `AppSharing`, for any runs, people, communities, renewals and bounds: `UnchangedTrue` rests on `Unheard` (a command
  that may still say "nothing was changed" has no request under way), `NeverBlind` and `LastWord` on `Honest`
  (whatever is based on a revision of this incarnation that is still current was read from what is there, and nobody
  has been told otherwise since), for every run *and* every late request, and on the word given to the user, which a
  request under way must not be able to undo; `AudienceComplete` on `Claimed`; the two together are
  `WhatIsToldIsTrue`. `SessionStaysSecret`: `AskInv` follows where the session is through every answer and every
  error. `ReportedSettingsStay`: `Undisturbed` says that while nobody wrote between another's reading and writing,
  what was reported is what the file holds or what the one writer is about to put there. `StoredIsThisLogins`: `Heard`
  says that what the listening thread sends ends it, so the main thread can be handed no second code.
  `ConversationIsConsistent`: `Listing` says that what was listed so far is in strictly increasing order, ends at the
  cursor, and leaves out nothing up to there that was there all the time; that nothing is shown twice follows. For
  this the marketplace's page is a set of sequences given by what holds of them, and not computed: nothing about a
  recursive definition has to be proved.

So each of the safety properties that the passing runs check, refinements included, is stated by a theorem.
`TimelyExclusion`, `Refinement`, `LockExclusive`, `SentOnce`, `PairIsAtomic`, `SkillStaysOnDisk`,
`FailingInstallIsUndone`, `InstallsImplementLifecycle`, `LastWord`, `AudienceComplete` and most type invariants are
about properties no run lists: the proofs cover the specifications, the runs instances of them.

The theorems say what the models say. What is an assumption of a model, the platform of `HostedApp`, the servers of
`AuthSessions`, the cursor of `Marketplace`, is an assumption of its theorems, and the exceptions in a property
(`overlap`, `torn`, a second failure) are exceptions in the theorem: the runs show that they are necessary.

Only model-checked:

* liveness under fairness: `LeftoverIsCleared`, `WaitsEnd`, `RetryCreates`. The proof system has no rule for it that
  its provers can apply;
* the violations, which are single behaviours.

## 5. Findings

1. `lock_race`: the comment on `InstallLock` promises that concurrent commands "cannot race". After
   one crash, two commands that read the age of the leftover before either removes it both get the lock:
   the second removes the first one's fresh file.
2. `skill_remove`: `remove` promises to remove a skill "and its target links". It visits the targets of
   the last install only, and none when the registry does not know one of them; links dangle.
3. `skill_sweep`: `doctor --fix` "repairs what is safe to repair". After a crash between the two renames of
   `replace_managed_dir`, what it sweeps is the only copy of the skill.
4. `skills_pins`: the help of `install --version` says the version is "recorded as pinned; skipped by
  `update`". If the skill is already installed at that version, the server plans a noop, nothing is
  written, and the skill is not pinned.
5. `auth_recover`: when the rotated credential cannot be stored, `workspace switch` tells the user to run
   `bl auth login`. If the write failed after the file was cut off, login reads that file first and ends
   with an error.

Seen while reading, without a run of their own: `link_targets`' failure after a fresh install keeps the new
package while the message says "restored the previous package" (`skills_install.rs` 265-270;
`FailureIsAtomic` states what holds); `doctor --fix` takes no lock and can sweep the staging directory of a
live install, which then fails (allowed for in `WriteMetadata`, `Put` and `Restore`). Also:

* `bl skills update` reads what is installed before it takes the lock (`skills.rs` 1226, 1313). What another command
  changed in between is overwritten or brought back: a removed skill, a local one, a pin (`outdated`).
  It passes no pinned skills on (1360), so an update loses the pin of what it updates when forced;
  `update --force` without a name includes pinned skills, which 328-336 says it skips; `update a` with nothing
  installed at all reports success.
* `bl auth login` stores its session under a service path that `bl tools` does not look under when the base URL is not
  the direct host (`lib.rs` 370; `LoginPath` and `ToolsPath` are both in `ToolCommand`). The session is
  then not sent, never sent to a wrong place.
* The page of a login says that authentication is complete before the code is exchanged, which may still fail.
* `bl curl`: with `-i` and a proxy, the proxy's answer to CONNECT is taken for the app's; with `-w` and `-o`, the text
  of `-w` is withheld when the file asks for consent. With `--retry`, the head of the first attempt decides (`curl.rs`
  1117-1131): after a 503 everything is passed on, so a rejection that follows is shown and the request sent again all
  the same; with `-f --retry-all-errors`, after a 401 that is tried again the output of a good answer may be dropped.
  `ShownOnce` excepts the three.
* `doctor --fix` repairs a link without the lock (`skills_doctor.rs` 230-244, `skills_targets.rs` 217-257). Beside an
  install that is rolled back, the user's directory may come back between its clearing of the path and its symlink;
  the symlink then fails, the package is copied into that directory, and if the copy fails, `restore_target_path`
  removes it, against the help's "It never deletes unmanaged files" (`skills.rs` 189). Where a copy meets a link that
  the other has made meanwhile, it copies the package's files onto themselves and empties them. Both need the two to
  cross as `OnlyCrossingHarms` says.
* A plan's `install` or `update` is carried out whatever it is about (`skills_install.rs` 370-376); only removals are
  held back, and only what the request names is protected by what it says of local and pinned skills.
* "So updates preserve existing placements" (`skills.rs` 1296) is true of the skills an update is about. A skill that
  one of them needs, updated by the same plan, gets the targets of the others as its own (`skills_install.rs`
  443-447): its links elsewhere stay, and no longer belong to it.
* A noop is believed: `bl agents install --version` of a version that is not there reports it up to date if the
  marketplace says so, since nobody compares the two (`agents_install.rs` 331), and the old file stays.
* The session is taken out of a list of communities before its JSON is read (`apps.rs` 1857-1863, 1870), elsewhere
  after it. If Kgoose spelled it with escapes there, it would be printed. `SecretKept` excepts this one.
* A success answer to a reservation that names no app or another one is reported as a plain failure (`apps.rs`
  1421-1426), though it may come after the fact. `PlainFailureIsNone` leaves it out.
* `bl tools` and `sq` read types and enums of a schema only; a value below a `minimum`, or against a `pattern` or
  `const`, is sent.
* `kgoose.rs` 234 cuts an answer at a byte index, which panics inside a character; a cycle of `$ref` in a schema is
  followed without end (`runtime.rs` 511). Neither is in the model, whose values are not texts and whose schemas are
  finite.

## 6. What is not modelled, and the plan

Done: all modules of section 2, with their abstract specifications, and the proofs of section 4: every safety property
of every passing run is stated by a theorem. What would come next:

1. `SkillsCommands` on top of `SkillLifecycle`: its operations are one step each, as those of the life cycle, but for an
   installation that fails after the package was new;
2. `SkillInstall` with the doctor: the weakest condition on when it runs under which the skill stays on disk;
3. the keyring beside the file as an implementation of `SessionStore`.

### Not modelled

* Commands that only read and print (`skills list`, `show`, `files`, `installed`, `which`; `apps list`, `logs` and the text of
  their summaries; help, completion, version): they change nothing, and what they print is layout. Where such output says
  something that could be wrong, it is modelled (`apps get`, listings, what is shown of an answer).
* The macOS keyring keeps one entry per session, so none of the interleaving of the file applies; the removal of the
  old Compose cache happens once and looks at nothing else.
* The table of agent tools in `skills_targets.rs` and the detection of the installed ones; the embedded catalog of
  `sq`: data. What a command does with an unknown target or an extension that is gone is modelled.
* Archive and HTTP libraries, file input and output inside an extraction; generated protocol code; release,
  packaging and acceptance scripts.

Abstractions to keep in mind: removing a directory tree and rewriting metadata are atomic in `SkillInstall`, in which
the doctor repairs links between commands only; `SharedTarget` has one path and no symlinks of the user's, and a look
at what is there is one step with the rename that moves it; one operation of a plan is in `SkillsCommands`; stage
files of agents are left out; the age of a lock file is one clock for all; the lock is exclusive in `SkillsCommands`
and its lack of exclusion (finding 1) is `InstallLock`'s subject alone; texts are classified by what the code tells
apart; the user writes a document only between commands in `QuietSpec` and `TimelySpec` (the code has a window between
classification and rename in which an edit is moved to the backup and removed with it: listed as a hazard, not guarded
against).
