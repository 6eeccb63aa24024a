------------------------------- MODULE Installer --------------------------------
(***************************************************************************)
(* `forge extension enable | sync | disable`: skills copied or linked into *)
(* a project's .claude, entries merged into a settings file, and a record  *)
(* of both in installed.json.  The project and the local scope share the   *)
(* directory of the files; each has a settings file of its own.            *)
(***************************************************************************)
EXTENDS Forge

CONSTANTS
    Scopes,
    Targets,       \* files of the skills
    Gated,         \* those of skills that need the profile "full"
    Releases,      \* the versions of Forge, oldest first
    Sources,       \* the files each version of Forge ships
    Entries,       \* hook and permission entries of settings files
    Template,      \* the entries each version of Forge merges
    PresetEnv,     \* whether the preset sets the environment variable
    MaxCommands,   \* bound: runs of enable, sync and disable
    MaxUserEdits   \* bound: what the user does to files and settings

Versions == {Releases[i] : i \in DOMAIN Releases}

ASSUME InstallerAssumption ==
    /\ Releases \in Seq(Versions) \ {<<>>} /\ DOMAIN Sources = Versions /\ DOMAIN Template = Versions
    /\ \A v \in Versions : Sources[v] \subseteq Targets /\ Template[v] \subseteq Entries
    /\ {"link", "user"} \cap Versions = {}
    /\ PresetEnv \in BOOLEAN /\ MaxCommands \in Nat /\ MaxUserEdits \in Nat

VARIABLES
    version,   \* of the installed Forge
    disk,      \* what is at each target: a version, "link", "user" or None
    settings,  \* the settings file of each scope, or None
    backup,    \* the newest .forge.backup of it, or None
    added,     \* the newest .forge.added of it, or None
    record,    \* the installation of each scope in installed.json, or None
    own,       \* history: the entries the user put into each settings file
    before,    \* history: the settings a first enable found, if all else is as it left it
    orphaned,  \* history: a run was cut short or a file could not be removed
    did        \* counts of the bounded events, and the last of them

installVars == <<version, disk, settings, backup, added, record, own, before, orphaned, did>>

Contents == Versions \cup {"link", "user"}
Values == {"user", "forge"}
Settings == [entries : SUBSET Entries, env : Opt(Values), line : Opt(Values)]
Empty == [entries |-> {}, env |-> None, line |-> None]
Profiles == {"minimal", "standard", "full"}
Modes == {"copy", "symlink"}
Records == [files : UNION {[F -> Contents] : F \in SUBSET Targets}, entered : Settings,
            profile : Profiles, mode : Modes]

ASSUME InstallRecordAssumption == None \notin Settings \cup Records \cup Contents \cup Values

\* read_settings: a missing file reads as empty settings.
Read(s) == IF settings[s] = None THEN Empty ELSE settings[s]
TrackedBy(s) == IF record[s] = None THEN {} ELSE DOMAIN record[s].files

InstallInit ==
    /\ version = Releases[1] /\ disk = [t \in Targets |-> None]
    /\ settings = [s \in Scopes |-> None]
    /\ backup = [s \in Scopes |-> None] /\ added = backup /\ record = backup /\ before = backup
    /\ own = [s \in Scopes |-> {}]
    /\ orphaned = FALSE /\ did = [commands |-> 0, edits |-> 0, last |-> "edit"]

-----------------------------------------------------------------------------
(* The plan.                                                               *)

\* What the source scan finds for a profile: a gated skill only with the profile it
\* needs, or when it is installed already.
Planned(s, profile) ==
    {t \in Sources[version] :
        profile # "minimal" /\ (t \in Gated => (profile = "full" \/ t \in TrackedBy(s)))}

\* Both a symlink and an equal copy have the checksum of the source.
UpToDate(t, mode) == disk[t] = "link" \/ (mode = "copy" /\ disk[t] = version)

\* Mutant: what is there is taken for Forge's.
FileActionUnasked(s, t, mode, force) ==
    IF disk[t] = None THEN "install"
    ELSE IF UpToDate(t, mode) THEN "skip" ELSE "update"

FileAction(s, t, mode, force) ==
    IF disk[t] = None THEN "install"
    ELSE IF t \in TrackedBy(s) THEN IF UpToDate(t, mode) THEN "skip" ELSE "update"
    ELSE IF force THEN "install" ELSE "conflict"

LineConflicts(s, profile) == profile # "minimal" /\ Read(s).line = "user"

Conflicts(s, profile, mode) ==
    \/ LineConflicts(s, profile)
    \/ \E t \in Planned(s, profile) : FileAction(s, t, mode, FALSE) = "conflict"

-----------------------------------------------------------------------------
(* Settings: what merge adds to them, and what unmerge takes out.          *)

\* What the preset has for a profile; the entries do not depend on it.
Wanted(profile) ==
    [entries |-> Template[version], env |-> IF PresetEnv THEN "forge" ELSE None,
     line |-> IF profile # "minimal" THEN "forge" ELSE None]

\* Mutant: all that Forge wants is recorded as added.
AddedTemplate(cur, profile) == Wanted(profile)

\* The entries merge() returns: hooks and permissions that were not there, the
\* environment always, the status line if it changes.
Added(cur, profile) ==
    [Wanted(profile) EXCEPT !.entries = @ \ cur.entries, !.line = IF @ = cur.line THEN None ELSE @]

Over(old, new) == IF new = None THEN old ELSE new
Merged(cur, new) ==
    [entries |-> cur.entries \cup new.entries, env |-> Over(cur.env, new.env),
     line |-> Over(cur.line, new.line)]

\* Where the value is still the one that was added, the backup's comes back.
Restored(cur, old, new) == IF new # None /\ cur = new THEN old ELSE cur

\* smart_unmerge, by the newest .forge.added.
SmartUnmerge(cur, old, new) ==
    [entries |-> cur.entries \ new.entries, env |-> Restored(cur.env, old.env, new.env),
     line |-> Restored(cur.line, old.line, new.line)]

\* unmerge, by the entries of the record: a scalar is deleted.
Unmerge(cur, entered) ==
    [entries |-> cur.entries \ entered.entries,
     env |-> IF entered.env # None THEN None ELSE cur.env,
     line |-> IF entered.line # None THEN None ELSE cur.line]

\* The settings after a disable; a file that would be empty as it was before is deleted.
Unmerged(s) ==
    LET old == IF backup[s] = None THEN Empty ELSE backup[s]
        result == SmartUnmerge(Read(s), old, added[s])
    IN  IF added[s] \in {None, Empty} THEN Unmerge(Read(s), record[s].entered)
        ELSE IF result = old /\ (backup[s] = None \/ old = Empty) THEN None ELSE result

-----------------------------------------------------------------------------
(* The commands.                                                           *)

Counts(event, bound, what) ==
    /\ did[event] < bound
    /\ did' = [did EXCEPT ![event] = @ + 1, !.last = what]
Forced(force) == IF force THEN "forced" ELSE "unforced"

\* A tracked file that the plan no longer has is removed only if it is what was
\* installed: the link, or a copy with the checksum of the record.
\* Mutant: whatever is there now is removed.
OwnedAnyhow(s, t) == disk[t] # None

Owned(s, t) == disk[t] # None /\ disk[t] = record[s].files[t]

Content(mode) == IF mode = "symlink" THEN "link" ELSE version

\* What the record says after a run that wrote `written`: those, and the files it had
\* that are still planned and were skipped.
\* Mutant: only those.
FilesOnlyWritten(s, planned, written, mode) == [t \in written |-> Content(mode)]

FilesAfter(s, planned, written, mode) ==
    [t \in written \cup (TrackedBy(s) \cap planned) |->
        IF t \in written THEN Content(mode) ELSE record[s].files[t]]

\* init(): files, settings, .forge.added, removal of stale files, and the record, in
\* that order; the process may be killed after each of them (bound: once).
Stages == <<"files", "settings", "added", "stale", "record">>
Prefixes == {{Stages[j] : j \in 1..i} : i \in DOMAIN Stages}

Execute(s, profile, mode, force, done) ==
    LET planned == Planned(s, profile)
        written == {t \in planned : FileAction(s, t, mode, force) \in {"install", "update"}}
        stale == {t \in TrackedBy(s) \ planned : Owned(s, t)}
        new == Added(Read(s), profile)
        old == IF record[s] = None THEN Empty ELSE record[s].entered
    IN  /\ "record" \in done \/ ~orphaned
        /\ disk' = [t \in Targets |->
              IF t \in written THEN Content(mode)
              ELSE IF "stale" \in done /\ t \in stale THEN None ELSE disk[t]]
        /\ backup' = IF settings[s] = None THEN backup ELSE [backup EXCEPT ![s] = settings[s]]
        /\ settings' = IF "settings" \in done THEN [settings EXCEPT ![s] = Merged(Read(s), new)]
                       ELSE settings
        /\ added' = IF "added" \in done THEN [added EXCEPT ![s] = new] ELSE added
        /\ record' = IF "record" \in done
                     THEN [record EXCEPT ![s] =
                             [files |-> FilesAfter(s, planned, written, mode),
                              entered |-> Merged(old, new), profile |-> profile, mode |-> mode]]
                     ELSE record
        /\ before' = [before EXCEPT ![s] =
              IF "record" \in done /\ record[s] = None /\ added[s] = None
                 /\ (settings[s] # None \/ backup[s] = None)
              THEN Read(s) ELSE None]
        /\ orphaned' = (orphaned \/ "record" \notin done)
        /\ UNCHANGED <<version, own>>

\* forge extension enable: without --force nothing is done if anything conflicts, and
\* --force makes no other difference.
Enable(s, profile, mode, force, done) ==
    /\ Counts("commands", MaxCommands, Forced(force))
    /\ force <=> Conflicts(s, profile, mode)
    /\ Execute(s, profile, mode, force, done)

\* forge extension sync: enable again with the profile, modules and mode of the record.
Sync(s, force, done) ==
    /\ Counts("commands", MaxCommands, Forced(force))
    /\ record[s] # None
    /\ force <=> Conflicts(s, record[s].profile, record[s].mode)
    /\ Execute(s, record[s].profile, record[s].mode, force, done)

\* forge extension disable: every file of the record is deleted, then the settings are
\* unmerged; backups are kept.
Disable(s) ==
    /\ Counts("commands", MaxCommands, "disable")
    /\ record[s] # None
    /\ disk' = [t \in Targets |-> IF t \in TrackedBy(s) THEN None ELSE disk[t]]
    /\ settings' = [settings EXCEPT ![s] = Unmerged(s)]
    /\ added' = [added EXCEPT ![s] = None]
    /\ record' = [record EXCEPT ![s] = None]
    /\ before' = [before EXCEPT ![s] = None]
    /\ UNCHANGED <<version, backup, own, orphaned>>

Upgrade ==
    /\ \E i \in 2..Len(Releases) : version = Releases[i - 1] /\ version' = Releases[i]
    /\ UNCHANGED <<disk, settings, backup, added, record, own, before, orphaned, did>>

-----------------------------------------------------------------------------
(* The user.                                                               *)

UserWritesFile(t) ==
    /\ Counts("edits", MaxUserEdits, "edit")
    /\ disk' = [disk EXCEPT ![t] = "user"]
    /\ UNCHANGED <<version, settings, backup, added, record, own, before, orphaned>>

UserSaves(s, new) ==
    /\ Counts("edits", MaxUserEdits, "edit")
    /\ settings' = [settings EXCEPT ![s] = new]
    /\ before' = [before EXCEPT ![s] = None]
    /\ UNCHANGED <<version, disk, backup, added, record, orphaned>>

\* An entry is the user's if it was not there and Forge has not got it on record.
UserAddsEntry(s, e) ==
    /\ e \notin Read(s).entries
    /\ UserSaves(s, [Read(s) EXCEPT !.entries = @ \cup {e}])
    /\ own' = IF (added[s] # None /\ e \in added[s].entries)
                 \/ (record[s] # None /\ e \in record[s].entered.entries)
              THEN own ELSE [own EXCEPT ![s] = @ \cup {e}]

UserRemovesEntry(s, e) ==
    /\ e \in Read(s).entries
    /\ UserSaves(s, [Read(s) EXCEPT !.entries = @ \ {e}])
    /\ own' = [own EXCEPT ![s] = @ \ {e}]

UserSets(s, key, value) ==
    /\ UserSaves(s, [Read(s) EXCEPT ![key] = value]) /\ UNCHANGED own

InstallCommand(s) ==
    \/ \E profile \in Profiles, mode \in Modes, force \in BOOLEAN, done \in Prefixes :
          Enable(s, profile, mode, force, done)
    \/ \E force \in BOOLEAN, done \in Prefixes : Sync(s, force, done)
    \/ Disable(s)

UserEdit(s) ==
    \/ \E e \in Entries : UserAddsEntry(s, e) \/ UserRemovesEntry(s, e)
    \/ \E key \in {"env", "line"}, value \in Opt(Values) : UserSets(s, key, value)

InstallNext ==
    \/ \E s \in Scopes : InstallCommand(s) \/ UserEdit(s)
    \/ \E t \in Targets : UserWritesFile(t)
    \/ Upgrade

-----------------------------------------------------------------------------
InstallTypeOK ==
    /\ version \in Versions /\ disk \in [Targets -> Opt(Contents)]
    /\ settings \in [Scopes -> Opt(Settings)] /\ backup \in [Scopes -> Opt(Settings)]
    /\ added \in [Scopes -> Opt(Settings)] /\ before \in [Scopes -> Opt(Settings)]
    /\ DOMAIN record = Scopes /\ \A s \in Scopes : record[s] \in Opt(Records)
    /\ own \in [Scopes -> SUBSET Entries] /\ orphaned \in BOOLEAN

\* A hook or a permission the user put into a settings file is never taken out by
\* Forge, though a later Forge may want the same entry (settings_merge.py: what is
\* already there is not recorded as added).
UserEntriesSurvive == \A s \in Scopes : own[s] \subseteq Read(s).entries

\* A file of the user's is never overwritten or deleted without --force, unless it lies
\* where a record has one of Forge's files, and that is still shipped or disabled: a file
\* that is no longer shipped goes only if it is what was installed (_is_forge_owned).
UserFilesSurvive ==
    [][\A t \in Targets :
          disk[t] = "user" /\ disk'[t] # "user" /\ did'.last # "forced" =>
              \E s \in Scopes : t \in TrackedBy(s) /\ (record'[s] = None \/ t \in Sources[version])
      ]_installVars

\* What Forge put on disk stays on record until it is removed, whatever versions,
\* profiles, modes and scopes it was installed under, if no run was cut short.
NoFileIsOrphaned ==
    ~orphaned => \A t \in Targets : disk[t] \in {None, "user"} \/ \E s \in Scopes : t \in TrackedBy(s)

\* A disable after a single enable, with no edits between, brings back the settings that
\* the enable found, among them values it replaced (installer.py: "smart unmerge").
OneEnableIsUndone ==
    [][\A s \in Scopes :
          before[s] # None /\ record[s] # None /\ record'[s] = None => Read(s)' = before[s]]_installVars

\* Whatever is enabled, synced, upgraded and disabled in whatever order, the entries and the
\* files of the user survive.
UserThingsSurvive == [](InstallTypeOK /\ UserEntriesSurvive) /\ UserFilesSurvive

\* Of what Forge installs, every file stays on a record by which it can be taken away, also
\* after its release is dropped; and a disable after one enable, not after several, brings
\* back the settings there were.
NothingIsLeftBehind == []NoFileIsOrphaned /\ OneEnableIsUndone
=============================================================================
