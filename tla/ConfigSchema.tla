---------------------------- MODULE ConfigSchema ----------------------------
(***************************************************************************)
(* The configuration of the tests: the schema files that say which entries  *)
(* exist, the operator's test_config.yaml, the test-config command line     *)
(* and a test session that reads its settings.                              *)
(*                                                                         *)
(* An entry is a path <<namespace, key>>.  Every command loads the schema   *)
(* files in the order the directory lists them, which is any order.  The    *)
(* entries below stand for all of their kind in config_schemas: with and    *)
(* without a default, with allowed values, nullable or not, and those of a  *)
(* platform.                                                                *)
(***************************************************************************)
EXTENDS Naturals

CONSTANTS Extras,      \* the kinds of schema file somebody may be adding
          Platforms,   \* the platforms the operator may ask generate for
          Credentials, \* whether OpenStack's variables are set: a set of Booleans
          MaxEdits     \* edits of the file by hand

ASSUME ConfigAssumption ==
  /\ Extras \subseteq {"none", "second", "undescribed", "hidden", "clash"}
  /\ Platforms \subseteq {"openstack", "aws", "bad"}
  /\ Credentials \subseteq BOOLEAN
  /\ MaxEdits \in Nat

Root == "root"
Null == "null"
NotSet == "notset"

Anything == {}
Flags == {"true", "false"}

Entry(default, allowed, nullable) ==
  [default |-> default, allowed |-> allowed, nullable |-> nullable]
Plain == Entry("ok", Anything, FALSE)
Required == Entry(NotSet, Anything, FALSE)
Optional == Entry(Null, Anything, TRUE)

File(ns, entries) ==
  [ns |-> ns, platform |-> FALSE, described |-> TRUE, entries |-> entries]
PlatformFile(ns, entries) == [File(ns, entries) EXCEPT !.platform = TRUE]
Undescribed(f) == [f EXCEPT !.described = FALSE]

\* The repository's schema files, an entry of every kind each.
Repository ==
  {File(Root, [target_platform |-> Entry("openstack", {"openstack", "aws"}, FALSE),
               testing_version |-> Plain]),
   File("infrastructure_manager", [address |-> Required, ca_cert |-> Optional]),
   File("teardown", [on_success |-> Entry("true", Flags, FALSE), on_failure |-> Plain]),
   PlatformFile("openstack", [username |-> Required,
                              rhel_username_override |-> Entry(Null, Anything, FALSE)]),
   PlatformFile("aws", [access_key_id |-> Required, region |-> Plain])}

\* A schema file under development: a second one for a namespace, one with an
\* entry that has no description, the same for one platform, and one whose
\* entry has the name of a namespace.
Extra(kind) ==
  CASE kind = "none"        -> {}
    [] kind = "second"      -> {File("infrastructure_manager", [port |-> Required])}
    [] kind = "undescribed" -> {Undescribed(File(Root, [timeout |-> Plain]))}
    [] kind = "hidden"      -> {Undescribed(PlatformFile("aws", [zone |-> Plain]))}
    [] kind = "clash"       -> {File(Root, [teardown |-> Plain])}

Target == <<Root, "target_platform">>
Paths(f) == {<<f.ns, k>> : k \in DOMAIN f.entries}
Keyed(f) == [p \in Paths(f) |-> f.entries[p[2]]]
Namespaces == {f.ns : f \in Repository} \ {Root}
Typo == <<Root, "on_sucess">>
AllPaths == UNION {Paths(f) : f \in Repository \cup UNION {Extra(k) : k \in Extras}}
              \cup {<<Root, n>> : n \in Namespaces} \cup {Typo}

Commands ==
  [op : {"validate", "schema", "test"}, platform : {"none"}, defaults : {FALSE}]
    \cup [op : {"generate"}, platform : Platforms \cup {"none"}, defaults : BOOLEAN]

Nothing == [p \in {} |-> Null]   \* a missing file, or an empty one

\* One entry, and entries put over others, path by path.
Single(p, v) == [q \in {p} |-> v]
Over(new, old) ==
  [p \in DOMAIN new \cup DOMAIN old |-> IF p \in DOMAIN new THEN new[p] ELSE old[p]]

VARIABLES
  extra,    \* the kind of schema file being added
  file,     \* test_config.yaml, by path; an entry may be left "blank"
  edits,    \* edits made by hand
  sample,   \* the platform the file was generated for, "none" once it is edited
  verdict,  \* what the last check said of the file as it is, or "none"
  cmd,      \* the command
  pc,       \* where it is
  outcome,  \* how the last one ended
  raw,      \* Config.raw_config
  todo,     \* schema files to merge
  spaces,   \* Config.schema: the namespaces in it
  schema,   \* and its entries
  got       \* the value a test has read last

vars == <<extra, file, edits, sample, verdict, cmd, pc, outcome, raw, todo,
          spaces, schema, got>>

Init ==
  /\ extra \in Extras
  /\ file = Nothing
  /\ edits = 0 /\ sample = "none" /\ verdict = "none"
  /\ cmd = [op |-> "schema", platform |-> "none", defaults |-> FALSE]
  /\ pc = "idle" /\ outcome = "none"
  /\ raw = Nothing /\ todo = {} /\ spaces = {} /\ schema = Nothing
  /\ got = "none"

TargetPlatform == IF Target \in DOMAIN raw THEN raw[Target] ELSE "openstack"
ReadsFile == cmd.op \in {"validate", "test"}

\* A command ends, with this output.  What generate prints becomes the file:
\* nothing, if it fails.  A check of the file leaves its verdict.
End(o, output) ==
  /\ pc' = "idle" /\ outcome' = o
  /\ raw' = Nothing /\ todo' = {} /\ spaces' = {} /\ schema' = Nothing
  /\ got' = "none"
  /\ IF cmd.op = "generate"
     THEN /\ file' = output /\ verdict' = "none"
          /\ sample' = IF o = "ok" THEN TargetPlatform ELSE "none"
     ELSE /\ verdict' = IF ReadsFile /\ pc # "use" THEN o ELSE verdict
          /\ UNCHANGED <<file, sample>>
  /\ UNCHANGED <<extra, edits, cmd>>

----------------------------------------------------------------------------
(* The operator *)

Start(c) ==
  /\ pc = "idle"
  /\ cmd' = c /\ pc' = "load" /\ outcome' = "none"
  /\ UNCHANGED <<extra, file, edits, sample, verdict, raw, todo, spaces, schema, got>>

\* The blanks of a generated file are filled in, and nothing else is changed.
FillBlanks ==
  /\ pc = "idle" /\ sample # "none"
  /\ \E p \in DOMAIN file : file[p] = "blank"
  /\ file' = [p \in DOMAIN file |-> IF file[p] = "blank" THEN "ok" ELSE file[p]]
  /\ verdict' = "none"
  /\ UNCHANGED <<extra, edits, sample, cmd, pc, outcome, raw, todo, spaces, schema, got>>

\* The values an operator gives an entry: one of those allowed, or another.
Choices(p) ==
  LET allowed == UNION {Keyed(f)[p].allowed : f \in {g \in Repository : p \in Paths(g)}}
  IN  {"blank", "gone"} \cup (IF allowed = Anything THEN {"ok"} ELSE allowed \cup {"bad"})

\* An entry is set, misspelt, left blank or removed; "blank" at the root stands
\* for a namespace of which only the name is left.
Edit(p, v) ==
  /\ pc = "idle" /\ edits < MaxEdits
  /\ file' = IF v = "gone" THEN [q \in DOMAIN file \ {p} |-> file[q]]
             ELSE IF p \in {<<Root, n>> : n \in Namespaces}
             THEN Over(Single(p, "blank"), [q \in {r \in DOMAIN file : r[1] # p[2]} |-> file[q]])
             ELSE Over(Single(p, v), [q \in DOMAIN file \ {<<Root, p[1]>>} |-> file[q]])
  /\ file' # file
  /\ edits' = edits + 1 /\ sample' = "none" /\ verdict' = "none"
  /\ UNCHANGED <<extra, cmd, pc, outcome, raw, todo, spaces, schema, got>>

----------------------------------------------------------------------------
(* Config *)

\* A blank is None to YAML; so is an empty file, which is no configuration.
Parsed(text) == [p \in DOMAIN text |-> IF text[p] = "blank" THEN Null ELSE text[p]]

LoadFails ==
  /\ pc = "load" /\ ReadsFile /\ file = Nothing
  /\ End("error", Nothing)

Load ==
  /\ pc = "load" /\ ~(ReadsFile /\ file = Nothing)
  /\ raw' = IF ReadsFile THEN Parsed(file)
            ELSE IF cmd.platform # "none" THEN Single(Target, cmd.platform)
            ELSE Nothing
  /\ todo' = Repository \cup Extra(extra)
  /\ pc' = "merge"
  /\ UNCHANGED <<extra, file, edits, sample, verdict, cmd, outcome, spaces, schema, got>>

\* A platform's file is merged whatever the target.
KeepAll(f) == TRUE

Kept(f) == f.platform => f.ns = TargetPlatform
Viable(f) == <<Root, f.ns>> \notin DOMAIN schema /\ (Kept(f) => f.described)

\* The entries of a namespace are replaced by those of its next file.
MergeOver(f) ==
  /\ pc = "merge" /\ f \in todo /\ Viable(f)
  /\ todo' = todo \ {f}
  /\ LET named == IF f.ns = Root THEN spaces \ DOMAIN f.entries ELSE spaces \cup {f.ns}
         old == [p \in {q \in DOMAIN schema : q[1] # f.ns \/ f.ns = Root} |-> schema[p]]
         merged == IF Kept(f) THEN Over(Keyed(f), old) ELSE schema
     IN  spaces' = named /\ schema' = merged
  /\ UNCHANGED <<extra, file, edits, sample, verdict, cmd, pc, outcome, raw, got>>

\* A namespace exists once a file has named it, kept or not.  An entry
\* replaces the namespace of its name, and all that is in it.
Merge(f) ==
  /\ pc = "merge" /\ f \in todo /\ Viable(f)
  /\ todo' = todo \ {f}
  /\ LET named == IF f.ns = Root THEN spaces \ DOMAIN f.entries ELSE spaces \cup {f.ns}
         merged == IF Kept(f) THEN Over(Keyed(f), schema) ELSE schema
     IN  /\ spaces' = named
         /\ schema' = [p \in {q \in DOMAIN merged : q[1] \in named \cup {Root}} |-> merged[p]]
  /\ UNCHANGED <<extra, file, edits, sample, verdict, cmd, pc, outcome, raw, got>>

MergeFails(f) ==
  /\ pc = "merge" /\ f \in todo /\ ~Viable(f)
  /\ End("error", Nothing)

Loaded ==
  /\ pc = "merge" /\ todo = {}
  /\ pc' = IF ReadsFile THEN "check" ELSE IF cmd.platform # "none" THEN "apply" ELSE "show"
  /\ UNCHANGED <<extra, file, edits, sample, verdict, cmd, outcome, raw, todo, spaces,
                 schema, got>>

\* OpenStack's credentials come from the environment.
ApplyPlatform(there) ==
  /\ pc = "apply"
  /\ IF cmd.platform = "openstack" /\ ~there
     THEN End("error", Nothing)
     ELSE /\ raw' = IF cmd.platform = "openstack"
                    THEN Over(Single(<<"openstack", "username">>, "ok"), raw) ELSE raw
          /\ pc' = "check"
          /\ UNCHANGED <<extra, file, edits, sample, verdict, cmd, outcome, todo, spaces,
                         schema, got>>

Value(p) == IF p \in DOMAIN raw THEN raw[p] ELSE schema[p].default

\* The check stays at the root.
InspectRoot == {p \in DOMAIN schema : p[1] = Root}

\* check_config_is_valid descends into every namespace.
Inspected == DOMAIN schema
Missing(p) == ReadsFile /\ Value(p) = NotSet
\* A check that lets an entry be null that may not.
NeverNulled(p) == FALSE

NotAllowed(p) == ~Missing(p) /\ schema[p].allowed # Anything /\ Value(p) \notin schema[p].allowed
Nulled(p) == ~Missing(p) /\ Value(p) = Null /\ ~schema[p].nullable

\* A namespace without entries has no copy(), and the report of an allowed
\* value joins texts, which Booleans are not.
Raises ==
  \/ \E n \in spaces : <<Root, n>> \in DOMAIN raw /\ raw[<<Root, n>>] = Null
  \/ \E p \in Inspected : NotAllowed(p) /\ schema[p].allowed = Flags

Checked ==
  IF Raises THEN "error"
  ELSE IF \E p \in Inspected : Missing(p) \/ NotAllowed(p) \/ Nulled(p) THEN "refused"
  ELSE "ok"

Check ==
  /\ pc = "check"
  /\ IF Checked # "ok" \/ cmd.op = "validate"
     THEN End(Checked, Nothing)
     ELSE /\ pc' = IF cmd.op = "test" THEN "use" ELSE "show"
          /\ verdict' = IF ReadsFile THEN "ok" ELSE verdict
          /\ UNCHANGED <<extra, file, edits, sample, cmd, outcome, raw, todo, spaces,
                         schema, got>>

\* A sample without the entries that have no default.
ShowDefaultsOnly(p) == p \in DOMAIN raw \/ cmd.defaults

\* A sample has what is set, the defaults if asked for, and a blank for every
\* entry that has none.
Shown(p) == p \in DOMAIN raw \/ schema[p].default = NotSet \/ cmd.defaults

\* A sample that writes what a missing default is to the code.
RawSample == [p \in {q \in DOMAIN schema : Shown(q)} |-> Value(p)]

\* What show_schema prints.
Generated ==
  [p \in {q \in DOMAIN schema : Shown(q)} |->
     IF Value(p) = NotSet THEN "blank" ELSE Value(p)]

Show ==
  /\ pc = "show"
  /\ End("ok", Generated)

----------------------------------------------------------------------------
(* A test session *)

\* The settings the tests ask for, those of the target platform through
\* Config.platform.
ForPlatform(files, t) == {f \in files : ~f.platform \/ f.ns = t}
Needed == UNION {Paths(f) : f \in ForPlatform(Repository, TargetPlatform)}

\* An entry outside the schema is an error, whether the file has it or not.
Read(p) ==
  /\ pc = "use" /\ p \in Needed
  /\ got' = IF p \in DOMAIN schema THEN Value(p) ELSE "error"
  /\ UNCHANGED <<extra, file, edits, sample, verdict, cmd, pc, outcome, raw, todo,
                 spaces, schema>>

SessionEnds ==
  /\ pc = "use"
  /\ End("ok", Nothing)

Next ==
  \/ \E c \in Commands : Start(c)
  \/ FillBlanks
  \/ \E p \in AllPaths : \E v \in Choices(p) : Edit(p, v)
  \/ LoadFails \/ Load \/ Loaded \/ Check \/ Show
  \/ \E f \in todo : Merge(f) \/ MergeFails(f)
  \/ \E there \in Credentials : ApplyPlatform(there)
  \/ \E p \in AllPaths : Read(p)
  \/ SessionEnds

Spec == Init /\ [][Next]_vars

----------------------------------------------------------------------------
(* Properties *)

Values == {"ok", "bad", "true", "false", "openstack", "aws", Null}

\* The variables hold what their comments say; the text of the file never shows
\* that an entry has no value.
TypeOK ==
  /\ extra \in Extras
  /\ DOMAIN file \subseteq AllPaths
  /\ \A p \in DOMAIN file : file[p] \in Values \cup {"blank"}
  /\ edits \in 0 .. MaxEdits
  /\ sample \in {"none", "openstack", "aws"}
  /\ verdict \in {"none", "ok", "refused", "error"}
  /\ cmd \in Commands
  /\ pc \in {"idle", "load", "merge", "apply", "check", "show", "use"}
  /\ outcome \in {"none", "ok", "refused", "error"}
  /\ DOMAIN raw \subseteq AllPaths
  /\ \A p \in DOMAIN raw : raw[p] \in Values
  /\ todo \subseteq Repository \cup Extra(extra)
  /\ spaces \subseteq Namespaces
  /\ DOMAIN schema \subseteq AllPaths
  /\ got \in Values \cup {NotSet, "none", "error"}

Healthy == extra \in {"none", "second"}
Relevant == ForPlatform(Repository \cup Extra(extra), TargetPlatform)

\* Config.__init__: in whatever order the directory lists the files, what is
\* merged is every entry of every file, but for those of other platforms, and
\* no file with a fault is part of it.
MergedWhole ==
  pc \in {"apply", "check", "show", "use"} /\ extra # "clash" =>
    /\ \A f \in Relevant : f.described
    /\ schema = [p \in UNION {Paths(f) : f \in Relevant} |->
                   (CHOOSE f \in Relevant : p \in Paths(f)).entries[p[2]]]
    /\ spaces = Namespaces

\* A value that does for an entry.
Suits(e, v) ==
  /\ v \in Values
  /\ e.allowed # Anything => v \in e.allowed
  /\ v = Null => e.nullable

\* "Configuration entries that need to exist, but don't, meaning that you get
\* to wait 10 minutes for VMs" (config.py:56): whatever a session that has started
\* asks for is there, is among the values that the schema file allows for it, and
\* is null only if that file says that it may be.
TestsFindTheirSettings ==
  [][extra # "clash" =>
       \A f \in Repository : \A p \in Paths(f) : Read(p) => Suits(f.entries[p[2]], got')]_vars

\* The verdict on a file that nobody edits stays the same over commands and
\* directory orders: what validate accepts, the session accepts.
SameVerdict ==
  [][verdict # "none" /\ verdict' # "none" /\ extra # "clash" => verdict' = verdict]_vars

\* A generated file whose blanks have been filled in is accepted, for a
\* platform that gives no entry a default its own check refuses.
Consistent(platform) ==
  \A f \in Repository : f.ns = platform =>
    \A k \in DOMAIN f.entries : f.entries[k].default = Null => f.entries[k].nullable

SampleIsEnough ==
  sample # "none" /\ Consistent(sample) /\ Healthy
      /\ (\A p \in DOMAIN file : file[p] # "blank") => verdict \in {"none", "ok"}

\* "Basic configuration can be generated for your platform" (README.md:36): with
\* the credentials set, generate ends without an error for the platforms that
\* are allowed.
BasicConfigIsGenerated ==
  cmd.op = "generate" /\ cmd.platform \in {"openstack", "aws"} /\ Healthy
    => outcome \in {"none", "ok"}

=============================================================================
