------------------------ MODULE ConfigSchema_proofs ------------------------
(***************************************************************************)
(* Proofs about ConfigSchema, for any schema file being added, any          *)
(* platforms, credentials and number of edits, and every order of the       *)
(* schema files.                                                            *)
(***************************************************************************)
EXTENDS ConfigSchema, TLAPS

-----------------------------------------------------------------------------
(* The schema files.                                                        *)

\* All schema files, while one of this kind is being added.
Files(kind) == Repository \cup Extra(kind)
Kinds == {"none", "second", "undescribed", "hidden", "clash"}

\* A file of this namespace with these keys.
Has(f, ns, platform, described, keys) ==
  f.ns = ns /\ f.platform = platform /\ f.described = described /\ DOMAIN f.entries = keys

\* The entry of that key.
Is(f, k, default, allowed, nullable) ==
  /\ f.entries[k].default = default /\ f.entries[k].allowed = allowed
  /\ f.entries[k].nullable = nullable

\* What is written in the files, one line for a file and its two entries.
Form(f) ==
  \/ /\ Has(f, "root", FALSE, TRUE, {"target_platform", "testing_version"})
     /\ Is(f, "target_platform", "openstack", {"openstack", "aws"}, FALSE)
     /\ Is(f, "testing_version", "ok", {}, FALSE)
  \/ /\ Has(f, "infrastructure_manager", FALSE, TRUE, {"address", "ca_cert"})
     /\ Is(f, "address", "notset", {}, FALSE) /\ Is(f, "ca_cert", "null", {}, TRUE)
  \/ /\ Has(f, "teardown", FALSE, TRUE, {"on_success", "on_failure"})
     /\ Is(f, "on_success", "true", {"true", "false"}, FALSE)
     /\ Is(f, "on_failure", "ok", {}, FALSE)
  \/ /\ Has(f, "openstack", TRUE, TRUE, {"username", "rhel_username_override"})
     /\ Is(f, "username", "notset", {}, FALSE)
     /\ Is(f, "rhel_username_override", "null", {}, FALSE)
  \/ /\ Has(f, "aws", TRUE, TRUE, {"access_key_id", "region"})
     /\ Is(f, "access_key_id", "notset", {}, FALSE) /\ Is(f, "region", "ok", {}, FALSE)

ExtraForm(f) ==
  \/ Has(f, "infrastructure_manager", FALSE, TRUE, {"port"}) /\ Is(f, "port", "notset", {}, FALSE)
  \/ Has(f, "root", FALSE, FALSE, {"timeout"}) /\ Is(f, "timeout", "ok", {}, FALSE)
  \/ Has(f, "aws", TRUE, FALSE, {"zone"}) /\ Is(f, "zone", "ok", {}, FALSE)
  \/ Has(f, "root", FALSE, TRUE, {"teardown"}) /\ Is(f, "teardown", "ok", {}, FALSE)

\* The repository's files are written so.
LEMMA RepositoryForm ==
  ASSUME NEW f \in Repository
  PROVE  Form(f)
<1> USE DEF Form, Has, Is, File, PlatformFile, Root, Null, NotSet, Anything, Flags, Entry, Plain,
            Required, Optional
<1>1. CASE f = File(Root, [target_platform |-> Entry("openstack", {"openstack", "aws"}, FALSE),
                           testing_version |-> Plain])
  BY <1>1
<1>2. CASE f = File("infrastructure_manager", [address |-> Required, ca_cert |-> Optional])
  BY <1>2
<1>3. CASE f = File("teardown", [on_success |-> Entry("true", Flags, FALSE), on_failure |-> Plain])
  BY <1>3
<1>4. CASE f = PlatformFile("openstack", [username |-> Required,
                              rhel_username_override |-> Entry(Null, Anything, FALSE)])
  BY <1>4
<1>5. CASE f = PlatformFile("aws", [access_key_id |-> Required, region |-> Plain])
  BY <1>5
<1> HIDE DEF File, PlatformFile, Entry, Form
<1> QED  BY <1>1, <1>2, <1>3, <1>4, <1>5 DEF Repository

\* So is the file under development.
LEMMA ExtraFormed ==
  ASSUME NEW k \in Kinds, NEW f \in Extra(k)
  PROVE  /\ ExtraForm(f)
         /\ k # "clash" => f.ns # "root" \/ DOMAIN f.entries = {"timeout"}
         /\ k = "second" => f.described
<1> USE DEF ExtraForm, Has, Is, File, PlatformFile, Root, Null, NotSet, Anything, Flags, Entry,
            Plain, Required, Optional, Undescribed, Extra
<1>1. CASE k = "none"  BY <1>1
<1>2. CASE k = "second"  BY <1>2
<1>3. CASE k = "undescribed"  BY <1>3
<1>4. CASE k = "hidden"
  <2>1. f = [ns |-> "aws", platform |-> TRUE, described |-> FALSE,
             entries |-> [zone |-> Plain]]
    BY <1>4
  <2> QED  BY <1>4, <2>1
<1>5. CASE k = "clash"  BY <1>5
<1> QED  BY <1>1, <1>2, <1>3, <1>4, <1>5 DEF Kinds

\* Only one file of the repository is for a namespace, and one more is being added.
LEMMA OnePerNamespace ==
  /\ \A f, g \in Repository : f.ns = g.ns => f = g
  /\ \A k \in Kinds : \A f, g \in Extra(k) : f = g
<1>1. ASSUME NEW f \in Repository, NEW g \in Repository, f.ns = g.ns PROVE f = g
  <2>1. \A ns, entries : File(ns, entries).ns = ns /\ PlatformFile(ns, entries).ns = ns
    BY DEF File, PlatformFile
  <2> QED  BY <1>1, <2>1 DEF Repository, Root
<1>2. ASSUME NEW k \in Kinds, NEW f \in Extra(k), NEW g \in Extra(k) PROVE f = g
  BY <1>2 DEF Kinds, Extra
<1> QED  BY <1>1, <1>2

\* No two files have an entry in common.
LEMMA Disjoint ==
  ASSUME NEW k \in Kinds, NEW f \in Files(k), NEW g \in Files(k),
         NEW p \in Paths(f) \cap Paths(g)
  PROVE  f = g
<1>1. f.ns = g.ns /\ p[2] \in DOMAIN f.entries \cap DOMAIN g.entries
  BY DEF Paths
<1>2. CASE f \in Repository /\ g \in Repository  BY <1>1, <1>2, OnePerNamespace
<1>3. CASE f \in Extra(k) /\ g \in Extra(k)  BY <1>3, OnePerNamespace
<1>4. ASSUME NEW a \in Repository, NEW b \in Extra(k), a.ns = b.ns
      PROVE  DOMAIN a.entries \cap DOMAIN b.entries = {}
  <2>1. Form(a) /\ ExtraForm(b)  BY RepositoryForm, ExtraFormed
  <2> QED  BY <1>4, <2>1 DEF Form, ExtraForm, Has
<1> QED  BY <1>1, <1>2, <1>3, <1>4 DEF Files

\* The namespaces, each of which has a file.
LEMMA NamespaceNames ==
  /\ Namespaces = {"infrastructure_manager", "teardown", "openstack", "aws"}
  /\ \E f \in Repository : f.ns = Root /\ Target \in Paths(f)
<1>1. \A f \in Repository :
        f.ns \in {"root", "infrastructure_manager", "teardown", "openstack", "aws"}
  BY RepositoryForm DEF Form, Has
<1>2. \A n \in {"root", "infrastructure_manager", "teardown", "openstack", "aws"} :
        \E f \in Repository : f.ns = n
  <2>1. \A ns, entries : File(ns, entries).ns = ns /\ PlatformFile(ns, entries).ns = ns
    BY DEF File, PlatformFile
  <2> QED  BY <2>1 DEF Repository, Root
<1>3. PICK f \in Repository : f.ns = "root"  BY <1>2
<1>4. DOMAIN f.entries = {"target_platform", "testing_version"}
  BY <1>3, RepositoryForm DEF Form, Has
<1>5. Target \in Paths(f)  BY <1>3, <1>4 DEF Paths, Target, Root
<1> QED  BY <1>1, <1>2, <1>3, <1>5 DEF Namespaces, Root

\* What is in a file.
LEMMA FileFacts ==
  ASSUME NEW k \in Kinds, NEW f \in Files(k)
  PROVE  /\ f.ns \in Namespaces \cup {Root} /\ f.platform \in BOOLEAN
         /\ f.platform => f.ns \in {"openstack", "aws"}
         /\ f.described \in BOOLEAN /\ (k \in {"none", "second"} => f.described)
         /\ f.ns = Root => ~f.platform
         /\ f.ns = Root /\ k # "clash" => DOMAIN f.entries \cap (Namespaces \cup {Root}) = {}
         /\ k \in {"none", "second"} /\ f.platform => f \in Repository
<1>1. CASE f \in Repository
  <2>1. Form(f)  BY <1>1, RepositoryForm
  <2> QED  BY <1>1, <2>1, NamespaceNames DEF Form, Has, Root
<1>2. CASE f \in Extra(k)
  <2>1. k # "none"  BY <1>2 DEF Extra
  <2>2. ExtraForm(f)  BY <1>2, ExtraFormed
  <2>3. /\ f.ns \in {"infrastructure_manager", "root", "aws"} /\ f.platform \in BOOLEAN
        /\ f.platform <=> f.ns = "aws"
        /\ f.described \in BOOLEAN /\ (f.platform => ~f.described)
        /\ DOMAIN f.entries \in {{"port"}, {"timeout"}, {"zone"}, {"teardown"}}
    BY <2>2 DEF ExtraForm, Has
  <2>4. /\ k # "clash" => f.ns # "root" \/ DOMAIN f.entries = {"timeout"}
        /\ k = "second" => f.described
    BY <1>2, ExtraFormed
  <2>5. "timeout" \notin Namespaces \cup {Root}  BY NamespaceNames DEF Root
  <2> QED  BY <2>1, <2>3, <2>4, <2>5, NamespaceNames DEF Root
<1> QED  BY <1>1, <1>2 DEF Files

\* What an entry of it says.
LEMMA EntryFacts ==
  ASSUME NEW k \in Kinds, NEW f \in Files(k), NEW p \in Paths(f), NEW e, e = f.entries[p[2]]
  PROVE  /\ p[1] = f.ns /\ p[2] \in DOMAIN f.entries
         /\ e.default \in {"ok", NotSet, Null, "openstack", "true"}
         /\ e.allowed \in {Anything, {"openstack", "aws"}, Flags} /\ e.nullable \in BOOLEAN
         /\ e.allowed # Anything => e.default \in e.allowed /\ ~e.nullable
         /\ e.default = Null => e.nullable \/ f.platform
         /\ p = Target <=> e.allowed = {"openstack", "aws"}
         /\ p = <<"openstack", "username">> => e.allowed = Anything
<1>1. p[1] = f.ns /\ p[2] \in DOMAIN f.entries /\ p = <<p[1], p[2]>>
  BY DEF Paths
<1>2. Form(f) \/ ExtraForm(f)
  <2>1. CASE f \in Repository  BY <2>1, RepositoryForm
  <2>2. CASE f \in Extra(k)  BY <2>2, ExtraFormed
  <2> QED  BY <2>1, <2>2 DEF Files
<1> DEFINE Says(default, allowed, nullable) ==
             e.default = default /\ e.allowed = allowed /\ e.nullable = nullable
<1>3. \/ f.ns = "root" /\ p[2] = "target_platform" /\ Says("openstack", {"openstack", "aws"}, FALSE)
      \/ p[2] = "on_success" /\ Says("true", {"true", "false"}, FALSE)
      \/ p[2] # "target_platform" /\ Says("ok", {}, FALSE)
      \/ p[2] # "target_platform" /\ Says("notset", {}, FALSE)
      \/ p[2] # "target_platform" /\ Says("null", {}, TRUE)
      \/ p[2] # "target_platform" /\ Says("null", {}, FALSE) /\ f.platform
  <2>1. CASE Form(f)
    <3> USE DEF Form, Has, Is
    <3>1. CASE f.ns = "root"  BY <1>1, <2>1, <3>1
    <3>2. CASE f.ns = "infrastructure_manager"  BY <1>1, <2>1, <3>2
    <3>3. CASE f.ns = "teardown"  BY <1>1, <2>1, <3>3
    <3>4. CASE f.ns = "openstack"  BY <1>1, <2>1, <3>4
    <3>5. CASE f.ns = "aws"  BY <1>1, <2>1, <3>5
    <3> HIDE DEF Is
    <3> QED  BY <2>1, <3>1, <3>2, <3>3, <3>4, <3>5
  <2>2. CASE ExtraForm(f)  BY <1>1, <2>2 DEF ExtraForm, Has, Is
  <2> QED  BY <1>2, <2>1, <2>2
<1>4. {"openstack", "aws"} # {} /\ Flags # {} /\ {"openstack", "aws"} # Flags
  BY DEF Flags
<1>5. p = Target <=> p[1] = "root" /\ p[2] = "target_platform"
  BY <1>1 DEF Target, Root
<1>6. p = <<"openstack", "username">> => p[2] = "username"
  OBVIOUS
<1> QED  BY <1>1, <1>3, <1>4, <1>5, <1>6 DEF NotSet, Null, Anything, Flags

-----------------------------------------------------------------------------
(* What is merged.                                                          *)

\* The command has listed the schema files.
Working == {"merge", "apply", "check", "show", "use"}

\* The files it has merged.
Merged == Files(extra) \ todo

\* Between two commands, and before the files are listed, nothing is loaded.
ClearInv ==
  pc \in {"idle", "load"} =>
    raw = Nothing /\ todo = {} /\ spaces = {} /\ schema = Nothing

\* Every entry of the schema is one of a file that has been merged, as it is
\* there, and those of the root are never lost.
SchemaInv ==
  /\ schema = [p \in DOMAIN schema |-> schema[p]]
  /\ \A p \in DOMAIN schema :
       \E f \in Merged : Kept(f) /\ p \in Paths(f) /\ schema[p] = f.entries[p[2]]
  /\ pc \in Working => \A f \in Merged : f.ns = Root => Paths(f) \subseteq DOMAIN schema
  /\ pc \in Working \ {"merge"} => todo = {}

\* Where no entry has the name of a namespace, all of them are, and the files
\* that count are without fault.
MergedInv ==
  extra # "clash" /\ pc \in Working =>
    /\ spaces = {f.ns : f \in Merged} \ {Root}
    /\ \A f \in Merged : Kept(f) => f.described /\ Paths(f) \subseteq DOMAIN schema

\* What is set.
RawInv ==
  /\ cmd.op # "generate" => cmd.platform = "none"
  /\ pc = "apply" => cmd.platform # "none"
  /\ pc = "check" => ReadsFile \/ cmd.platform # "none"
  /\ pc = "use" => cmd.op = "test"
  /\ pc = "show" => ~ReadsFile /\ (cmd.platform # "none" => cmd.platform \in {"openstack", "aws"})
  /\ pc \in Working /\ ReadsFile => raw = Parsed(file) /\ file # Nothing
  /\ pc \in Working /\ ~ReadsFile /\ cmd.platform = "none" => raw = Nothing
  /\ pc \in Working /\ ~ReadsFile /\ cmd.platform # "none" =>
       /\ Target \in DOMAIN raw /\ raw[Target] = cmd.platform
       /\ DOMAIN raw \subseteq {Target, <<"openstack", "username">>}
       /\ <<"openstack", "username">> \in DOMAIN raw =>
            cmd.platform = "openstack" /\ raw[<<"openstack", "username">>] = "ok"

\* A value that is not allowed is one of an entry that has allowed values.
FileInv ==
  \A p \in DOMAIN file : file[p] = "bad" =>
    \E f \in Repository : p \in Paths(f) /\ f.entries[p[2]].allowed # Anything

-----------------------------------------------------------------------------
(* What a check says of a file.                                             *)

\* The platform the file is for, the schema files that count for it, the schema they
\* make and the value of an entry.
FileTarget == IF Target \in DOMAIN file THEN Parsed(file)[Target] ELSE "openstack"
FileRelevant == ForPlatform(Files(extra), FileTarget)
FileSchema ==
  [p \in UNION {Paths(f) : f \in FileRelevant} |->
     (CHOOSE f \in FileRelevant : p \in Paths(f)).entries[p[2]]]
FileValue(p) == IF p \in DOMAIN file THEN Parsed(file)[p] ELSE FileSchema[p].default

\* A value that does not do for an entry.
Wrong(e, v) ==
  v = NotSet \/ (e.allowed # Anything /\ v \notin e.allowed) \/ (v = Null /\ ~e.nullable)

\* The command fails over a namespace that is left without entries, or in the report
\* of an entry that is neither true nor false.
FileRaises ==
  \/ \E n \in Namespaces : <<Root, n>> \in DOMAIN file /\ Parsed(file)[<<Root, n>>] = Null
  \/ \E p \in DOMAIN FileSchema :
       /\ FileSchema[p].allowed = Flags /\ FileValue(p) # NotSet
       /\ FileValue(p) \notin Flags

\* The verdict, whatever the order of the files.
FileVerdict ==
  IF file = Nothing \/ (\E f \in FileRelevant : ~f.described) \/ FileRaises THEN "error"
  ELSE IF \E p \in DOMAIN FileSchema : Wrong(FileSchema[p], FileValue(p)) THEN "refused"
  ELSE "ok"

\* A verdict is that of the file, and a session runs on an accepted one.
VerdictInv ==
  extra # "clash" =>
    /\ verdict # "none" => verdict = FileVerdict
    /\ pc = "use" => FileVerdict = "ok"

\* A sample sets every entry of its platform that must be set, to what will do
\* once the blanks are filled in.
SampleInv ==
  sample # "none" /\ extra # "clash" =>
    /\ FileTarget = sample
    /\ DOMAIN file \subseteq UNION {Paths(f) : f \in FileRelevant}
    /\ \A f \in FileRelevant : f.described /\ \A p \in Paths(f) :
         LET e == f.entries[p[2]]
         IN  IF p \notin DOMAIN file THEN e.default # NotSet
             ELSE p # Target =>
               file[p] \in IF e.allowed = Anything THEN {e.default, "ok", "blank"} \ {NotSet}
                          ELSE {e.default}

-----------------------------------------------------------------------------
(* Helpers.                                                                 *)

\* A path has the value that was put over it, or the one it had.
LEMMA OverFacts ==
  ASSUME NEW a, NEW b
  PROVE  /\ DOMAIN Over(a, b) = DOMAIN a \cup DOMAIN b
         /\ \A p \in DOMAIN a : Over(a, b)[p] = a[p]
         /\ \A p \in DOMAIN b \ DOMAIN a : Over(a, b)[p] = b[p]
BY DEF Over

\* A single entry is that entry.
LEMMA SingleFacts ==
  ASSUME NEW p, NEW v
  PROVE  DOMAIN Single(p, v) = {p} /\ Single(p, v)[p] = v
BY DEF Single

\* Nothing has no entry.
LEMMA NothingFacts == DOMAIN Nothing = {}
BY DEF Nothing

\* The entries of a file, by path.
LEMMA KeyedFacts ==
  ASSUME NEW f
  PROVE  DOMAIN Keyed(f) = Paths(f) /\ \A p \in Paths(f) : Keyed(f)[p] = f.entries[p[2]]
BY DEF Keyed

\* YAML reads a blank as null and everything else as it stands.
LEMMA ParsedFacts ==
  ASSUME NEW text
  PROVE  /\ DOMAIN Parsed(text) = DOMAIN text
         /\ \A p \in DOMAIN text :
              Parsed(text)[p] = IF text[p] = "blank" THEN Null ELSE text[p]
BY DEF Parsed

\* What the end of a command leaves alone.
LEMMA EndFacts ==
  ASSUME NEW o, NEW output, End(o, output)
  PROVE  /\ pc' = "idle" /\ outcome' = o /\ got' = "none"
         /\ raw' = Nothing /\ todo' = {} /\ spaces' = {} /\ schema' = Nothing
         /\ UNCHANGED <<extra, edits, cmd>>
         /\ cmd.op = "generate" =>
              /\ file' = output /\ verdict' = "none"
              /\ sample' = IF o = "ok" THEN TargetPlatform ELSE "none"
         /\ cmd.op # "generate" =>
              /\ UNCHANGED <<file, sample>>
              /\ verdict' = IF ReadsFile /\ pc # "use" THEN o ELSE verdict
<1>1. CASE cmd.op = "generate"  BY <1>1 DEF End
<1>2. CASE cmd.op # "generate"  BY <1>2 DEF End
<1> QED  BY <1>1, <1>2

-----------------------------------------------------------------------------
(* The merge.                                                               *)

\* The file under development is of one of the kinds.
LEMMA Extending == TypeOK => extra \in Kinds /\ Files(extra) = Repository \cup Extra(extra)
BY ConfigAssumption DEF TypeOK, Kinds, Files

\* One more file merged.
LEMMA MergeFacts ==
  ASSUME TypeOK, NEW f \in todo, Merge(f)
  PROVE  /\ Merged' = Merged \cup {f} /\ f \in Files(extra) /\ f \notin Merged
         /\ \A g : Kept(g)' <=> Kept(g)
<1>1. todo' = todo \ {f} /\ extra' = extra /\ raw' = raw  BY DEF Merge
<1>2. f \in Files(extra) /\ todo \subseteq Files(extra)  BY Extending DEF TypeOK
<1>3. TargetPlatform' = TargetPlatform  BY <1>1 DEF TargetPlatform
<1> QED  BY <1>1, <1>2, <1>3 DEF Merged, Kept, Files

\* A merge adds the entries of its file where the file counts, and loses none at the root.
LEMMA SchemaMerge ==
  ASSUME TypeOK, SchemaInv, NEW f \in todo, Merge(f)
  PROVE  SchemaInv'
<1> DEFINE named == IF f.ns = Root THEN spaces \ DOMAIN f.entries ELSE spaces \cup {f.ns}
           merged == IF Kept(f) THEN Over(Keyed(f), schema) ELSE schema
<1>1. /\ pc = "merge" /\ pc' = pc
      /\ schema' = [p \in {q \in DOMAIN merged : q[1] \in named \cup {Root}} |-> merged[p]]
  BY DEF Merge
<1>2. \A p \in DOMAIN merged :
        \E g \in Merged \cup {f} : Kept(g) /\ p \in Paths(g) /\ merged[p] = g.entries[p[2]]
  <2>1. CASE Kept(f)
    <3>1. merged = Over(Keyed(f), schema)  BY <2>1
    <3> HIDE DEF merged
    <3>2. DOMAIN Keyed(f) = Paths(f) /\ \A p \in Paths(f) : Keyed(f)[p] = f.entries[p[2]]
      BY KeyedFacts
    <3>3. DOMAIN merged = Paths(f) \cup DOMAIN schema  BY <3>1, <3>2, OverFacts
    <3>4. ASSUME NEW p \in Paths(f) PROVE merged[p] = f.entries[p[2]]
      <4>1. Over(Keyed(f), schema)[p] = Keyed(f)[p]  BY <3>2 DEF Over
      <4> QED  BY <3>1, <3>2, <4>1
    <3>5. ASSUME NEW p \in DOMAIN schema \ Paths(f) PROVE merged[p] = schema[p]
      <4>1. Over(Keyed(f), schema)[p] = schema[p]  BY <3>2 DEF Over
      <4> QED  BY <3>1, <4>1
    <3> QED  BY <2>1, <3>3, <3>4, <3>5 DEF SchemaInv
  <2>2. CASE ~Kept(f)  BY <2>2 DEF SchemaInv
  <2> QED  BY <2>1, <2>2
<1>3. ASSUME NEW g \in Merged \cup {f}, g.ns = Root PROVE Paths(g) \subseteq DOMAIN merged
  <2>1. CASE g \in Merged
    <3>1. Paths(g) \subseteq DOMAIN schema  BY <1>1, <1>3, <2>1 DEF SchemaInv, Working
    <3> QED  BY <3>1, OverFacts
  <2>2. CASE g = f
    <3>1. Kept(f)  BY <1>3, <2>2, MergeFacts, FileFacts, Extending DEF Kept
    <3> QED  BY <2>2, <3>1, OverFacts, KeyedFacts
  <2> QED  BY <2>1, <2>2
<1>4. ASSUME NEW g, g.ns = Root, NEW p \in Paths(g) PROVE p[1] = Root
  BY <1>4 DEF Paths
<1> HIDE DEF merged, named
<1>5. /\ DOMAIN schema' = {q \in DOMAIN merged : q[1] \in named \cup {Root}}
      /\ \A p \in DOMAIN schema' : schema'[p] = merged[p]
      /\ schema' = [p \in DOMAIN schema' |-> schema'[p]]
  BY <1>1
<1>6. \A p \in DOMAIN schema' :
        \E g \in Merged' : Kept(g)' /\ p \in Paths(g) /\ schema'[p] = g.entries[p[2]]
  BY <1>2, <1>5, MergeFacts
<1>7. \A g \in Merged' : g.ns = Root => Paths(g) \subseteq DOMAIN schema'
  BY <1>3, <1>4, <1>5, MergeFacts
<1> QED  BY <1>1, <1>5, <1>6, <1>7 DEF SchemaInv

\* Where no entry has the name of a namespace it loses none at all.
LEMMA MergedMerge ==
  ASSUME TypeOK, MergedInv, NEW f \in todo, Merge(f)
  PROVE  MergedInv'
<1> SUFFICES ASSUME extra # "clash"
             PROVE  /\ spaces' = {g.ns : g \in Merged'} \ {Root}
                    /\ \A g \in Merged' :
                         Kept(g)' => g.described /\ Paths(g) \subseteq DOMAIN schema'
  BY DEF MergedInv, Merge
<1> DEFINE named == IF f.ns = Root THEN spaces \ DOMAIN f.entries ELSE spaces \cup {f.ns}
           merged == IF Kept(f) THEN Over(Keyed(f), schema) ELSE schema
<1>1. /\ pc = "merge" /\ Viable(f) /\ spaces' = named
      /\ schema' = [p \in {q \in DOMAIN merged : q[1] \in named \cup {Root}} |-> merged[p]]
  BY DEF Merge
<1>2. /\ spaces = {g.ns : g \in Merged} \ {Root}
      /\ \A g \in Merged : Kept(g) => g.described /\ Paths(g) \subseteq DOMAIN schema
  BY <1>1 DEF MergedInv, Working
<1>3. f.ns = Root => DOMAIN f.entries \cap Namespaces = {}
  BY MergeFacts, FileFacts, Extending
<1>4. named = {g.ns : g \in Merged \cup {f}} \ {Root}
  <2>1. CASE f.ns = Root
    <3>1. named = spaces  BY <1>3, <2>1 DEF TypeOK
    <3> QED  BY <1>2, <2>1, <3>1
  <2>2. CASE f.ns # Root  BY <1>2, <2>2
  <2> QED  BY <2>1, <2>2
<1>5. ASSUME NEW g \in Merged \cup {f}, Kept(g)
      PROVE  g.described /\ Paths(g) \subseteq DOMAIN merged
  <2>1. DOMAIN schema \subseteq DOMAIN merged  BY OverFacts
  <2>2. CASE g \in Merged
    <3>1. g.described /\ Paths(g) \subseteq DOMAIN schema  BY <1>2, <1>5, <2>2
    <3> QED  BY <2>1, <3>1
  <2>3. CASE g = f
    <3>1. f.described  BY <1>1, <1>5, <2>3 DEF Viable
    <3>2. Paths(f) \subseteq DOMAIN merged
      <4>1. merged = Over(Keyed(f), schema)  BY <1>5, <2>3
      <4>2. DOMAIN merged = DOMAIN Keyed(f) \cup DOMAIN schema  BY <4>1, OverFacts
      <4>3. DOMAIN Keyed(f) = Paths(f)  BY KeyedFacts
      <4> QED  BY <4>2, <4>3
    <3> QED  BY <2>3, <3>1, <3>2
  <2> QED  BY <2>2, <2>3
<1>6. \A g : \A p \in Paths(g) : p[1] = g.ns  BY DEF Paths
<1> HIDE DEF merged, named
<1>7. DOMAIN schema' = {q \in DOMAIN merged : q[1] \in named \cup {Root}}  BY <1>1
<1> QED  BY <1>1, <1>4, <1>5, <1>6, <1>7, MergeFacts

-----------------------------------------------------------------------------
(* The steps.                                                               *)

\* A command goes on without touching what is merged, its target or the file.
Advances ==
  /\ pc \in Working /\ pc' \in Working /\ (pc' # "merge" /\ pc = "merge" => todo = {})
  /\ pc' = "merge" => pc = "merge"
  /\ TargetPlatform' = TargetPlatform
  /\ raw' = raw \/ raw' = Over(Single(<<"openstack", "username">>, "ok"), raw)
  /\ UNCHANGED <<extra, file, edits, sample, cmd, todo, spaces, schema>>

\* OpenStack's username is not the target.
LEMMA ApplyFacts ==
  ASSUME NEW there, ApplyPlatform(there), ~(cmd.platform = "openstack" /\ ~there)
  PROVE  /\ pc = "apply" /\ pc' = "check"
         /\ cmd.platform = "openstack" =>
              raw' = Over(Single(<<"openstack", "username">>, "ok"), raw)
         /\ cmd.platform # "openstack" => raw' = raw
         /\ TargetPlatform' = TargetPlatform
         /\ UNCHANGED <<extra, file, edits, sample, verdict, cmd, outcome, todo, spaces,
                        schema, got>>
<1>1. /\ pc = "apply" /\ pc' = "check"
      /\ cmd.platform = "openstack" =>
           raw' = Over(Single(<<"openstack", "username">>, "ok"), raw)
      /\ cmd.platform # "openstack" => raw' = raw
      /\ UNCHANGED <<extra, file, edits, sample, verdict, cmd, outcome, todo, spaces,
                     schema, got>>
  <2>1. CASE cmd.platform = "openstack"  BY <2>1 DEF ApplyPlatform
  <2>2. CASE cmd.platform # "openstack"  BY <2>2 DEF ApplyPlatform
  <2> QED  BY <2>1, <2>2
<1>2. TargetPlatform' = TargetPlatform
  <2>1. CASE cmd.platform = "openstack"
    <3>1. Target # <<"openstack", "username">>  BY DEF Target, Root
    <3>2. /\ DOMAIN Single(<<"openstack", "username">>, "ok") = {<<"openstack", "username">>}
      BY SingleFacts
    <3>3. raw' = Over(Single(<<"openstack", "username">>, "ok"), raw)  BY <1>1, <2>1
    <3>4. /\ Target \in DOMAIN raw' <=> Target \in DOMAIN raw
          /\ Target \in DOMAIN raw => raw'[Target] = raw[Target]
      BY <3>1, <3>2, <3>3 DEF Over
    <3> QED  BY <3>4 DEF TargetPlatform
  <2>2. CASE cmd.platform # "openstack"  BY <1>1, <2>2 DEF TargetPlatform
  <2> QED  BY <2>1, <2>2
<1> QED  BY <1>1, <1>2

\* What a step does to what is loaded: nothing is loaded after it, the files are listed,
\* one is merged, or the command advances.
LEMMA Steps ==
  ASSUME TypeOK, ClearInv, [Next]_vars
  PROVE  \/ pc' \in {"idle", "load"} /\ ClearInv'
         \/ Load
         \/ \E f \in todo : Merge(f)
         \/ Advances
<1>1. ASSUME NEW c \in Commands, Start(c) PROVE pc' \in {"idle", "load"} /\ ClearInv'
  BY <1>1 DEF Start, ClearInv
<1>2. CASE FillBlanks  BY <1>2 DEF FillBlanks, ClearInv
<1>3. ASSUME NEW p \in AllPaths, NEW v \in Choices(p), Edit(p, v)
      PROVE  pc' \in {"idle", "load"} /\ ClearInv'
  BY <1>3 DEF Edit, ClearInv
<1>4. ASSUME NEW o, NEW output, End(o, output) PROVE pc' \in {"idle", "load"} /\ ClearInv'
  BY <1>4, EndFacts DEF ClearInv
<1>5. CASE LoadFails  BY <1>4, <1>5 DEF LoadFails
<1>6. CASE Loaded  BY <1>6 DEF Loaded, Advances, Working, TargetPlatform
<1>7. CASE Check
  <2>1. CASE Checked # "ok" \/ cmd.op = "validate"  BY <1>4, <1>7, <2>1 DEF Check
  <2>2. CASE ~(Checked # "ok" \/ cmd.op = "validate")
    BY <1>7, <2>2 DEF Check, Advances, Working, TargetPlatform
  <2> QED  BY <2>1, <2>2
<1>8. CASE Show  BY <1>4, <1>8 DEF Show
<1>9. ASSUME NEW f \in todo, MergeFails(f) PROVE pc' \in {"idle", "load"} /\ ClearInv'
  BY <1>4, <1>9 DEF MergeFails
<1>10. ASSUME NEW there \in Credentials, ApplyPlatform(there)
       PROVE  Advances \/ (pc' \in {"idle", "load"} /\ ClearInv')
  <2>1. CASE cmd.platform = "openstack" /\ ~there  BY <1>4, <1>10, <2>1 DEF ApplyPlatform
  <2>2. CASE ~(cmd.platform = "openstack" /\ ~there)
    <3>1. /\ pc = "apply" /\ pc' = "check" /\ TargetPlatform' = TargetPlatform
          /\ raw' = raw \/ raw' = Over(Single(<<"openstack", "username">>, "ok"), raw)
          /\ UNCHANGED <<extra, file, edits, sample, cmd, todo, spaces, schema>>
      BY <1>10, <2>2, ApplyFacts
    <3> QED  BY <3>1 DEF Advances, Working
  <2> QED  BY <2>1, <2>2
<1>11. ASSUME NEW p \in AllPaths, Read(p) PROVE Advances
  BY <1>11 DEF Read, Advances, Working, TargetPlatform
<1>12. CASE SessionEnds  BY <1>4, <1>12 DEF SessionEnds
<1>13. CASE UNCHANGED vars
  <2>1. CASE pc \in Working  BY <1>13, <2>1 DEF vars, Advances, TargetPlatform
  <2>2. CASE pc \notin Working  BY <1>13, <2>2 DEF vars, ClearInv, TypeOK, Working
  <2> QED  BY <2>1, <2>2
<1> QED
  BY <1>1, <1>2, <1>3, <1>5, <1>6, <1>7, <1>8, <1>9, <1>10, <1>11, <1>12, <1>13 DEF Next

\* The merge begins with nothing merged.
LEMMA LoadFacts ==
  ASSUME TypeOK, ClearInv, Load
  PROVE  /\ pc = "load" /\ pc' = "merge" /\ spaces' = {} /\ schema' = Nothing /\ Merged' = {}
         /\ UNCHANGED <<extra, file, edits, sample, verdict, cmd, outcome, got>>
BY Extending DEF Load, ClearInv, Merged, Files

\* Every step keeps the entries of the schema as they are in their files.
LEMMA SchemaStep ==
  ASSUME TypeOK, ClearInv, SchemaInv, [Next]_vars
  PROVE  SchemaInv'
<1>1. CASE pc' \in {"idle", "load"} /\ ClearInv'
  BY <1>1, NothingFacts DEF ClearInv, SchemaInv, Nothing, Working
<1>2. CASE Load
  BY <1>2, LoadFacts, NothingFacts DEF SchemaInv, Nothing
<1>3. CASE \E f \in todo : Merge(f)  BY <1>3, SchemaMerge
<1>4. CASE Advances
  <2>1. Merged' = Merged /\ \A g : Kept(g)' <=> Kept(g)
    BY <1>4 DEF Advances, Merged, Kept, Files
  <2> QED  BY <1>4, <2>1 DEF Advances, SchemaInv, Working
<1> QED  BY <1>1, <1>2, <1>3, <1>4, Steps

\* Every step keeps what is merged complete.
LEMMA MergedStep ==
  ASSUME TypeOK, ClearInv, MergedInv, [Next]_vars
  PROVE  MergedInv'
<1>1. CASE pc' \in {"idle", "load"}  BY <1>1 DEF MergedInv, Working
<1>2. CASE Load  BY <1>2, LoadFacts DEF MergedInv
<1>3. CASE \E f \in todo : Merge(f)  BY <1>3, MergedMerge
<1>4. CASE Advances
  <2>1. Merged' = Merged /\ \A g : Kept(g)' <=> Kept(g)
    BY <1>4 DEF Advances, Merged, Kept, Files
  <2> QED  BY <1>4, <2>1 DEF Advances, MergedInv
<1> QED  BY <1>1, <1>2, <1>3, <1>4, Steps

\* Every command ends with nothing loaded.
LEMMA ClearStep ==
  ASSUME TypeOK, ClearInv, [Next]_vars
  PROVE  ClearInv'
BY Steps, LoadFacts DEF ClearInv, Merge, Advances, Working

\* The schema has the entry for the target, with the platforms it may be.
LEMMA TargetEntry ==
  ASSUME TypeOK, SchemaInv, pc \in Working \ {"merge"}
  PROVE  Target \in DOMAIN schema /\ schema[Target].allowed = {"openstack", "aws"}
<1>1. PICK f \in Repository : f.ns = Root /\ Target \in Paths(f)  BY NamespaceNames
<1>2. f \in Merged  BY Extending DEF SchemaInv, Merged, Files
<1>3. Target \in DOMAIN schema  BY <1>1, <1>2 DEF SchemaInv
<1>4. PICK g \in Merged : Target \in Paths(g) /\ schema[Target] = g.entries[Target[2]]
  BY <1>3 DEF SchemaInv
<1>5. g \in Files(extra)  BY DEF Merged
<1>6. schema[Target].allowed = {"openstack", "aws"}  BY <1>4, <1>5, Extending, EntryFacts
<1> QED  BY <1>3, <1>6

\* What the entries of the schema say.
LEMMA SchemaEntries ==
  ASSUME TypeOK, SchemaInv, NEW p \in DOMAIN schema
  PROVE  /\ schema[p].default \in {"ok", NotSet, Null, "openstack", "true"}
         /\ schema[p].allowed \in {Anything, {"openstack", "aws"}, Flags}
         /\ schema[p].allowed # Anything => schema[p].default \in schema[p].allowed
<1>1. PICK f \in Merged : p \in Paths(f) /\ schema[p] = f.entries[p[2]]  BY DEF SchemaInv
<1>2. f \in Files(extra)  BY DEF Merged
<1>3. extra \in Kinds  BY Extending
<1> DEFINE e == f.entries[p[2]]
<1>4. /\ e.default \in {"ok", NotSet, Null, "openstack", "true"}
      /\ e.allowed \in {Anything, {"openstack", "aws"}, Flags}
      /\ e.allowed # Anything => e.default \in e.allowed
  BY <1>1, <1>2, <1>3, EntryFacts
<1> QED  BY <1>1, <1>4

\* Only generate has a platform.
LEMMA CommandFacts ==
  ASSUME NEW c \in Commands
  PROVE  /\ c.op \in {"validate", "schema", "test", "generate"}
         /\ c.op # "generate" => c.platform = "none"
         /\ c.platform \in {"openstack", "aws", "bad", "none"}
BY ConfigAssumption DEF Commands

\* Every step keeps what is set in accord with the command and the file.
LEMMA RawStep ==
  ASSUME TypeOK, ClearInv, SchemaInv, RawInv, [Next]_vars
  PROVE  RawInv'
<1>1. ASSUME NEW c \in Commands, Start(c) PROVE RawInv'
  BY <1>1, CommandFacts DEF Start, RawInv, Working
<1>2. CASE FillBlanks  BY <1>2 DEF FillBlanks, RawInv, Working
<1>3. ASSUME NEW p \in AllPaths, NEW v \in Choices(p), Edit(p, v) PROVE RawInv'
  <2>1. pc' = "idle" /\ cmd' = cmd  BY <1>3 DEF Edit
  <2> QED  BY <2>1 DEF RawInv, Working
<1>4. ASSUME NEW o, NEW output, End(o, output) PROVE RawInv'
  <2>1. pc' = "idle" /\ cmd' = cmd  BY <1>4, EndFacts
  <2> QED  BY <2>1 DEF RawInv, Working
<1>5. CASE LoadFails  BY <1>4, <1>5 DEF LoadFails
<1>6. CASE Load
  <2>1. /\ pc' = "merge" /\ UNCHANGED <<cmd, file>> /\ ~(ReadsFile /\ file = Nothing)
        /\ raw' = IF ReadsFile THEN Parsed(file)
                  ELSE IF cmd.platform # "none" THEN Single(Target, cmd.platform)
                  ELSE Nothing
    BY <1>6 DEF Load
  <2>2. cmd.op # "generate" => cmd.platform = "none"  BY DEF RawInv
  <2>3. ReadsFile' = ReadsFile  BY <2>1 DEF ReadsFile
  <2>4. CASE ReadsFile
    <3>1. raw' = Parsed(file)'  BY <2>1, <2>4 DEF Parsed
    <3> QED  BY <2>1, <2>2, <2>3, <2>4, <3>1 DEF RawInv
  <2>5. CASE ~ReadsFile /\ cmd.platform # "none"
    <3>1. raw' = Single(Target, cmd.platform)  BY <2>1, <2>5
    <3>2. Target # <<"openstack", "username">>  BY DEF Target, Root
    <3>3. DOMAIN raw' = {Target} /\ raw'[Target] = cmd.platform  BY <3>1, SingleFacts
    <3> QED  BY <2>1, <2>2, <2>3, <2>5, <3>2, <3>3 DEF RawInv
  <2>6. CASE ~ReadsFile /\ cmd.platform = "none"
    <3>1. raw' = Nothing'  BY <2>1, <2>6 DEF Nothing
    <3> QED  BY <2>1, <2>2, <2>3, <2>6, <3>1 DEF RawInv
  <2> QED  BY <2>4, <2>5, <2>6
<1>7. ASSUME NEW f \in todo, Merge(f) PROVE RawInv'
  BY <1>7 DEF Merge, RawInv, ReadsFile, Parsed, Nothing, Working
<1>8. ASSUME NEW f \in todo, MergeFails(f) PROVE RawInv'
  BY <1>4, <1>8 DEF MergeFails
<1>9. CASE Loaded
  <2>1. pc = "merge" /\ UNCHANGED <<raw, cmd, file>>  BY <1>9 DEF Loaded
  <2>2. CASE ReadsFile
    BY <1>9, <2>1, <2>2 DEF Loaded, RawInv, ReadsFile, Parsed, Nothing, Working
  <2>3. CASE ~ReadsFile /\ cmd.platform # "none"
    BY <1>9, <2>1, <2>3 DEF Loaded, RawInv, ReadsFile, Parsed, Nothing, Working
  <2>4. CASE ~ReadsFile /\ cmd.platform = "none"
    BY <1>9, <2>1, <2>4 DEF Loaded, RawInv, ReadsFile, Parsed, Nothing, Working
  <2> QED  BY <2>2, <2>3, <2>4
<1>10. ASSUME NEW there \in Credentials, ApplyPlatform(there) PROVE RawInv'
  <2>1. CASE cmd.platform = "openstack" /\ ~there  BY <1>4, <1>10, <2>1 DEF ApplyPlatform
  <2>2. CASE ~(cmd.platform = "openstack" /\ ~there)
    <3>1. /\ pc = "apply" /\ pc' = "check" /\ UNCHANGED <<cmd, file>>
          /\ cmd.platform = "openstack" =>
               raw' = Over(Single(<<"openstack", "username">>, "ok"), raw)
          /\ cmd.platform # "openstack" => raw' = raw
      BY <1>10, <2>2, ApplyFacts
    <3>2. cmd.platform # "none" /\ ~ReadsFile /\ ~ReadsFile'  BY <3>1 DEF RawInv, ReadsFile
    <3>3. /\ Target \in DOMAIN raw /\ raw[Target] = cmd.platform
          /\ DOMAIN raw \subseteq {Target, <<"openstack", "username">>}
      BY <3>1, <3>2 DEF RawInv, Working
    <3>4. CASE cmd.platform = "openstack"
      <4>1. raw' = Over(Single(<<"openstack", "username">>, "ok"), raw)  BY <3>1, <3>4
      <4>2. /\ DOMAIN Single(<<"openstack", "username">>, "ok") = {<<"openstack", "username">>}
            /\ Single(<<"openstack", "username">>, "ok")[<<"openstack", "username">>] = "ok"
        BY SingleFacts
      <4>3. Target # <<"openstack", "username">>  BY DEF Target, Root
      <4>4. /\ Target \in DOMAIN raw' /\ raw'[Target] = cmd.platform
            /\ DOMAIN raw' \subseteq {Target, <<"openstack", "username">>}
            /\ raw'[<<"openstack", "username">>] = "ok"
        BY <3>3, <4>1, <4>2, <4>3 DEF Over
      <4> QED  BY <3>1, <3>2, <3>4, <4>4 DEF RawInv
    <3>5. CASE cmd.platform # "openstack"
      BY <3>1, <3>2, <3>5 DEF RawInv, Working
    <3> QED  BY <3>4, <3>5
  <2> QED  BY <2>1, <2>2
<1>11. CASE Check
  <2>1. CASE Checked # "ok" \/ cmd.op = "validate"  BY <1>4, <1>11, <2>1 DEF Check
  <2>2. CASE ~(Checked # "ok" \/ cmd.op = "validate")
    <3>1. /\ pc = "check" /\ pc' = IF cmd.op = "test" THEN "use" ELSE "show"
          /\ UNCHANGED <<raw, cmd, file>>
      BY <1>11, <2>2 DEF Check
    <3>2. ASSUME cmd.op # "test", cmd.platform # "none"
          PROVE  cmd.platform \in {"openstack", "aws"}
      <4>1. ~ReadsFile  BY <3>2 DEF RawInv, ReadsFile
      <4>2. Value(Target) = cmd.platform
        BY <3>1, <3>2, <4>1 DEF RawInv, Working, Value
      <4>3. Target \in DOMAIN schema /\ schema[Target].allowed = {"openstack", "aws"}
        BY <3>1, TargetEntry DEF Working
      <4>4. ~NotAllowed(Target)  BY <2>2, <4>3 DEF Checked, Inspected
      <4>5. ~Missing(Target)  BY <4>1 DEF Missing
      <4> QED  BY <4>2, <4>3, <4>4, <4>5 DEF NotAllowed, Anything
    <3>3. cmd.op = "test" => pc' = "use"  BY <3>1
    <3>4. cmd.op # "test" => pc' = "show" /\ ~ReadsFile  BY <2>2, <3>1 DEF ReadsFile
    <3>5. UNCHANGED <<ReadsFile, Parsed(file), Nothing>>  BY <3>1 DEF ReadsFile, Parsed, Nothing
    <3>6. pc \in Working  BY <3>1 DEF Working
    <3> QED  BY <3>1, <3>2, <3>3, <3>4, <3>5, <3>6 DEF RawInv
  <2> QED  BY <2>1, <2>2
<1>12. CASE Show  BY <1>4, <1>12 DEF Show
<1>13. ASSUME NEW p \in AllPaths, Read(p) PROVE RawInv'
  BY <1>13 DEF Read, RawInv, ReadsFile, Parsed, Nothing, Working
<1>14. CASE SessionEnds  BY <1>4, <1>14 DEF SessionEnds
<1>15. CASE UNCHANGED vars
  BY <1>15 DEF vars, RawInv, ReadsFile, Parsed, Nothing, Working
<1> QED
  BY <1>1, <1>2, <1>3, <1>5, <1>6, <1>7, <1>8, <1>9, <1>10, <1>11, <1>12, <1>13, <1>14,
     <1>15 DEF Next

-----------------------------------------------------------------------------
(* The file.                                                                *)

\* What an operator may write.
LEMMA ChoiceFacts ==
  ASSUME NEW p, NEW v \in Choices(p)
  PROVE  /\ v \in Values \cup {"blank", "gone"}
         /\ v = "bad" => \E f \in Repository : p \in Paths(f) /\ f.entries[p[2]].allowed # Anything
<1> DEFINE allowed == UNION {Keyed(f)[p].allowed : f \in {g \in Repository : p \in Paths(g)}}
<1>1. v \in {"blank", "gone"} \cup (IF allowed = Anything THEN {"ok"} ELSE allowed \cup {"bad"})
  BY DEF Choices
<1>2. ASSUME NEW f \in Repository, p \in Paths(f)
      PROVE  /\ Keyed(f)[p].allowed = f.entries[p[2]].allowed
             /\ f.entries[p[2]].allowed \subseteq {"openstack", "aws", "true", "false"}
  <2>1. f \in Files("none") /\ "none" \in Kinds  BY DEF Files, Kinds
  <2>2. f.entries[p[2]].allowed \in {Anything, {"openstack", "aws"}, Flags}
    BY <1>2, <2>1, EntryFacts
  <2> QED  BY <1>2, <2>2, KeyedFacts DEF Anything, Flags
<1>3. allowed \subseteq {"openstack", "aws", "true", "false"}  BY <1>2
<1>4. ASSUME allowed # Anything
      PROVE  \E f \in Repository : p \in Paths(f) /\ f.entries[p[2]].allowed # Anything
  BY <1>2, <1>4 DEF Anything
<1> HIDE DEF allowed
<1> QED  BY <1>1, <1>3, <1>4 DEF Values

\* An edit changes at most the entry it is of.
LEMMA EditFacts ==
  ASSUME NEW p \in AllPaths, NEW v \in Choices(p), Edit(p, v), NEW q \in DOMAIN file'
  PROVE  \/ q \in DOMAIN file /\ file'[q] = file[q]
         \/ q = p /\ file'[q] \in {v, "blank"} /\ file'[q] # "gone"
<1>1. CASE v = "gone"
  BY <1>1 DEF Edit
<1>2. ASSUME v # "gone", NEW w, NEW old,
             file' = Over(Single(p, w), old), w \in {v, "blank"},
             \A r \in DOMAIN old : r \in DOMAIN file /\ old[r] = file[r]
      PROVE  \/ q \in DOMAIN file /\ file'[q] = file[q]
             \/ q = p /\ file'[q] \in {v, "blank"} /\ file'[q] # "gone"
  <2>1. DOMAIN Single(p, w) = {p} /\ Single(p, w)[p] = w  BY SingleFacts
  <2>2. w # "gone"  BY <1>2
  <2>3. CASE q = p
    <3>1. file'[q] = w  BY <1>2, <2>1, <2>3 DEF Over
    <3> QED  BY <1>2, <2>2, <2>3, <3>1
  <2>4. CASE q # p
    <3>1. q \in DOMAIN old /\ file'[q] = old[q]  BY <1>2, <2>1, <2>4 DEF Over
    <3> QED  BY <1>2, <3>1
  <2> QED  BY <2>3, <2>4
<1>3. CASE v # "gone" /\ p \in {<<Root, n>> : n \in Namespaces}
  <2>1. file' = Over(Single(p, "blank"), [r \in {s \in DOMAIN file : s[1] # p[2]} |-> file[r]])
    BY <1>3 DEF Edit
  <2> QED  BY <1>2, <1>3, <2>1
<1>4. CASE v # "gone" /\ p \notin {<<Root, n>> : n \in Namespaces}
  <2>1. file' = Over(Single(p, v), [r \in DOMAIN file \ {<<Root, p[1]>>} |-> file[r]])
    BY <1>4 DEF Edit
  <2> QED  BY <1>2, <1>4, <2>1
<1> QED  BY <1>1, <1>3, <1>4

\* What generate prints.
LEMMA GeneratedFacts ==
  ASSUME TypeOK, SchemaInv, RawInv, pc = "show"
  PROVE  /\ DOMAIN Generated = {q \in DOMAIN schema : Shown(q)}
         /\ \A p \in DOMAIN Generated :
              /\ Generated[p] = IF Value(p) = NotSet THEN "blank" ELSE Value(p)
              /\ Generated[p] \in (Values \cup {"blank"}) \ {"bad"}
<1>1. ASSUME NEW p \in DOMAIN schema PROVE Value(p) \in (Values \cup {NotSet}) \ {"bad"}
  <2>1. pc \in Working /\ ~ReadsFile  BY DEF RawInv, Working
  <2>2. CASE p \in DOMAIN raw
    <3>1. cmd.platform # "none"  BY <2>1, <2>2, NothingFacts DEF RawInv
    <3>2. raw[p] \in {"openstack", "aws", "ok"}  BY <2>1, <2>2, <3>1 DEF RawInv
    <3> QED  BY <2>2, <3>2 DEF Value, Values
  <2>3. CASE p \notin DOMAIN raw
    <3>1. Value(p) \in {"ok", NotSet, Null, "openstack", "true"}
      BY <2>3, SchemaEntries DEF Value
    <3> QED  BY <3>1 DEF Values, NotSet, Null
  <2> QED  BY <2>2, <2>3
<1>2. DOMAIN Generated = {q \in DOMAIN schema : Shown(q)}  BY DEF Generated
<1>3. \A p \in DOMAIN Generated : Generated[p] = IF Value(p) = NotSet THEN "blank" ELSE Value(p)
  BY <1>2 DEF Generated
<1> QED  BY <1>1, <1>2, <1>3

\* Only an edit, the blanks filled in and a sample change the file.
LEMMA FileSteps ==
  ASSUME TypeOK, RawInv, [Next]_vars
  PROVE  \/ UNCHANGED <<file, sample>>
         \/ FillBlanks
         \/ \E p \in AllPaths : \E v \in Choices(p) : Edit(p, v)
         \/ file' = Nothing /\ sample' = "none"
         \/ Show /\ file' = Generated /\ sample' = TargetPlatform
<1>1. ASSUME NEW o, NEW output, End(o, output)
      PROVE  \/ UNCHANGED <<file, sample>>
             \/ file' = output /\ sample' = IF o = "ok" THEN TargetPlatform ELSE "none"
  BY <1>1, EndFacts
<1>2. CASE LoadFails
  BY <1>1, <1>2 DEF LoadFails
<1>3. ASSUME NEW f \in todo, MergeFails(f)
      PROVE  UNCHANGED <<file, sample>> \/ (file' = Nothing /\ sample' = "none")
  BY <1>1, <1>3 DEF MergeFails
<1>4. ASSUME NEW there \in Credentials, ApplyPlatform(there)
      PROVE  UNCHANGED <<file, sample>> \/ (file' = Nothing /\ sample' = "none")
  <2>1. CASE cmd.platform = "openstack" /\ ~there  BY <1>1, <1>4, <2>1 DEF ApplyPlatform
  <2>2. CASE ~(cmd.platform = "openstack" /\ ~there)  BY <1>4, <2>2, ApplyFacts
  <2> QED  BY <2>1, <2>2
<1>5. CASE Check
  <2>1. CASE ~(Checked # "ok" \/ cmd.op = "validate")  BY <1>5, <2>1 DEF Check
  <2>2. CASE Checked # "ok"  BY <1>1, <1>5, <2>2 DEF Check
  <2>3. CASE cmd.op = "validate"
    <3>1. End(Checked, Nothing) /\ cmd.op # "generate"  BY <1>5, <2>3 DEF Check
    <3> QED  BY <3>1, EndFacts
  <2> QED  BY <2>1, <2>2, <2>3
<1>6. CASE Show
  BY <1>1, <1>6 DEF Show
<1>7. CASE SessionEnds
  <2>1. End("ok", Nothing) /\ cmd.op # "generate"  BY <1>7 DEF SessionEnds, RawInv
  <2> QED  BY <2>1, EndFacts
<1>8. ASSUME NEW c \in Commands, Start(c) PROVE UNCHANGED <<file, sample>>  BY <1>8 DEF Start
<1>9. CASE Load \/ Loaded  BY <1>9 DEF Load, Loaded
<1>10. ASSUME NEW f \in todo, Merge(f) PROVE UNCHANGED <<file, sample>>  BY <1>10 DEF Merge
<1>11. ASSUME NEW p \in AllPaths, Read(p) PROVE UNCHANGED <<file, sample>>  BY <1>11 DEF Read
<1>12. CASE UNCHANGED vars  BY <1>12 DEF vars
<1> QED
  BY <1>2, <1>3, <1>4, <1>5, <1>6, <1>7, <1>8, <1>9, <1>10, <1>11, <1>12 DEF Next

\* No step writes a value that is not allowed where every value is.
LEMMA FileStep ==
  ASSUME TypeOK, SchemaInv, RawInv, FileInv, [Next]_vars
  PROVE  FileInv'
<1>1. CASE FillBlanks  BY <1>1 DEF FillBlanks, FileInv
<1>2. ASSUME NEW p \in AllPaths, NEW v \in Choices(p), Edit(p, v) PROVE FileInv'
  BY <1>2, EditFacts, ChoiceFacts DEF FileInv
<1>3. CASE file' = Nothing  BY <1>3, NothingFacts DEF FileInv
<1>4. CASE Show /\ file' = Generated
  <2>1. \A p \in DOMAIN Generated : Generated[p] # "bad"  BY <1>4, GeneratedFacts DEF Show
  <2> QED  BY <1>4, <2>1 DEF FileInv
<1> QED  BY <1>1, <1>2, <1>3, <1>4, FileSteps DEF FileInv

-----------------------------------------------------------------------------
(* Type correctness.                                                        *)

\* The file and the sample.
FileType ==
  /\ DOMAIN file \subseteq AllPaths
  /\ \A p \in DOMAIN file : file[p] \in Values \cup {"blank"}
  /\ sample \in {"none", "openstack", "aws"}

\* What a command has loaded.
LoadedType ==
  /\ extra \in Extras
  /\ DOMAIN raw \subseteq AllPaths
  /\ \A p \in DOMAIN raw : raw[p] \in Values
  /\ todo \subseteq Repository \cup Extra(extra)
  /\ spaces \subseteq Namespaces
  /\ DOMAIN schema \subseteq AllPaths

\* The commands, their outcomes and verdicts, and what a test has read.
ControlType ==
  /\ edits \in 0 .. MaxEdits
  /\ verdict \in {"none", "ok", "refused", "error"}
  /\ cmd \in Commands
  /\ pc \in {"idle", "load", "merge", "apply", "check", "show", "use"}
  /\ outcome \in {"none", "ok", "refused", "error"}
  /\ got \in Values \cup {NotSet, "none", "error"}

\* TypeOK, in three parts.
LEMMA Types == TypeOK <=> FileType /\ LoadedType /\ ControlType
BY DEF TypeOK, FileType, LoadedType, ControlType

\* The paths that there are.
LEMMA PathFacts ==
  /\ Target \in AllPaths /\ <<"openstack", "username">> \in AllPaths
  /\ \A k \in Extras : \A f \in Files(k) : Paths(f) \subseteq AllPaths
<1>1. \A f \in Repository : Paths(f) \subseteq AllPaths  BY DEF AllPaths
<1>2. \A k \in Extras : \A f \in Extra(k) : Paths(f) \subseteq AllPaths  BY DEF AllPaths
<1>3. Target \in AllPaths  BY <1>1, NamespaceNames
<1>4. PICK f \in Repository : f.ns = "openstack"
  BY NamespaceNames DEF Namespaces
<1>5. DOMAIN f.entries = {"username", "rhel_username_override"}
  BY <1>4, RepositoryForm DEF Form, Has
<1>6. <<"openstack", "username">> \in Paths(f)  BY <1>4, <1>5 DEF Paths
<1> QED  BY <1>1, <1>2, <1>3, <1>6 DEF Files

\* A sample is for a platform that is allowed.
LEMMA ShownTarget ==
  ASSUME RawInv, pc = "show"
  PROVE  TargetPlatform \in {"openstack", "aws"}
<1>1. pc \in Working /\ ~ReadsFile  BY DEF RawInv, Working
<1>2. CASE cmd.platform = "none"
  <2>1. raw = Nothing  BY <1>1, <1>2 DEF RawInv
  <2> QED  BY <2>1, NothingFacts DEF TargetPlatform
<1>3. CASE cmd.platform # "none"
  BY <1>1, <1>3 DEF RawInv, TargetPlatform
<1> QED  BY <1>2, <1>3

\* The file keeps its type.
LEMMA FileTypeStep ==
  ASSUME TypeOK, SchemaInv, RawInv, [Next]_vars
  PROVE  FileType'
<1>1. CASE UNCHANGED <<file, sample>>  BY <1>1, Types DEF FileType
<1>2. CASE FillBlanks  BY <1>2, Types DEF FillBlanks, FileType, Values
<1>3. ASSUME NEW p \in AllPaths, NEW v \in Choices(p), Edit(p, v) PROVE FileType'
  <2>1. v \in Values \cup {"blank", "gone"}  BY ChoiceFacts
  <2>2. \A q \in DOMAIN file' : q \in AllPaths /\ file'[q] \in Values \cup {"blank"}
    BY <1>3, <2>1, EditFacts, Types DEF FileType
  <2>3. sample' = "none"  BY <1>3 DEF Edit
  <2> QED  BY <2>2, <2>3 DEF FileType
<1>4. CASE file' = Nothing /\ sample' = "none"  BY <1>4, NothingFacts DEF FileType
<1>5. CASE Show /\ file' = Generated /\ sample' = TargetPlatform
  <2>1. pc = "show"  BY <1>5 DEF Show
  <2>2. DOMAIN Generated \subseteq AllPaths  BY <2>1, GeneratedFacts, Types DEF LoadedType
  <2> QED  BY <1>5, <2>1, <2>2, GeneratedFacts, ShownTarget DEF FileType
<1> QED  BY <1>1, <1>2, <1>3, <1>4, <1>5, FileSteps

\* What is loaded keeps its type.
LEMMA LoadedTypeStep ==
  ASSUME TypeOK, ClearInv, SchemaInv, [Next]_vars
  PROVE  LoadedType'
<1> USE Types
<1>1. CASE pc' \in {"idle", "load"} /\ ClearInv'
  <2>1. extra' = extra
    BY EndFacts DEF Next, Start, FillBlanks, Edit, LoadFails, Load, Loaded, Check, Show, Merge,
       MergeFails, ApplyPlatform, Read, SessionEnds, vars
  <2> QED  BY <1>1, <2>1, NothingFacts DEF LoadedType, ClearInv
<1>2. CASE Load
  <2>1. DOMAIN raw' \subseteq AllPaths /\ \A p \in DOMAIN raw' : raw'[p] \in Values
    <3>1. CASE ReadsFile
      <4>1. raw' = Parsed(file)  BY <1>2, <3>1 DEF Load
      <4> QED  BY <4>1, ParsedFacts DEF FileType, Values
    <3>2. CASE ~ReadsFile /\ cmd.platform # "none"
      <4>1. raw' = Single(Target, cmd.platform)  BY <1>2, <3>2 DEF Load
      <4>2. cmd.platform \in Values  BY <3>2, CommandFacts DEF ControlType, Values
      <4>3. DOMAIN raw' = {Target} /\ raw'[Target] = cmd.platform  BY <4>1, SingleFacts
      <4> QED  BY <4>2, <4>3, PathFacts
    <3>3. CASE ~ReadsFile /\ cmd.platform = "none"
      <4>1. raw' = Nothing  BY <1>2, <3>3 DEF Load
      <4> QED  BY <4>1, NothingFacts
    <3> QED  BY <3>1, <3>2, <3>3
  <2>2. extra' = extra /\ todo' = Repository \cup Extra(extra)  BY <1>2 DEF Load
  <2>3. spaces' = {} /\ schema' = Nothing  BY <1>2, LoadFacts
  <2> QED  BY <2>1, <2>2, <2>3, NothingFacts DEF LoadedType
<1>3. ASSUME NEW f \in todo, Merge(f) PROVE LoadedType'
  <2>1. UNCHANGED <<extra, raw>> /\ todo' = todo \ {f}
        /\ spaces' = IF f.ns = Root THEN spaces \ DOMAIN f.entries ELSE spaces \cup {f.ns}
    BY <1>3 DEF Merge
  <2>2. f.ns \in Namespaces \cup {Root}  BY <1>3, MergeFacts, FileFacts, Extending
  <2>3. spaces' \subseteq Namespaces  BY <2>1, <2>2 DEF LoadedType
  <2>4. DOMAIN schema' \subseteq AllPaths
    <3>1. SchemaInv'  BY <1>3, SchemaMerge
    <3>2. ASSUME NEW p \in DOMAIN schema' PROVE p \in AllPaths
      <4>1. PICK g \in Merged' : p \in Paths(g)  BY <3>1 DEF SchemaInv
      <4>2. g \in Files(extra)  BY <2>1, <4>1 DEF Merged, Files
      <4> QED  BY <4>1, <4>2, PathFacts DEF LoadedType
    <3> QED  BY <3>2
  <2> QED  BY <2>1, <2>3, <2>4 DEF LoadedType
<1>4. CASE Advances
  <2>1. UNCHANGED <<extra, todo, spaces, schema>>  BY <1>4 DEF Advances
  <2>2. CASE raw' = raw  BY <2>1, <2>2 DEF LoadedType
  <2>3. CASE raw' = Over(Single(<<"openstack", "username">>, "ok"), raw)
    <3>1. /\ DOMAIN Single(<<"openstack", "username">>, "ok") = {<<"openstack", "username">>}
          /\ Single(<<"openstack", "username">>, "ok")[<<"openstack", "username">>] = "ok"
      BY SingleFacts
    <3>2. DOMAIN raw' \subseteq AllPaths  BY <2>3, <3>1, OverFacts, PathFacts DEF LoadedType
    <3>3. \A p \in DOMAIN raw' : raw'[p] \in Values
      BY <2>3, <3>1 DEF Over, LoadedType, Values
    <3> QED  BY <2>1, <3>2, <3>3 DEF LoadedType
  <2> QED  BY <1>4, <2>2, <2>3 DEF Advances
<1> QED  BY <1>1, <1>2, <1>3, <1>4, Steps

\* The commands keep their types.
LEMMA ControlTypeStep ==
  ASSUME TypeOK, SchemaInv, [Next]_vars
  PROVE  ControlType'
<1> USE Types
<1>1. ASSUME NEW c \in Commands, Start(c) PROVE ControlType'
  BY <1>1 DEF Start, ControlType
<1>2. CASE FillBlanks  BY <1>2 DEF FillBlanks, ControlType
<1>3. ASSUME NEW p \in AllPaths, NEW v \in Choices(p), Edit(p, v) PROVE ControlType'
  BY <1>3, ConfigAssumption DEF Edit, ControlType
<1>4. ASSUME NEW o \in {"ok", "refused", "error"}, NEW output, End(o, output) PROVE ControlType'
  BY <1>4, EndFacts DEF ControlType
<1>5. CASE LoadFails  BY <1>4, <1>5 DEF LoadFails
<1>6. CASE Load \/ Loaded  BY <1>6 DEF Load, Loaded, ControlType
<1>7. CASE Check
  <2>1. Checked \in {"ok", "refused", "error"}  BY DEF Checked
  <2>2. CASE Checked # "ok" \/ cmd.op = "validate"  BY <1>4, <1>7, <2>1, <2>2 DEF Check
  <2>3. CASE ~(Checked # "ok" \/ cmd.op = "validate")
    BY <1>7, <2>3 DEF Check, ControlType
  <2> QED  BY <2>2, <2>3
<1>8. CASE Show  BY <1>4, <1>8 DEF Show
<1>9. ASSUME NEW f \in todo, Merge(f) PROVE ControlType'
  BY <1>9 DEF Merge, ControlType
<1>10. ASSUME NEW f \in todo, MergeFails(f) PROVE ControlType'
  BY <1>4, <1>10 DEF MergeFails
<1>11. ASSUME NEW there \in Credentials, ApplyPlatform(there) PROVE ControlType'
  <2>1. CASE cmd.platform = "openstack" /\ ~there  BY <1>4, <1>11, <2>1 DEF ApplyPlatform
  <2>2. CASE ~(cmd.platform = "openstack" /\ ~there)
    BY <1>11, <2>2, ApplyFacts DEF ControlType
  <2> QED  BY <2>1, <2>2
<1>12. ASSUME NEW p \in AllPaths, Read(p) PROVE ControlType'
  <2>1. got' \in Values \cup {NotSet, "none", "error"}
    <3>1. CASE p \notin DOMAIN schema  BY <1>12, <3>1 DEF Read
    <3>2. CASE p \in DOMAIN raw /\ p \in DOMAIN schema
      BY <1>12, <3>2 DEF Read, Value, LoadedType
    <3>3. CASE p \notin DOMAIN raw /\ p \in DOMAIN schema
      <4>1. got' = schema[p].default  BY <1>12, <3>3 DEF Read, Value
      <4> QED  BY <3>3, <4>1, SchemaEntries DEF Values
    <3> QED  BY <3>1, <3>2, <3>3
  <2> QED  BY <1>12, <2>1 DEF Read, ControlType
<1>13. CASE SessionEnds  BY <1>4, <1>13 DEF SessionEnds
<1>14. CASE UNCHANGED vars  BY <1>14 DEF vars, ControlType
<1> QED
  BY <1>1, <1>2, <1>3, <1>5, <1>6, <1>7, <1>8, <1>9, <1>10, <1>11, <1>12, <1>13, <1>14
  DEF Next

-----------------------------------------------------------------------------
(* The schema that a command works with.                                    *)

\* The schema of a command is MergedWhole's.
LEMMA Whole == TypeOK /\ SchemaInv /\ MergedInv => MergedWhole
<1> SUFFICES ASSUME TypeOK, SchemaInv, MergedInv, pc \in {"apply", "check", "show", "use"},
                    extra # "clash"
             PROVE  /\ \A f \in Relevant : f.described
                    /\ schema = [p \in UNION {Paths(f) : f \in Relevant} |->
                                   (CHOOSE f \in Relevant : p \in Paths(f)).entries[p[2]]]
                    /\ spaces = Namespaces
  BY DEF MergedWhole
<1>1. Merged = Files(extra) /\ extra \in Kinds
  BY Extending DEF Merged, SchemaInv, Working, Files
<1>2. \A f : f \in Relevant <=> f \in Files(extra) /\ Kept(f)
  BY <1>1, FileFacts DEF Relevant, ForPlatform, Kept, Files
<1>3. \A f \in Relevant : f.described /\ Paths(f) \subseteq DOMAIN schema
  BY <1>1, <1>2 DEF MergedInv, Working
<1>4. \A p \in DOMAIN schema : \E f \in Relevant : p \in Paths(f) /\ schema[p] = f.entries[p[2]]
  BY <1>1, <1>2 DEF SchemaInv
<1>5. DOMAIN schema = UNION {Paths(f) : f \in Relevant}  BY <1>3, <1>4
<1>6. ASSUME NEW p \in DOMAIN schema
      PROVE  schema[p] = (CHOOSE f \in Relevant : p \in Paths(f)).entries[p[2]]
  <2>1. PICK f \in Relevant : p \in Paths(f) /\ schema[p] = f.entries[p[2]]  BY <1>4
  <2>2. PICK g \in Relevant : p \in Paths(g) /\ g = CHOOSE h \in Relevant : p \in Paths(h)
    BY <2>1
  <2>3. f = g  BY <1>1, <1>2, <2>1, <2>2, Disjoint
  <2> QED  BY <2>1, <2>2, <2>3
<1>7. schema = [p \in DOMAIN schema |-> schema[p]]  BY DEF SchemaInv
<1>8. spaces = Namespaces
  <2>1. spaces = {f.ns : f \in Files(extra)} \ {Root}  BY <1>1 DEF MergedInv, Working
  <2>2. \A f \in Files(extra) : f.ns \in Namespaces \cup {Root}  BY <1>1, FileFacts
  <2>3. \A n \in Namespaces : n # Root /\ \E f \in Files(extra) : f.ns = n
    BY DEF Namespaces, Files
  <2> QED  BY <2>1, <2>2, <2>3
<1> QED  BY <1>3, <1>5, <1>6, <1>7, <1>8

\* What the file's schema says of an entry.
LEMMA FileSchemaFacts ==
  ASSUME extra \in Kinds
  PROVE  /\ DOMAIN FileSchema = UNION {Paths(f) : f \in FileRelevant}
         /\ \A f \in FileRelevant : f \in Files(extra) /\ (f.platform => f.ns = FileTarget)
         /\ \A f \in FileRelevant : \A p \in Paths(f) : FileSchema[p] = f.entries[p[2]]
<1>1. \A f \in FileRelevant : f \in Files(extra) /\ (f.platform => f.ns = FileTarget)
  BY DEF FileRelevant, ForPlatform
<1>2. DOMAIN FileSchema = UNION {Paths(f) : f \in FileRelevant}  BY DEF FileSchema
<1>3. ASSUME NEW f \in FileRelevant, NEW p \in Paths(f) PROVE FileSchema[p] = f.entries[p[2]]
  <2>1. PICK g \in FileRelevant : p \in Paths(g) /\ g = CHOOSE h \in FileRelevant : p \in Paths(h)
    BY <1>3
  <2>2. f = g  BY <1>1, <1>3, <2>1, Disjoint
  <2>3. FileSchema[p] = g.entries[p[2]]  BY <1>2, <1>3, <2>1 DEF FileSchema
  <2> QED  BY <2>2, <2>3
<1> QED  BY <1>1, <1>2, <1>3

\* A command that reads the file has the file's schema.
LEMMA Reading ==
  ASSUME TypeOK, SchemaInv, MergedInv, RawInv, pc \in {"check", "use"}, ReadsFile,
         extra # "clash"
  PROVE  /\ raw = Parsed(file) /\ file # Nothing /\ TargetPlatform = FileTarget
         /\ Relevant = FileRelevant /\ schema = FileSchema /\ spaces = Namespaces
         /\ \A p : Value(p) = FileValue(p)
         /\ \A f \in FileRelevant : f.described
<1>1. raw = Parsed(file) /\ file # Nothing  BY DEF RawInv, Working
<1>2. TargetPlatform = FileTarget  BY <1>1, ParsedFacts DEF TargetPlatform, FileTarget
<1>3. Relevant = FileRelevant  BY <1>2 DEF Relevant, FileRelevant, Files
<1>4. MergedWhole  BY Whole
<1>5. /\ schema = FileSchema /\ spaces = Namespaces
      /\ \A f \in FileRelevant : f.described
  BY <1>3, <1>4 DEF MergedWhole, FileSchema
<1>6. \A p : Value(p) = FileValue(p)  BY <1>1, <1>5, ParsedFacts DEF Value, FileValue
<1> QED  BY <1>1, <1>2, <1>3, <1>5, <1>6

\* A command that checks the file comes to the verdict that is worked out from it.
LEMMA CheckedVerdict ==
  ASSUME TypeOK, SchemaInv, MergedInv, RawInv, pc = "check", ReadsFile, extra # "clash"
  PROVE  Checked = FileVerdict
<1>1. /\ raw = Parsed(file) /\ file # Nothing /\ schema = FileSchema /\ spaces = Namespaces
      /\ \A p : Value(p) = FileValue(p)
      /\ \A f \in FileRelevant : f.described
  BY Reading
<1>2. \A p : Missing(p) <=> FileValue(p) = NotSet  BY <1>1 DEF Missing
<1>3. \A p : NotAllowed(p) <=> /\ FileValue(p) # NotSet /\ FileSchema[p].allowed # Anything
                               /\ FileValue(p) \notin FileSchema[p].allowed
  BY <1>1, <1>2 DEF NotAllowed
<1>4. \A p : Nulled(p) <=> /\ FileValue(p) # NotSet /\ FileValue(p) = Null
                           /\ ~FileSchema[p].nullable
  BY <1>1, <1>2 DEF Nulled
<1>5. \A p : Missing(p) \/ NotAllowed(p) \/ Nulled(p) <=> Wrong(FileSchema[p], FileValue(p))
  BY <1>2, <1>3, <1>4 DEF Wrong
<1>6. Flags # Anything  BY DEF Flags, Anything
<1>7. Raises <=> FileRaises
  <2>1. DOMAIN raw = DOMAIN file  BY <1>1, ParsedFacts
  <2>2. (\E n \in spaces : <<Root, n>> \in DOMAIN raw /\ raw[<<Root, n>>] = Null)
          <=> \E n \in Namespaces : <<Root, n>> \in DOMAIN file /\ Parsed(file)[<<Root, n>>] = Null
    BY <1>1, <2>1
  <2>3. (\E p \in Inspected : NotAllowed(p) /\ schema[p].allowed = Flags)
          <=> \E p \in DOMAIN FileSchema :
               /\ FileSchema[p].allowed = Flags /\ FileValue(p) # NotSet
               /\ FileValue(p) \notin Flags
    BY <1>1, <1>3, <1>6 DEF Inspected
  <2> QED  BY <2>2, <2>3 DEF Raises, FileRaises
<1>8. Inspected = DOMAIN FileSchema  BY <1>1 DEF Inspected
<1> QED  BY <1>1, <1>5, <1>7, <1>8 DEF Checked, FileVerdict

\* A merge fails only over a file that counts, where no entry has the name of a
\* namespace.
LEMMA FailingMerge ==
  ASSUME TypeOK, SchemaInv, RawInv, NEW f \in todo, ~Viable(f), pc = "merge", extra # "clash",
         ReadsFile
  PROVE  FileVerdict = "error"
<1>1. f \in Files(extra) /\ extra \in Kinds  BY Extending DEF TypeOK
<1>2. f.ns \in Namespaces \cup {Root}  BY <1>1, FileFacts
<1>3. <<Root, f.ns>> \notin DOMAIN schema
  <2> SUFFICES ASSUME <<Root, f.ns>> \in DOMAIN schema PROVE FALSE
    OBVIOUS
  <2>1. PICK g \in Merged : <<Root, f.ns>> \in Paths(g)  BY DEF SchemaInv
  <2>2. g.ns = Root /\ f.ns \in DOMAIN g.entries  BY <2>1 DEF Paths
  <2>3. g \in Files(extra)  BY DEF Merged
  <2> QED  BY <1>1, <1>2, <2>2, <2>3, FileFacts
<1>4. Kept(f) /\ ~f.described  BY <1>3 DEF Viable
<1>5. raw = Parsed(file)  BY DEF RawInv, Working
<1>6. TargetPlatform = FileTarget  BY <1>5, ParsedFacts DEF TargetPlatform, FileTarget
<1>7. f \in FileRelevant  BY <1>1, <1>4, <1>6, FileFacts DEF FileRelevant, ForPlatform, Kept
<1> QED  BY <1>4, <1>7 DEF FileVerdict

-----------------------------------------------------------------------------
(* The verdict.                                                             *)

\* A verdict is dropped, kept with the file or what FileVerdict says.
LEMMA VerdictSteps ==
  ASSUME TypeOK, SchemaInv, MergedInv, RawInv, [Next]_vars, extra # "clash"
  PROVE  /\ extra' = extra
         /\ \/ verdict' = "none" /\ pc' # "use"
            \/ UNCHANGED <<file, verdict>> /\ (pc' = "use" => pc = "use")
            \/ /\ UNCHANGED file /\ verdict' = FileVerdict
               /\ pc' = "use" => FileVerdict = "ok"
<1> DEFINE Goal == /\ extra' = extra
                   /\ \/ verdict' = "none" /\ pc' # "use"
                      \/ UNCHANGED <<file, verdict>> /\ (pc' = "use" => pc = "use")
                      \/ /\ UNCHANGED file /\ verdict' = FileVerdict
                         /\ pc' = "use" => FileVerdict = "ok"
<1> SUFFICES Goal
  OBVIOUS
<1>1. ASSUME NEW c \in Commands, Start(c) PROVE Goal  BY <1>1 DEF Start
<1>2. CASE FillBlanks  BY <1>2 DEF FillBlanks
<1>3. ASSUME NEW p \in AllPaths, NEW v \in Choices(p), Edit(p, v) PROVE Goal
  BY <1>3 DEF Edit
<1>4. ASSUME NEW o, NEW output, End(o, output), ReadsFile /\ pc # "use" => o = FileVerdict
      PROVE  Goal
  <2>1. pc' = "idle" /\ extra' = extra  BY <1>4, EndFacts
  <2>2. CASE cmd.op = "generate"  BY <1>4, <2>1, <2>2, EndFacts
  <2>3. CASE cmd.op # "generate" /\ ReadsFile /\ pc # "use"
    BY <1>4, <2>1, <2>3, EndFacts
  <2>4. CASE cmd.op # "generate" /\ ~(ReadsFile /\ pc # "use")
    <3>1. UNCHANGED <<file, verdict>>  BY <1>4, <2>4, EndFacts
    <3> QED  BY <2>1, <3>1
  <2> QED  BY <2>2, <2>3, <2>4
<1>5. CASE LoadFails
  <2>1. file = Nothing /\ End("error", Nothing)  BY <1>5 DEF LoadFails
  <2>2. FileVerdict = "error"  BY <2>1 DEF FileVerdict
  <2> QED  BY <1>4, <2>1, <2>2
<1>6. CASE Load \/ Loaded  BY <1>6 DEF Load, Loaded
<1>7. CASE Check
  <2>1. pc = "check" /\ (ReadsFile => Checked = FileVerdict)  BY <1>7, CheckedVerdict DEF Check
  <2>2. CASE Checked # "ok" \/ cmd.op = "validate"
    <3>1. End(Checked, Nothing)  BY <1>7, <2>2 DEF Check
    <3> QED  BY <1>4, <2>1, <3>1
  <2>3. CASE ~(Checked # "ok" \/ cmd.op = "validate")
    <3>1. /\ pc' = IF cmd.op = "test" THEN "use" ELSE "show"
          /\ verdict' = IF ReadsFile THEN "ok" ELSE verdict
          /\ UNCHANGED <<extra, file>>
      BY <1>7, <2>3 DEF Check
    <3>2. CASE ReadsFile  BY <2>1, <2>3, <3>1, <3>2
    <3>3. CASE ~ReadsFile  BY <3>1, <3>3 DEF ReadsFile
    <3> QED  BY <3>2, <3>3
  <2> QED  BY <2>2, <2>3
<1>8. CASE Show
  <2>1. End("ok", Generated) /\ ~ReadsFile  BY <1>8 DEF Show, RawInv
  <2> QED  BY <1>4, <2>1
<1>9. ASSUME NEW f \in todo, Merge(f) PROVE Goal  BY <1>9 DEF Merge
<1>10. ASSUME NEW f \in todo, MergeFails(f) PROVE Goal
  <2>1. pc = "merge" /\ ~Viable(f) /\ End("error", Nothing)  BY <1>10 DEF MergeFails
  <2>2. ReadsFile => FileVerdict = "error"  BY <2>1, FailingMerge
  <2> QED  BY <1>4, <2>1, <2>2
<1>11. ASSUME NEW there \in Credentials, ApplyPlatform(there) PROVE Goal
  <2>1. CASE cmd.platform = "openstack" /\ ~there
    <3>1. End("error", Nothing) /\ pc = "apply"  BY <1>11, <2>1 DEF ApplyPlatform
    <3>2. ~ReadsFile  BY <3>1 DEF RawInv, ReadsFile
    <3> QED  BY <1>4, <3>1, <3>2
  <2>2. CASE ~(cmd.platform = "openstack" /\ ~there)
    <3>1. UNCHANGED <<extra, file, verdict>> /\ pc' = "check"  BY <1>11, <2>2, ApplyFacts
    <3> QED  BY <3>1
  <2> QED  BY <2>1, <2>2
<1>12. ASSUME NEW p \in AllPaths, Read(p) PROVE Goal  BY <1>12 DEF Read
<1>13. CASE SessionEnds
  <2>1. pc = "use" /\ End("ok", Nothing)  BY <1>13 DEF SessionEnds
  <2> QED  BY <1>4, <2>1
<1>14. CASE UNCHANGED vars  BY <1>14 DEF vars
<1> HIDE DEF Goal
<1> QED
  BY <1>1, <1>2, <1>3, <1>5, <1>6, <1>7, <1>8, <1>9, <1>10, <1>11, <1>12, <1>13, <1>14
  DEF Next

\* The verdict is worked out from the file and the schema files alone.
LEMMA SameFile ==
  ASSUME UNCHANGED <<extra, file>>
  PROVE  FileVerdict' = FileVerdict /\ FileTarget' = FileTarget /\ FileRelevant' = FileRelevant
BY DEF FileVerdict, FileRaises, FileSchema, FileValue, FileRelevant, FileTarget, Files, Parsed,
       Nothing

\* Every step keeps the verdict right.
LEMMA VerdictStep ==
  ASSUME TypeOK, SchemaInv, MergedInv, RawInv, VerdictInv, [Next]_vars
  PROVE  VerdictInv'
<1>1. CASE extra = "clash"
  <2>1. extra' = extra
    BY EndFacts DEF Next, Start, FillBlanks, Edit, LoadFails, Load, Loaded, Check, Show, Merge,
       MergeFails, ApplyPlatform, Read, SessionEnds, vars
  <2> QED  BY <1>1, <2>1 DEF VerdictInv
<1>2. CASE extra # "clash"
  BY <1>2, VerdictSteps, SameFile DEF VerdictInv
<1> QED  BY <1>1, <1>2

-----------------------------------------------------------------------------
(* The sample.                                                              *)

\* What generate prints is a sample.
LEMMA SampleShown ==
  ASSUME TypeOK, SchemaInv, MergedInv, RawInv, pc = "show", file' = Generated, extra' = extra,
         sample' = TargetPlatform
  PROVE  SampleInv'
<1> SUFFICES ASSUME extra # "clash" PROVE SampleInv'
  BY DEF SampleInv
<1>1. /\ DOMAIN file' = {q \in DOMAIN schema : Shown(q)}
      /\ \A p \in DOMAIN file' :
           /\ file'[p] = IF Value(p) = NotSet THEN "blank" ELSE Value(p)
           /\ file'[p] \in (Values \cup {"blank"}) \ {"bad"}
  BY GeneratedFacts
<1>2. Target \in DOMAIN schema /\ schema[Target].default = "openstack"
  <2>1. Target \in DOMAIN schema /\ schema[Target].allowed = {"openstack", "aws"}
    BY TargetEntry DEF Working
  <2>2. /\ schema[Target].default \in {"ok", NotSet, Null, "openstack", "true"}
        /\ schema[Target].allowed # Anything => schema[Target].default \in schema[Target].allowed
    BY <2>1, SchemaEntries
  <2> QED  BY <2>1, <2>2 DEF Anything, NotSet, Null
<1>3. FileTarget' = TargetPlatform
  <2>1. CASE Target \in DOMAIN file'
    <3>1. Value(Target) = TargetPlatform  BY <1>2 DEF Value, TargetPlatform
    <3>2. TargetPlatform \in {"openstack", "aws"}  BY ShownTarget
    <3>3. file'[Target] = TargetPlatform  BY <1>1, <2>1, <3>1, <3>2 DEF NotSet
    <3>4. Parsed(file')[Target] = TargetPlatform  BY <2>1, <3>2, <3>3, ParsedFacts
    <3> QED  BY <2>1, <3>4 DEF FileTarget, Parsed
  <2>2. CASE Target \notin DOMAIN file'
    <3>1. Target \notin DOMAIN raw  BY <1>1, <1>2, <2>2 DEF Shown
    <3> QED  BY <2>2, <3>1 DEF FileTarget, TargetPlatform
  <2> QED  BY <2>1, <2>2
<1>4. FileRelevant' = Relevant
  BY <1>3 DEF FileRelevant, Relevant, Files
<1>5. /\ \A f \in Relevant : f.described
      /\ schema = [p \in UNION {Paths(f) : f \in Relevant} |->
                     (CHOOSE f \in Relevant : p \in Paths(f)).entries[p[2]]]
  BY Whole DEF MergedWhole
<1>6. DOMAIN schema = UNION {Paths(f) : f \in Relevant}  BY <1>5
<1>7. ASSUME NEW f \in Relevant, NEW p \in Paths(f)
      PROVE  LET e == f.entries[p[2]]
             IN  IF p \notin DOMAIN file' THEN e.default # NotSet
                 ELSE p # Target =>
                   file'[p] \in IF e.allowed = Anything THEN {e.default, "ok", "blank"} \ {NotSet}
                                ELSE {e.default}
  <2> DEFINE e == f.entries[p[2]]
  <2>1. p \in DOMAIN schema  BY <1>6
  <2>2. schema[p] = e
    <3>1. PICK g \in Merged : p \in Paths(g) /\ schema[p] = g.entries[p[2]]
      BY <2>1 DEF SchemaInv
    <3>2. f \in Files(extra) /\ g \in Files(extra) /\ extra \in Kinds
      BY Extending DEF Relevant, ForPlatform, Merged
    <3>3. f = g  BY <3>1, <3>2, Disjoint
    <3> QED  BY <3>1, <3>3
  <2>3. CASE p \notin DOMAIN file'
    <3>1. schema[p].default # NotSet  BY <1>1, <2>1, <2>3 DEF Shown
    <3> QED  BY <2>2, <2>3, <3>1
  <2>4. CASE p \in DOMAIN file' /\ p \in DOMAIN raw /\ p # Target
    <3>1. p = <<"openstack", "username">> /\ raw[p] = "ok"
      <4>1. pc \in Working /\ ~ReadsFile  BY DEF RawInv, Working
      <4>2. cmd.platform # "none"  BY <2>4, <4>1, NothingFacts DEF RawInv
      <4> QED  BY <2>4, <4>1, <4>2 DEF RawInv
    <3>2. f \in Files(extra) /\ extra \in Kinds
      BY Extending DEF Relevant, ForPlatform
    <3>3. e.allowed = Anything  BY <3>1, <3>2, EntryFacts
    <3>4. file'[p] = "ok"  BY <1>1, <2>4, <3>1 DEF Value, NotSet
    <3> QED  BY <2>4, <3>3, <3>4 DEF NotSet
  <2>5. CASE p \in DOMAIN file' /\ p \notin DOMAIN raw
    <3>1. Value(p) = e.default  BY <2>2, <2>5 DEF Value
    <3>2. e.allowed # Anything => e.default # NotSet
      BY <2>1, <2>2, SchemaEntries DEF Anything, Flags, NotSet
    <3>3. CASE e.default = NotSet
      <4>1. file'[p] = "blank" /\ e.allowed = Anything  BY <1>1, <2>5, <3>1, <3>2, <3>3
      <4> QED  BY <2>5, <4>1 DEF NotSet
    <3>4. CASE e.default # NotSet
      <4>1. file'[p] = e.default  BY <1>1, <2>5, <3>1, <3>4
      <4> QED  BY <2>5, <3>4, <4>1
    <3> QED  BY <3>3, <3>4
  <2>6. CASE p \in DOMAIN file' /\ p = Target  BY <2>6
  <2> QED  BY <2>3, <2>4, <2>5, <2>6
<1>8. DOMAIN file' \subseteq UNION {Paths(f) : f \in Relevant}  BY <1>1, <1>6
<1> QED  BY <1>3, <1>4, <1>5, <1>7, <1>8 DEF SampleInv

\* It is still one once its blanks are filled in.
LEMMA SampleFilled ==
  ASSUME TypeOK, SampleInv, FillBlanks
  PROVE  SampleInv'
<1> SUFFICES ASSUME extra # "clash" PROVE SampleInv'
  BY DEF SampleInv, FillBlanks
<1>1. /\ file' = [p \in DOMAIN file |-> IF file[p] = "blank" THEN "ok" ELSE file[p]]
      /\ sample # "none" /\ UNCHANGED <<extra, sample>>
  BY DEF FillBlanks
<1>2. /\ FileTarget = sample
      /\ DOMAIN file \subseteq UNION {Paths(f) : f \in FileRelevant}
      /\ \A f \in FileRelevant : f.described
  BY <1>1 DEF SampleInv
<1>3. DOMAIN file' = DOMAIN file
      /\ \A p \in DOMAIN file : file'[p] = IF file[p] = "blank" THEN "ok" ELSE file[p]
  BY <1>1
<1>4. FileTarget' = FileTarget
  <2>1. CASE Target \in DOMAIN file
    <3>1. Parsed(file)[Target] = sample /\ sample \in {"openstack", "aws"}
      BY <1>1, <1>2, <2>1 DEF FileTarget, TypeOK
    <3>2. file[Target] # "blank" /\ file'[Target] = file[Target]
      BY <1>3, <2>1, <3>1, ParsedFacts DEF Null
    <3>3. Parsed(file')[Target] = Parsed(file)[Target]
      BY <1>3, <2>1, <3>2, ParsedFacts
    <3> QED  BY <1>3, <2>1, <3>3 DEF FileTarget, Parsed
  <2>2. CASE Target \notin DOMAIN file  BY <1>3, <2>2 DEF FileTarget
  <2> QED  BY <2>1, <2>2
<1>5. FileRelevant' = FileRelevant  BY <1>1, <1>4 DEF FileRelevant, Files
<1>6. ASSUME NEW f \in FileRelevant, NEW p \in Paths(f)
      PROVE  LET e == f.entries[p[2]]
             IN  IF p \notin DOMAIN file' THEN e.default # NotSet
                 ELSE p # Target =>
                   file'[p] \in IF e.allowed = Anything THEN {e.default, "ok", "blank"} \ {NotSet}
                                ELSE {e.default}
  <2> DEFINE e == f.entries[p[2]]
  <2>1. IF p \notin DOMAIN file THEN e.default # NotSet
        ELSE p # Target =>
          file[p] \in IF e.allowed = Anything THEN {e.default, "ok", "blank"} \ {NotSet}
                      ELSE {e.default}
    BY <1>1 DEF SampleInv
  <2>2. CASE p \notin DOMAIN file \/ p = Target  BY <1>3, <2>1, <2>2
  <2>3. CASE p \in DOMAIN file /\ p # Target /\ e.allowed = Anything
    BY <1>3, <2>1, <2>3 DEF NotSet
  <2>4. CASE p \in DOMAIN file /\ p # Target /\ e.allowed # Anything
    <3>1. f \in Files(extra) /\ extra \in Kinds
      BY Extending DEF FileRelevant, ForPlatform
    <3>2. e.default # "blank"  BY <3>1, EntryFacts DEF NotSet, Null
    <3> QED  BY <1>3, <2>1, <2>4, <3>2
  <2> QED  BY <2>2, <2>3, <2>4
<1> QED  BY <1>1, <1>2, <1>3, <1>4, <1>5, <1>6 DEF SampleInv

\* Every step keeps a sample a sample.
LEMMA SampleStep ==
  ASSUME TypeOK, SchemaInv, MergedInv, RawInv, SampleInv, [Next]_vars
  PROVE  SampleInv'
<1>1. extra' = extra
  BY EndFacts DEF Next, Start, FillBlanks, Edit, LoadFails, Load, Loaded, Check, Show, Merge,
     MergeFails, ApplyPlatform, Read, SessionEnds, vars
<1>2. CASE UNCHANGED <<file, sample>>  BY <1>1, <1>2, SameFile DEF SampleInv
<1>3. CASE FillBlanks  BY <1>3, SampleFilled
<1>4. ASSUME NEW p \in AllPaths, NEW v \in Choices(p), Edit(p, v) PROVE SampleInv'
  <2>1. sample' = "none"  BY <1>4 DEF Edit
  <2> QED  BY <2>1 DEF SampleInv
<1>5. CASE sample' = "none"  BY <1>5 DEF SampleInv
<1>6. CASE Show /\ file' = Generated /\ sample' = TargetPlatform
  BY <1>1, <1>6, SampleShown DEF Show
<1> QED  BY <1>2, <1>3, <1>4, <1>5, <1>6, FileSteps

-----------------------------------------------------------------------------
(* The theorems.                                                            *)

\* The inductive invariant.
IInv ==
  /\ TypeOK /\ ClearInv /\ SchemaInv /\ MergedInv /\ RawInv /\ FileInv
  /\ VerdictInv /\ SampleInv

\* The invariant holds in the beginning ...
LEMMA InitHolds == Init => IInv
<1> SUFFICES ASSUME Init PROVE IInv
  OBVIOUS
<1>1. TypeOK
  <2>1. cmd \in Commands  BY DEF Init, Commands
  <2>2. DOMAIN file = {} /\ DOMAIN raw = {} /\ DOMAIN schema = {}  BY NothingFacts DEF Init
  <2> QED  BY <2>1, <2>2, ConfigAssumption DEF Init, TypeOK
<1>2. ClearInv /\ MergedInv /\ RawInv  BY DEF Init, ClearInv, MergedInv, RawInv, Working
<1>3. SchemaInv  BY NothingFacts DEF Init, SchemaInv, Nothing, Working
<1>4. FileInv  BY NothingFacts DEF Init, FileInv
<1>5. VerdictInv /\ SampleInv  BY DEF Init, VerdictInv, SampleInv
<1> QED  BY <1>1, <1>2, <1>3, <1>4, <1>5 DEF IInv

\* ... and every step keeps it.
LEMMA StepHolds == IInv /\ [Next]_vars => IInv'
<1> SUFFICES ASSUME IInv, [Next]_vars PROVE IInv'
  OBVIOUS
<1> USE DEF IInv
<1>1. TypeOK'
  <2>1. FileType'  BY FileTypeStep
  <2>2. LoadedType'  BY LoadedTypeStep
  <2>3. ControlType'  BY ControlTypeStep
  <2> QED  BY <2>1, <2>2, <2>3 DEF TypeOK, FileType, LoadedType, ControlType
<1>2. ClearInv'  BY ClearStep
<1>3. SchemaInv'  BY SchemaStep
<1>4. MergedInv'  BY MergedStep
<1>5. RawInv'  BY RawStep
<1>6. FileInv'  BY FileStep
<1>7. VerdictInv'  BY VerdictStep
<1>8. SampleInv'  BY SampleStep
<1> QED  BY <1>1, <1>2, <1>3, <1>4, <1>5, <1>6, <1>7, <1>8

\* Always: what is loaded, what the file holds and what was said of it fit together.
THEOREM Invariance == Spec => []IInv
BY InitHolds, StepHolds, PTL DEF Spec

\* The variables of a command have their types; a generated file never shows that an
\* entry has no value.
THEOREM TypeCorrectness == Spec => []TypeOK
<1>1. IInv => TypeOK  BY DEF IInv
<1> QED  BY <1>1, Invariance, PTL

\* Config.__init__ merges every file that counts and nothing else, in whatever order
\* the directory lists the files and whatever file is being added (config.py:63-148),
\* except one with an entry that has the name of a namespace.
THEOREM EverythingIsMerged == Spec => []MergedWhole
<1>1. IInv => MergedWhole  BY Whole DEF IInv
<1> QED  BY <1>1, Invariance, PTL

\* The check's verdict depends on the file and the schema files alone.  (A command that
\* reads the file reaches the verdict that FileVerdict works out from them.)
THEOREM VerdictIsOfTheFile ==
  Spec => [](verdict # "none" /\ extra # "clash" => verdict = FileVerdict)
<1>1. IInv => (verdict # "none" /\ extra # "clash" => verdict = FileVerdict)
  BY DEF IInv, VerdictInv
<1> QED  BY <1>1, Invariance, PTL

\* What validate accepts, a session accepts: while nobody edits the file, no command
\* and no order of the schema files changes its verdict.
THEOREM VerdictStays == Spec => SameVerdict
<1>1. ASSUME IInv, IInv', [Next]_vars, verdict # "none", verdict' # "none", extra # "clash"
      PROVE  verdict' = verdict
  <2>1. UNCHANGED <<extra, file>> \/ verdict' = verdict
    BY <1>1, VerdictSteps DEF IInv
  <2>2. extra' = extra  BY <1>1, VerdictSteps DEF IInv
  <2>3. verdict = FileVerdict /\ verdict' = FileVerdict'
    BY <1>1, <2>2 DEF IInv, VerdictInv
  <2> QED  BY <2>1, <2>3, SameFile
<1>2. IInv /\ IInv' /\ [Next]_vars =>
        [verdict # "none" /\ verdict' # "none" /\ extra # "clash" => verdict' = verdict]_vars
  BY <1>1
<1> QED  BY <1>2, Invariance, PTL DEF Spec, SameVerdict

\* An accepted file sets every entry that counts to something that is there, allowed and
\* null only where it may be.
LEMMA AcceptedValue ==
  ASSUME IInv, extra # "clash", FileVerdict = "ok", NEW f \in FileRelevant, NEW p \in Paths(f)
  PROVE  Suits(f.entries[p[2]], FileValue(p))
<1> DEFINE e == f.entries[p[2]]
<1>1. extra \in Kinds /\ TypeOK  BY Extending DEF IInv
<1>2. f \in Files(extra) /\ p \in DOMAIN FileSchema /\ FileSchema[p] = e
  BY <1>1, FileSchemaFacts
<1>3. ~Wrong(e, FileValue(p))  BY <1>2 DEF FileVerdict
<1>4. CASE p \in DOMAIN file
  <2>1. FileValue(p) = IF file[p] = "blank" THEN Null ELSE file[p]
    BY <1>4, ParsedFacts DEF FileValue
  <2>2. file[p] \in Values \cup {"blank"}  BY <1>1, <1>4 DEF TypeOK
  <2> QED  BY <1>3, <2>1, <2>2 DEF Values, Null, Suits, Wrong
<1>5. CASE p \notin DOMAIN file
  <2>1. FileValue(p) = e.default  BY <1>2, <1>5 DEF FileValue
  <2>2. e.default \in {"ok", NotSet, Null, "openstack", "true"}  BY <1>1, <1>2, EntryFacts
  <2>3. e.default # NotSet  BY <1>3, <2>1 DEF Wrong
  <2> QED  BY <1>3, <2>1, <2>2, <2>3 DEF Values, Null, Suits, Wrong
<1> QED  BY <1>4, <1>5

\* A test that reads a setting its platform needs finds it, with a value that the
\* schema file allows, and null only where that file says so: no session starts and then
\* misses an entry (config.py:56).
THEOREM SettingsAreThere == Spec => TestsFindTheirSettings
<1>1. ASSUME IInv, extra # "clash", NEW f \in Repository, NEW p \in Paths(f), Read(p)
      PROVE  Suits(f.entries[p[2]], got')
  <2>1. pc = "use" /\ p \in Needed /\ extra \in Kinds
    BY <1>1, Extending DEF Read, IInv, TypeOK
  <2>2. ReadsFile  BY <1>1, <2>1 DEF IInv, RawInv, ReadsFile
  <2>3. /\ TargetPlatform = FileTarget /\ schema = FileSchema
        /\ Value(p) = FileValue(p)
    BY <1>1, <2>1, <2>2, Reading DEF IInv
  <2>4. PICK g \in Repository : p \in Paths(g) /\ (~g.platform \/ g.ns = TargetPlatform)
    BY <2>1 DEF Needed, ForPlatform
  <2>5. f = g  BY <1>1, <2>1, <2>4, Disjoint DEF Files
  <2>6. f \in FileRelevant  BY <2>3, <2>4, <2>5 DEF FileRelevant, ForPlatform, Files
  <2>7. FileVerdict = "ok"  BY <1>1, <2>1 DEF IInv, VerdictInv
  <2>8. p \in DOMAIN schema  BY <1>1, <2>1, <2>3, <2>6, FileSchemaFacts
  <2>9. got' = FileValue(p)  BY <1>1, <2>3, <2>8 DEF Read
  <2> QED  BY <1>1, <2>6, <2>7, <2>9, AcceptedValue
<1>2. IInv /\ [Next]_vars =>
        [extra # "clash" =>
           \A f \in Repository : \A p \in Paths(f) :
             Read(p) => Suits(f.entries[p[2]], got')]_vars
  BY <1>1
<1> QED  BY <1>2, Invariance, PTL DEF Spec, TestsFindTheirSettings

\* Some entry has no default, whatever the platform.
LEMMA SomeRequired ==
  \E f \in Repository : ~f.platform /\ \E p \in Paths(f) : f.entries[p[2]].default = NotSet
<1>1. PICK f \in Repository : f.ns = "infrastructure_manager"
  BY NamespaceNames DEF Namespaces
<1>2. /\ ~f.platform /\ DOMAIN f.entries = {"address", "ca_cert"}
      /\ f.entries["address"].default = "notset"
  BY <1>1, RepositoryForm DEF Form, Has, Is
<1> DEFINE p == <<f.ns, "address">>
<1>3. p \in Paths(f) /\ p[2] = "address"  BY <1>2 DEF Paths
<1> QED  BY <1>2, <1>3 DEF NotSet

\* A sample without blanks is accepted.
LEMMA SampleAccepted ==
  ASSUME IInv, sample # "none", Consistent(sample), Healthy,
         \A p \in DOMAIN file : file[p] # "blank"
  PROVE  FileVerdict = "ok"
<1>1. /\ TypeOK /\ extra \in Kinds /\ extra # "clash" /\ extra \in {"none", "second"}
      /\ sample \in {"openstack", "aws"}
  BY Extending DEF IInv, Healthy, TypeOK
<1>2. /\ FileTarget = sample
      /\ DOMAIN file \subseteq UNION {Paths(f) : f \in FileRelevant}
      /\ \A f \in FileRelevant : f.described
  BY <1>1 DEF IInv, SampleInv
<1>3. /\ DOMAIN FileSchema = UNION {Paths(f) : f \in FileRelevant}
      /\ \A f \in FileRelevant : f \in Files(extra) /\ (f.platform => f.ns = FileTarget)
      /\ \A f \in FileRelevant : \A p \in Paths(f) : FileSchema[p] = f.entries[p[2]]
  BY <1>1, FileSchemaFacts
<1>4. file # Nothing
  <2>1. PICK f \in Repository :
          ~f.platform /\ \E p \in Paths(f) : f.entries[p[2]].default = NotSet
    BY SomeRequired
  <2>2. PICK p \in Paths(f) : f.entries[p[2]].default = NotSet  BY <2>1
  <2>3. f \in FileRelevant  BY <2>1 DEF FileRelevant, ForPlatform, Files
  <2>4. p \in DOMAIN file  BY <1>1, <2>2, <2>3 DEF IInv, SampleInv
  <2> QED  BY <2>4, NothingFacts
<1>5. ASSUME NEW f \in FileRelevant, NEW p \in Paths(f)
      PROVE  ~Wrong(FileSchema[p], FileValue(p))
  <2> DEFINE e == f.entries[p[2]]
  <2>1. f \in Files(extra) /\ FileSchema[p] = e  BY <1>3
  <2>2. /\ p[1] = f.ns /\ p[2] \in DOMAIN f.entries
        /\ e.default \in {"ok", NotSet, Null, "openstack", "true"}
        /\ e.allowed \in {Anything, {"openstack", "aws"}, Flags}
        /\ e.allowed # Anything => e.default \in e.allowed /\ ~e.nullable
        /\ e.default = Null => e.nullable \/ f.platform
        /\ p = Target => e.allowed = {"openstack", "aws"}
    <3>1. extra \in Kinds /\ f \in Files(extra)  BY <1>1, <2>1
    <3> HIDE DEF e
    <3>2. e = f.entries[p[2]]  BY DEF e
    <3>3. p[1] = f.ns /\ p[2] \in DOMAIN f.entries  BY <3>1, <3>2, EntryFacts
    <3>4. e.default \in {"ok", NotSet, Null, "openstack", "true"}  BY <3>1, <3>2, EntryFacts
    <3>5. e.allowed \in {Anything, {"openstack", "aws"}, Flags}  BY <3>1, <3>2, EntryFacts
    <3>6. e.allowed # Anything => e.default \in e.allowed /\ ~e.nullable
      BY <3>1, <3>2, EntryFacts
    <3>7. e.default = Null => e.nullable \/ f.platform  BY <3>1, <3>2, EntryFacts
    <3>8. p = Target => e.allowed = {"openstack", "aws"}  BY <3>1, <3>2, EntryFacts
    <3> QED  BY <3>3, <3>4, <3>5, <3>6, <3>7, <3>8
  <2>3. e.default = Null => e.nullable
    <3>1. CASE f.platform
      <4>1. f \in Repository /\ f.ns = sample
        BY <1>1, <1>2, <1>3, <2>1, <3>1, FileFacts
      <4> QED  BY <2>2, <4>1 DEF Consistent
    <3>2. CASE ~f.platform  BY <2>2, <3>2
    <3> QED  BY <3>1, <3>2
  <2>4. IF p \notin DOMAIN file THEN e.default # NotSet
        ELSE p # Target =>
          file[p] \in IF e.allowed = Anything THEN {e.default, "ok", "blank"} \ {NotSet}
                      ELSE {e.default}
    BY <1>1 DEF IInv, SampleInv
  <2>5. e.allowed # Anything => e.default # NotSet /\ e.default # Null
    BY <2>2 DEF Anything, Flags, NotSet, Null
  <2>6. e.default # NotSet => ~Wrong(e, e.default)  BY <2>2, <2>3 DEF Wrong
  <2>7. e.allowed = Anything => ~Wrong(e, "ok")  BY DEF Wrong, NotSet, Null
  <2>8. CASE p \notin DOMAIN file
    <3>1. FileValue(p) = e.default  BY <2>1, <2>8 DEF FileValue
    <3> QED  BY <2>1, <2>4, <2>6, <2>8, <3>1
  <2>9. CASE p \in DOMAIN file /\ p = Target
    <3>1. FileValue(p) = sample  BY <1>2, <2>9 DEF FileValue, FileTarget
    <3>2. ~Wrong(e, sample)  BY <1>1, <2>2, <2>9 DEF Wrong, NotSet, Null
    <3> QED  BY <2>1, <3>1, <3>2
  <2>10. CASE p \in DOMAIN file /\ p # Target
    <3>1. FileValue(p) = file[p]  BY <2>10, ParsedFacts DEF FileValue
    <3>2. file[p] \in {e.default, "ok"} /\ file[p] # NotSet
          /\ (e.allowed # Anything => file[p] = e.default)
      BY <2>4, <2>5, <2>10
    <3> QED  BY <2>1, <2>6, <2>7, <3>1, <3>2
  <2> QED  BY <2>8, <2>9, <2>10
<1>6. ~FileRaises
  <2>1. ASSUME NEW n \in Namespaces PROVE <<Root, n>> \notin DOMAIN file
    <3> SUFFICES ASSUME <<Root, n>> \in DOMAIN file PROVE FALSE
      OBVIOUS
    <3>1. PICK f \in FileRelevant : <<Root, n>> \in Paths(f)  BY <1>2
    <3>2. f.ns = Root /\ n \in DOMAIN f.entries  BY <3>1 DEF Paths
    <3> QED  BY <1>1, <1>3, <3>1, <3>2, FileFacts
  <2>2. ASSUME NEW p \in DOMAIN FileSchema, FileSchema[p].allowed = Flags
        PROVE  FileValue(p) \in Flags
    <3>1. ~Wrong(FileSchema[p], FileValue(p))  BY <1>3, <1>5
    <3> QED  BY <2>2, <3>1 DEF Wrong, Flags, Anything
  <2> QED  BY <2>1, <2>2 DEF FileRaises
<1> QED  BY <1>2, <1>3, <1>4, <1>5, <1>6 DEF FileVerdict

\* A generated file whose blanks have been filled in passes the check of every command,
\* for a platform that gives no entry a default its own check refuses.
THEOREM SampleSuffices == Spec => []SampleIsEnough
<1>1. IInv => SampleIsEnough
  <2> SUFFICES ASSUME IInv, sample # "none", Consistent(sample), Healthy,
                      \A p \in DOMAIN file : file[p] # "blank", verdict # "none"
               PROVE  verdict = "ok"
    BY DEF SampleIsEnough
  <2>1. FileVerdict = "ok"  BY SampleAccepted
  <2>2. extra # "clash"  BY DEF Healthy
  <2> QED  BY <2>1, <2>2 DEF IInv, VerdictInv
<1> QED  BY <1>1, Invariance, PTL

=============================================================================
