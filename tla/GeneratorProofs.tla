--------------------------- MODULE GeneratorProofs --------------------------
(***************************************************************************)
(* Theorems about what is made of declarations, for any resources, any     *)
(* declarations and any number of edits of a project, and for any field    *)
(* that is not the key, under the assumptions of Generator.                *)
(***************************************************************************)
EXTENDS Generator, Sequences, FiniteSetTheorems, WellFoundedInduction, TLAPS

\* Cardinality as the parts know it.
LEMMA ProjectCardinality == \A S : Project!Cardinality(S) = Cardinality(S)
  BY DEF Project!Cardinality, Cardinality

\* ... the other part likewise.
LEMMA FieldCardinality == \A S : Field!Cardinality(S) = Cardinality(S)
  BY DEF Field!Cardinality, Cardinality

\* An option: a set of at most one member.
Option(S) == \A x, y \in S : x = y

\* An option has at most one member, counted.
LEMMA OptionCounts ==
    ASSUME NEW S, Option(S)
    PROVE  Cardinality(S) <= 1
<1>1. CASE S = {}
  <2>1. Cardinality(S) = 0 BY <1>1, FS_EmptySet
  <2>2. QED BY <2>1
<1>2. CASE S # {}
  <2>1. PICK x : x \in S BY <1>2
  <2>2. S = {x} BY <2>1 DEF Option
  <2>3. Cardinality(S) = 1 BY <2>2, FS_Singleton
  <2>4. QED BY <2>3
<1>3. QED BY <1>1, <1>2

-----------------------------------------------------------------------------
(* The project directory: the types.  Decls are the declarations a file can  *)
(* hold, Parses what the parser makes of them.                               *)

Files == Project!Resources
Decls == Trials \union Edits \union {Project!scaffold_resource_yaml[a] : a \in Archetypes}
Parses == {Project!apply_endpoint_defaults(d) : d \in Decls}
Loads == [Files -> SUBSET Parses]

\* The functions that declarations ask the developer for.
Named == UNION {Project!collect_controller_hooks(d) \union Project!collect_custom_handlers(d) :
                   d \in Decls \union Parses}

\* A command under way: none, generate or serve writing, generate at its stubs, or
\* migrate.
Commands ==
    {Project!Idle}
    \union [run : {"generate", "serve"}, at : {"clear", "modules", "registry"}, load : Loads,
       next : Nat \ {0}]
    \union [run : {"generate"}, at : {"stubs"}, load : Loads, next : Nat \ {0}]
    \union [run : {"migrate"}, at : {"files", "apply"}, load : Loads, next : Nat \ {0}]

\* How the last command ended, or "stale" after a change behind it.
Exits == {"none", "stale", "running", "refused", "interrupted", "generate", "serve", "warned",
          "migrate", "failed"}

\* Migrations whose numbers have an upper bound.
Bounded(S) == \E b \in Nat : \A m \in S : m.num <= b

ProjectTypes ==
    /\ yaml \in [Files -> SUBSET Decls] /\ \A n \in Files : Option(yaml[n])
    /\ modules \in Loads /\ \A n \in Files : Option(modules[n])
    /\ tables \in Loads /\ \A n \in Files : Option(tables[n])
    /\ registry \subseteq Loads /\ Option(registry)
    /\ code \in [Files -> SUBSET SUBSET Named] /\ \A n \in Files : Option(code[n])
    /\ migrations \subseteq [num : Nat, of : Files, decl : Parses]
    /\ IsFiniteSet(migrations) /\ Bounded(migrations)
    /\ applied \subseteq Nat
    /\ cmd \in Commands /\ \A n \in Files : Option(cmd.load[n])
    /\ exit \in Exits
    /\ checked \in {"none", "clean", "errors", "panicked"}
    /\ edits \in [count : 0 .. MaxEdits, removed : BOOLEAN]

\* The first file has a name, as every file that is asked for has.
LEMMA NamesAre ==
    /\ Len(Names) \in Nat \ {0} /\ DOMAIN Names = 1 .. Len(Names)
    /\ \A k \in 1 .. Len(Names) : Project!Name(k) \in Files
    /\ \A n \in Files : \E k \in 1 .. Len(Names) : Project!Name(k) = n
    /\ MaxEdits \in Nat /\ \A n \in Files : Contained(n, n)
  BY ProjectAssumption DEF Project!Described, Files, Project!Resources, Project!Name

\* No declaration anywhere is a load and a directory.
LEMMA NothingTyped ==
    /\ Project!Nothing \in Loads /\ Project!Nothing = [n \in Files |-> {}]
    /\ \A n \in Files : Project!Nothing[n] = {} /\ Option(Project!Nothing[n])
    /\ Project!Idle \in Commands /\ Project!Idle.load = Project!Nothing
    /\ Project!Idle.run = "none" /\ Project!Idle.at = "none"
  BY DEF Project!Nothing, Loads, Files, Option, Commands, Project!Idle

\* The parser makes one declaration of one.
LEMMA ParsedTyped ==
    ASSUME yaml \in [Files -> SUBSET Decls], \A n \in Files : Option(yaml[n])
    PROVE  /\ Project!Parsed \in Loads
           /\ \A n \in Files : Project!Parsed[n] = {Project!apply_endpoint_defaults(d) : d \in yaml[n]}
           /\ \A n \in Files : Option(Project!Parsed[n])
           /\ \A n \in Files : (Project!Parsed[n] = {}) <=> (yaml[n] = {})
<1>1. Project!Parsed = [n \in Files |-> {Project!apply_endpoint_defaults(d) : d \in yaml[n]}]
  BY DEF Project!Parsed, Files
<1>2. \A n \in Files : \A d \in yaml[n] : Project!apply_endpoint_defaults(d) \in Parses BY DEF Parses
<1>3. QED BY <1>1, <1>2 DEF Loads, Option

\* A set of numbers has a least one.
LEMMA LeastNat ==
    ASSUME NEW T, T \subseteq Nat, T # {}
    PROVE  \E x \in T : \A y \in T : ~(y < x)
<1>1. IsWellFoundedOn(OpToRel(<,Nat), Nat) BY NatLessThanWellFounded
<1>2. \E x \in T : \A y \in T : ~ (<<y, x>> \in OpToRel(<,Nat)) BY <1>1, WFMin
<1>3. QED BY <1>2 DEF OpToRel

\* migrate numbers a file above all there are: the highest number and one more.
LEMMA NextVersion ==
    ASSUME migrations \subseteq [num : Nat, of : Files, decl : Parses], Bounded(migrations)
    PROVE  /\ Project!compute_next_version \in Nat \ {0}
           /\ \A m \in migrations : m.num < Project!compute_next_version
           /\ migrations = {} => Project!compute_next_version = 1
           /\ migrations # {} => \E m \in migrations : m.num + 1 = Project!compute_next_version
<1>1. Project!Numbers \subseteq Nat /\ \A m \in migrations : m.num \in Project!Numbers
  BY DEF Project!Numbers
<1>2. CASE migrations = {} BY <1>2 DEF Project!compute_next_version, Project!Numbers
<1>3. CASE migrations # {}
  <2>1. PICK b \in Nat : \A m \in migrations : m.num <= b BY DEF Bounded
  <2> DEFINE T == {b - x : x \in Project!Numbers}
  <2>2. \A x \in Project!Numbers : x \in Nat /\ x <= b /\ b - x \in Nat BY <2>1, <1>1 DEF Project!Numbers
  <2>3. T \subseteq Nat /\ T # {} BY <2>2, <1>1, <1>3
  <2>4. PICK t \in T : \A y \in T : ~(y < t)
    <3> HIDE DEF T
    <3>1. QED BY <2>3, LeastNat
  <2>5. PICK x \in Project!Numbers : t = b - x BY <2>4
  <2>6. \A y \in Project!Numbers : y <= x
    <3>1. TAKE y \in Project!Numbers
    <3>2. ~(b - y < b - x) BY <2>4, <2>5
    <3>3. QED BY <3>2, <2>2
  <2> DEFINE c == CHOOSE z \in Project!Numbers : \A y \in Project!Numbers : y <= z
  <2>7. c \in Project!Numbers /\ \A y \in Project!Numbers : y <= c BY <2>6
  <2>8. Project!compute_next_version = 1 + c BY <1>1, <1>3 DEF Project!compute_next_version
  <2> HIDE DEF c
  <2>9. \E m \in migrations : m.num = c BY <2>7 DEF Project!Numbers
  <2>10. QED BY <2>7, <2>8, <2>9, <1>1, <1>3
<1>4. QED BY <1>2, <1>3

\* A change counts, and takes place between two commands.
LEMMA ChangeTypes ==
    ASSUME ProjectTypes, NEW e, Project!Changes(e)
    PROVE  /\ exit' \in Exits /\ edits' \in [count : 0 .. MaxEdits, removed : BOOLEAN]
           /\ edits'.removed = (edits.removed \/ e = "removed") /\ cmd = Project!Idle
<1>1. MaxEdits \in Nat BY NamesAre
<1>2. edits.count + 1 \in 0 .. MaxEdits BY <1>1 DEF ProjectTypes, Project!Changes
<1>3. QED BY <1>2 DEF ProjectTypes, Project!Changes, Exits

\* A migration more keeps the types of the directory.
LEMMA MigrationTypes ==
    ASSUME ProjectTypes, NEW new, new \subseteq [num : Nat, of : Files, decl : Parses],
           IsFiniteSet(new), Bounded(new), migrations' = migrations \union new
    PROVE  /\ migrations' \subseteq [num : Nat, of : Files, decl : Parses]
           /\ IsFiniteSet(migrations') /\ Bounded(migrations')
<1>1. IsFiniteSet(migrations') BY FS_Union DEF ProjectTypes
<1>2. PICK a \in Nat : \A m \in migrations : m.num <= a BY DEF ProjectTypes, Bounded
<1>3. PICK b \in Nat : \A m \in new : m.num <= b BY DEF Bounded
<1>4. \A m \in migrations \union new : m.num \in Nat BY DEF ProjectTypes
<1>5. \A m \in migrations' : m.num <= a + b BY <1>2, <1>3, <1>4
<1>6. QED BY <1>1, <1>5 DEF ProjectTypes, Bounded

\* What the developer does keeps the types.
LEMMA DeveloperTypes ==
    ASSUME ProjectTypes,
           \/ \E n \in Files : \E d \in Edits : Project!EditYaml(n, d)
           \/ \E n \in Files : Project!RemoveYaml(n) \/ Project!WriteCode(n)
           \/ \E m \in migrations : Project!RemoveMigration(m)
    PROVE  ProjectTypes'
<1>1. CASE \E n \in Files : \E d \in Edits : Project!EditYaml(n, d)
  <2>1. PICK n \in Files, d \in Edits : Project!EditYaml(n, d) BY <1>1
  <2>2. d \in Decls BY DEF Decls
  <2>3. exit' \in Exits /\ edits' \in [count : 0 .. MaxEdits, removed : BOOLEAN]
    BY <2>1, ChangeTypes DEF Project!EditYaml
  <2>4. yaml' \in [Files -> SUBSET Decls] /\ \A k \in Files : Option(yaml'[k])
    BY <2>1, <2>2 DEF Project!EditYaml, ProjectTypes, Option
  <2>5. QED BY <2>1, <2>3, <2>4 DEF Project!EditYaml, Project!disk, ProjectTypes
<1>2. CASE \E n \in Files : Project!RemoveYaml(n)
  <2>1. PICK n \in Files : Project!RemoveYaml(n) BY <1>2
  <2>3. exit' \in Exits /\ edits' \in [count : 0 .. MaxEdits, removed : BOOLEAN]
    BY <2>1, ChangeTypes DEF Project!RemoveYaml
  <2>4. yaml' \in [Files -> SUBSET Decls] /\ \A k \in Files : Option(yaml'[k])
    BY <2>1 DEF Project!RemoveYaml, ProjectTypes, Option
  <2>5. QED BY <2>1, <2>3, <2>4 DEF Project!RemoveYaml, Project!disk, ProjectTypes
<1>3. CASE \E n \in Files : Project!WriteCode(n)
  <2>1. PICK n \in Files : Project!WriteCode(n) BY <1>3
  <2>3. exit' \in Exits /\ edits' \in [count : 0 .. MaxEdits, removed : BOOLEAN]
    BY <2>1, ChangeTypes DEF Project!WriteCode
  <2> DEFINE all == (UNION code[n]) \union Project!Referenced(yaml, n)
  <2>4. all \subseteq Named
    <3>1. UNION code[n] \subseteq Named BY DEF ProjectTypes
    <3>2. ASSUME NEW d \in yaml[n]
          PROVE  Project!collect_controller_hooks(d) \union Project!collect_custom_handlers(d)
                    \subseteq Named
      <4>1. d \in Decls BY DEF ProjectTypes
      <4>2. QED BY <4>1 DEF Named
    <3>3. QED BY <3>1, <3>2 DEF Project!Referenced
  <2>5. code' = [code EXCEPT ![n] = {all}] BY <2>1 DEF Project!WriteCode, ProjectTypes
  <2> HIDE DEF all
  <2>6. code' \in [Files -> SUBSET SUBSET Named] /\ \A k \in Files : Option(code'[k])
    BY <2>4, <2>5 DEF ProjectTypes, Option
  <2>7. QED BY <2>1, <2>3, <2>6 DEF Project!WriteCode, ProjectTypes
<1>4. CASE \E m \in migrations : Project!RemoveMigration(m)
  <2>1. PICK m \in migrations : Project!RemoveMigration(m) BY <1>4
  <2>3. exit' \in Exits /\ edits' \in [count : 0 .. MaxEdits, removed : BOOLEAN]
    BY <2>1, ChangeTypes DEF Project!RemoveMigration
  <2>4. IsFiniteSet(migrations \ {m}) BY FS_RemoveElement DEF ProjectTypes
  <2>5. Bounded(migrations \ {m}) BY DEF ProjectTypes, Bounded
  <2>6. QED BY <2>1, <2>3, <2>4, <2>5 DEF Project!RemoveMigration, ProjectTypes
<1>5. QED BY <1>1, <1>2, <1>3, <1>4

\* So does `resource create'.
LEMMA CreateTypes ==
    ASSUME ProjectTypes, NEW n \in Files, NEW archetype \in Archetypes, Project!run_create(n, archetype)
    PROVE  ProjectTypes'
<1> DEFINE d == Project!scaffold_resource_yaml[archetype]
           new == {Project!generate_initial_migration(n, Project!apply_endpoint_defaults(d))}
<1>1. d \in Decls /\ Project!apply_endpoint_defaults(d) \in Parses BY DEF Decls, Parses
<1> HIDE DEF d
<1>2. exit' \in Exits /\ edits' \in [count : 0 .. MaxEdits, removed : BOOLEAN]
  BY ChangeTypes DEF Project!run_create
<1>3. yaml' = [yaml EXCEPT ![n] = {d}] /\ migrations' = migrations \union new
  BY DEF Project!run_create, d
<1>4. Cardinality(migrations) \in Nat BY FS_CardinalityType DEF ProjectTypes
<1>5. new \subseteq [num : Nat, of : Files, decl : Parses]
  BY <1>1, <1>4, ProjectCardinality DEF Project!generate_initial_migration
<1>6. IsFiniteSet(new) BY FS_Singleton
<1>7. Bounded(new) BY <1>4, ProjectCardinality DEF Bounded, Project!generate_initial_migration
<1> HIDE DEF new
<1>8. /\ migrations' \subseteq [num : Nat, of : Files, decl : Parses]
      /\ IsFiniteSet(migrations') /\ Bounded(migrations')
  BY <1>3, <1>5, <1>6, <1>7, MigrationTypes
<1>9. yaml' \in [Files -> SUBSET Decls] /\ \A k \in Files : Option(yaml'[k])
  BY <1>1, <1>3 DEF ProjectTypes, Option
<1>10. QED BY <1>2, <1>8, <1>9 DEF Project!run_create, ProjectTypes

\* A command that starts has loaded every file; one that ends is idle.
LEMMA StartTypes ==
    ASSUME ProjectTypes,
           NEW run, NEW first, Project!Starts(run, first),
           <<run, first>> \in {<<"generate", "clear">>, <<"serve", "clear">>, <<"migrate", "files">>}
    PROVE  ProjectTypes'
<1>1. UNCHANGED <<yaml, modules, registry, code, jobs, migrations, tables, applied, checked, edits>>
  BY DEF Project!Starts, Project!disk
<1>2. Project!Parsed \in Loads /\ \A n \in Files : Option(Project!Parsed[n])
  BY ParsedTyped DEF ProjectTypes
<1>3. CASE Project!load_all_resources
  <2>1. cmd' = [run |-> run, at |-> first, load |-> Project!Parsed, next |-> 1] /\ exit' = "running"
    BY <1>3 DEF Project!Starts
  <2>2. cmd' \in Commands
    <3>1. CASE run = "migrate" BY <3>1, <2>1, <1>2 DEF Commands
    <3>2. CASE run # "migrate" BY <3>2, <2>1, <1>2 DEF Commands
    <3>3. QED BY <3>1, <3>2
  <2>3. QED BY <1>1, <1>2, <2>1, <2>2 DEF ProjectTypes, Exits
<1>4. CASE ~Project!load_all_resources
  <2>1. cmd' = Project!Idle /\ exit' = "refused" BY <1>4 DEF Project!Starts, Project!Ends
  <2>2. cmd' \in Commands /\ \A n \in Files : Option(cmd'.load[n]) BY <2>1, NothingTyped
  <2>3. QED BY <1>1, <2>1, <2>2 DEF ProjectTypes, Exits
<1>5. QED BY <1>3, <1>4

\* What is known of the command at each of its steps.
LEMMA Steps ==
    ASSUME ProjectTypes
    PROVE  /\ cmd.at \in {"clear", "modules", "registry"} =>
                  cmd \in [run : {"generate", "serve"}, at : {"clear", "modules", "registry"},
                     load : Loads,
                           next : Nat \ {0}]
           /\ cmd.at = "stubs" =>
                 cmd \in [run : {"generate"}, at : {"stubs"}, load : Loads, next : Nat \ {0}]
           /\ cmd.at \in {"files", "apply"} =>
                  cmd \in [run : {"migrate"}, at : {"files", "apply"}, load : Loads, next : Nat \ {0}]
           /\ cmd.at = "none" => cmd = Project!Idle
           /\ cmd.run = "migrate" => cmd.at \in {"files", "apply"}
           /\ cmd.at \in {"none", "clear", "modules", "registry", "stubs", "files", "apply"}
           /\ cmd.run \in {"none", "generate", "serve", "migrate"} /\ cmd.load \in Loads
<1>1. cmd \in Commands BY DEF ProjectTypes
<1>2. CASE cmd = Project!Idle BY <1>2, NothingTyped
<1>3. CASE cmd # Project!Idle BY <1>1, <1>3 DEF Commands
<1>4. QED BY <1>2, <1>3

\* An end of a command keeps the types of what it left alone.
LEMMA EndTypes ==
    ASSUME NEW c, Project!Ends(c), c \in Exits
    PROVE  cmd' \in Commands /\ (\A n \in Files : Option(cmd'.load[n])) /\ exit' \in Exits
  BY NothingTyped DEF Project!Ends

\* The steps of generate and serve keep the types.
LEMMA GenerateTypes ==
    ASSUME ProjectTypes,
           \/ Project!clear_generated_rust_files \/ Project!WriteModule
           \/ Project!WriteRegistry \/ Project!WriteStubs
    PROVE  ProjectTypes'
<1>1. CASE Project!clear_generated_rust_files
  <2>0. /\ UNCHANGED <<yaml, code, jobs, migrations, tables, applied, exit, checked, edits>>
        /\ cmd.at = "clear"
    BY <1>1 DEF Project!clear_generated_rust_files
  <2>1. CASE \E n \in Files : modules' = [modules EXCEPT ![n] = {}] /\ UNCHANGED <<registry, cmd>>
    <3>1. modules' \in Loads /\ \A n \in Files : Option(modules'[n])
      BY <2>1 DEF ProjectTypes, Loads, Option
    <3>2. QED BY <2>0, <2>1, <3>1 DEF ProjectTypes
  <2>2. CASE registry' = {} /\ UNCHANGED <<modules, cmd>>
    BY <2>0, <2>2 DEF ProjectTypes, Option
  <2>3. CASE cmd' = [cmd EXCEPT !.at = "modules"] /\ UNCHANGED <<modules, registry>>
    <3>1. cmd' \in Commands /\ cmd'.load = cmd.load BY <2>0, <2>3, Steps DEF Commands
    <3>2. QED BY <2>0, <2>3, <3>1 DEF ProjectTypes
  <2>4. QED BY <1>1, <2>1, <2>2, <2>3 DEF Project!clear_generated_rust_files, Files
<1>2. CASE Project!WriteModule
  <2>0. /\ UNCHANGED <<yaml, registry, code, jobs, migrations, tables, applied, exit, checked, edits>>
        /\ cmd.at = "modules"
    BY <1>2 DEF Project!WriteModule
  <2>1. CASE cmd.next > Len(Names)
    <3>1. cmd' = [cmd EXCEPT !.at = "registry"] /\ UNCHANGED modules
      BY <1>2, <2>1 DEF Project!WriteModule
    <3>2. cmd' \in Commands /\ cmd'.load = cmd.load BY <2>0, <3>1, Steps DEF Commands
    <3>3. QED BY <2>0, <3>1, <3>2 DEF ProjectTypes
  <2>2. CASE ~(cmd.next > Len(Names))
    <3> DEFINE n == Project!Name(cmd.next)
    <3>1. cmd.next \in 1 .. Len(Names) BY <2>0, <2>2, Steps, NamesAre
    <3>2. n \in Files BY <3>1, NamesAre
    <3>3. modules' = [modules EXCEPT ![n] = cmd.load[n]] /\ cmd' = [cmd EXCEPT !.next = @ + 1]
      BY <1>2, <2>2 DEF Project!WriteModule
    <3> HIDE DEF n
    <3>4. cmd' \in Commands /\ cmd'.load = cmd.load BY <2>0, <3>3, Steps DEF Commands
    <3>5. cmd.load \in Loads BY Steps
    <3>6. modules' \in Loads /\ \A k \in Files : Option(modules'[k])
      BY <3>2, <3>3, <3>5 DEF ProjectTypes, Loads
    <3>7. QED BY <2>0, <3>4, <3>6 DEF ProjectTypes
  <2>3. QED BY <2>1, <2>2
<1>3. CASE Project!WriteRegistry
  <2>0. /\ UNCHANGED <<yaml, modules, code, jobs, migrations, tables, applied, checked, edits>>
        /\ cmd.at = "registry" /\ registry' = {cmd.load}
    BY <1>3 DEF Project!WriteRegistry
  <2>1. registry' \subseteq Loads /\ Option(registry') BY <2>0, Steps DEF Option
  <2>2. CASE cmd.run = "serve"
    <3>1. Project!Ends("serve") BY <1>3, <2>2 DEF Project!WriteRegistry
    <3>2. QED BY <2>0, <2>1, <3>1, EndTypes DEF ProjectTypes, Exits
  <2>3. CASE cmd.run # "serve"
    <3>1. cmd' = [cmd EXCEPT !.at = "stubs"] /\ UNCHANGED exit BY <1>3, <2>3 DEF Project!WriteRegistry
    <3>2. cmd' \in Commands /\ cmd'.load = cmd.load BY <2>0, <2>3, <3>1, Steps DEF Commands
    <3>3. QED BY <2>0, <2>1, <3>1, <3>2 DEF ProjectTypes
  <2>4. QED BY <2>2, <2>3
<1>4. CASE Project!WriteStubs
  <2>0. /\ UNCHANGED <<yaml, modules, registry, migrations, tables, applied, checked, edits>>
        /\ cmd.at = "stubs"
    BY <1>4 DEF Project!WriteStubs
  <2>1. CASE Project!write_stubs(cmd.load) /\ Project!Ends("generate")
    <3>1. \A n \in Files : Project!Referenced(cmd.load, n) \subseteq Named
      <4>1. TAKE n \in Files
      <4>2. cmd.load[n] \subseteq Parses BY Steps DEF Loads
      <4>3. QED BY <4>2 DEF Project!Referenced, Named
    <3>2. code' \in [Files -> SUBSET SUBSET Named] /\ \A n \in Files : Option(code'[n])
      BY <2>1, <3>1 DEF Project!write_stubs, ProjectTypes, Files, Option
    <3>3. QED BY <2>0, <2>1, <3>2, EndTypes DEF ProjectTypes, Exits
  <2>2. CASE UNCHANGED code /\ Project!Ends("warned")
    BY <2>0, <2>2, EndTypes DEF ProjectTypes, Exits
  <2>3. QED BY <1>4, <2>1, <2>2 DEF Project!WriteStubs
<1>5. QED BY <1>1, <1>2, <1>3, <1>4

\* What migrate adds for a file: a migration if there is none, numbered above all.
LEMMA FileIs ==
    ASSUME ProjectTypes, cmd.at = "files", ~(cmd.next > Len(Names)), Project!MigrationFile
    PROVE  \E n, new :
              /\ n \in Files /\ n = Project!Name(cmd.next)
              /\ new = {[num |-> Project!compute_next_version, of |-> n, decl |-> d] :
                           d \in {x \in cmd.load[n] : ~Project!migration_exists(n)}}
              /\ new \subseteq [num : Nat, of : Files, decl : Parses] /\ IsFiniteSet(new) /\ Bounded(new)
              /\ Option(new) /\ migrations' = migrations \union new /\ cmd' = [cmd EXCEPT !.next = @ + 1]
<1> DEFINE n == Project!Name(cmd.next)
           made(d) == [num |-> Project!compute_next_version, of |-> n, decl |-> d]
           D == {x \in cmd.load[n] : ~Project!migration_exists(n)}
           new == {made(d) : d \in D}
<1>1. cmd.next \in 1 .. Len(Names) BY Steps, NamesAre
<1>2. n \in Files BY <1>1, NamesAre
<1>3. migrations' = migrations \union new /\ cmd' = [cmd EXCEPT !.next = @ + 1]
  BY DEF Project!MigrationFile
<1> HIDE DEF n
<1>4. D \subseteq Parses /\ Option(D) BY <1>2, Steps DEF ProjectTypes, Loads, Option
<1>5. Project!compute_next_version \in Nat BY NextVersion DEF ProjectTypes
<1>6. new \subseteq [num : Nat, of : Files, decl : Parses] BY <1>2, <1>4, <1>5
<1>7. Bounded(new) BY <1>5 DEF Bounded
<1> HIDE DEF D
<1>8. Option(new) BY <1>4 DEF Option
<1>9. IsFiniteSet(new)
  <2>1. CASE D = {} BY <2>1, FS_EmptySet
  <2>2. CASE D # {}
    <3>1. PICK d : d \in D BY <2>2
    <3>2. new = {made(d)} BY <3>1, <1>4 DEF Option
    <3>3. QED BY <3>2, FS_Singleton
  <2>3. QED BY <2>1, <2>2
<1>10. QED BY <1>2, <1>3, <1>6, <1>7, <1>8, <1>9 DEF n, D

\* What sqlx does: it ends the command, or applies one pending migration, the
\* first that no other has the number of.
LEMMA ApplyIs ==
    ASSUME Project!SqlxApply
    PROVE  /\ cmd.run = "migrate" /\ cmd.at = "apply"
           /\ UNCHANGED <<yaml, modules, registry, code, jobs, migrations, checked, edits>>
           /\ \/ /\ Project!Ends("migrate") /\ UNCHANGED <<tables, applied>>
                 /\ Project!Pending = {} /\ applied \subseteq Project!Numbers
              \/ Project!Ends("failed") /\ UNCHANGED <<tables, applied>>
              \/ /\ UNCHANGED <<cmd, exit>> /\ applied \subseteq Project!Numbers
                 /\ \E m \in migrations :
                      /\ m.num \notin applied /\ applied' = applied \union {m.num}
                      /\ tables' = IF tables[m.of] = {}
                            THEN [tables EXCEPT ![m.of] = {m.decl}] ELSE tables
<1> DEFINE done == /\ Project!Pending = {} /\ applied \subseteq Project!Numbers
                   /\ \A m, l \in migrations : m.num = l.num => m = l
           first(m) == \A l \in Project!Pending : m.num < l.num \/ m = l
           more == /\ applied \subseteq Project!Numbers /\ Project!Pending # {}
                   /\ \E m \in Project!Pending : first(m)
<1>1. CASE done BY <1>1 DEF Project!SqlxApply
<1>2. CASE ~done /\ ~more BY <1>2 DEF Project!SqlxApply
<1>3. CASE ~done /\ more
  <2> DEFINE m == CHOOSE x \in Project!Pending : first(x)
  <2>1. m \in Project!Pending BY <1>3
  <2>2. /\ applied' = applied \union {m.num} /\ UNCHANGED <<cmd, exit>>
        /\ tables' = IF tables[m.of] = {} THEN [tables EXCEPT ![m.of] = {m.decl}] ELSE tables
    BY <1>3 DEF Project!SqlxApply
  <2> HIDE DEF m
  <2>3. m \in migrations /\ m.num \notin applied BY <2>1 DEF Project!Pending
  <2>4. applied \subseteq Project!Numbers BY <1>3
  <2>5. QED BY <2>2, <2>3, <2>4 DEF Project!SqlxApply
<1>4. QED BY <1>1, <1>2, <1>3

\* The steps of migrate keep the types.
LEMMA MigrateTypes ==
    ASSUME ProjectTypes, Project!MigrationFile \/ Project!SqlxApply
    PROVE  ProjectTypes'
<1>1. CASE Project!MigrationFile
  <2>0. /\ UNCHANGED <<yaml, modules, registry, code, jobs, tables, applied, exit, checked, edits>>
        /\ cmd.at = "files" /\ cmd.run = "migrate"
    BY <1>1 DEF Project!MigrationFile
  <2>1. CASE cmd.next > Len(Names)
    <3>1. cmd' = [cmd EXCEPT !.at = "apply"] /\ UNCHANGED migrations
      BY <1>1, <2>1 DEF Project!MigrationFile
    <3>2. cmd' \in Commands /\ cmd'.load = cmd.load BY <2>0, <3>1, Steps DEF Commands
    <3>3. QED BY <2>0, <3>1, <3>2 DEF ProjectTypes
  <2>2. CASE ~(cmd.next > Len(Names))
    <3>1. PICK new : /\ new
                  \subseteq [num : Nat, of : Files, decl : Parses] /\ IsFiniteSet(new) /\ Bounded(new)
                     /\ migrations' = migrations \union new /\ cmd' = [cmd EXCEPT !.next = @ + 1]
      BY <1>1, <2>0, <2>2, FileIs
    <3>2. /\ migrations' \subseteq [num : Nat, of : Files, decl : Parses]
          /\ IsFiniteSet(migrations') /\ Bounded(migrations')
      BY <3>1, MigrationTypes
    <3>3. cmd' \in Commands /\ cmd'.load = cmd.load BY <2>0, <3>1, Steps DEF Commands
    <3>4. QED BY <2>0, <3>2, <3>3 DEF ProjectTypes
  <2>3. QED BY <2>1, <2>2
<1>2. CASE Project!SqlxApply
  <2>0. UNCHANGED <<yaml, modules, registry, code, jobs, migrations, checked, edits>> BY <1>2, ApplyIs
  <2>1. CASE (Project!Ends("migrate") \/ Project!Ends("failed")) /\ UNCHANGED <<tables, applied>>
    BY <2>0, <2>1, EndTypes DEF ProjectTypes, Exits
  <2>2. CASE /\ UNCHANGED <<cmd, exit>>
             /\ \E m \in migrations :
                  /\ applied' = applied \union {m.num}
                  /\ tables' = IF tables[m.of] = {} THEN [tables EXCEPT ![m.of] = {m.decl}] ELSE tables
    <3>1. PICK m \in migrations :
                  /\ applied' = applied \union {m.num}
                  /\ tables' = IF tables[m.of] = {} THEN [tables EXCEPT ![m.of] = {m.decl}] ELSE tables
      BY <2>2
    <3>2. m.num \in Nat /\ m.of \in Files /\ m.decl \in Parses BY DEF ProjectTypes
    <3>3. applied' \subseteq Nat BY <3>1, <3>2 DEF ProjectTypes
    <3>4. tables' \in Loads /\ \A n \in Files : Option(tables'[n])
      BY <3>1, <3>2 DEF ProjectTypes, Loads, Option
    <3>5. QED BY <2>0, <2>2, <3>3, <3>4 DEF ProjectTypes
  <2>3. QED BY <1>2, <2>1, <2>2, ApplyIs
<1>3. QED BY <1>1, <1>2

\* The directory before any command: empty, or with one file to be tried.
LEMMA ProjectInitTypes == Project!Init => ProjectTypes
<1> SUFFICES ASSUME Project!Init PROVE ProjectTypes OBVIOUS
<1>1. yaml \in [Files -> SUBSET Decls] /\ \A n \in Files : Option(yaml[n])
  <2>1. CASE yaml = Project!Nothing BY <2>1, NothingTyped DEF Loads
  <2>2. CASE \E d \in Trials : yaml = [Project!Nothing EXCEPT ![Project!Name(1)] = {d}]
    <3>1. PICK d \in Trials : yaml = [Project!Nothing EXCEPT ![Project!Name(1)] = {d}] BY <2>2
    <3>2. d \in Decls BY DEF Decls
    <3>3. Project!Nothing = [n \in Files |-> {}] BY NothingTyped
    <3>4. QED BY <3>1, <3>2, <3>3 DEF Option
  <2>3. QED BY <2>1, <2>2 DEF Project!Init
<1>2. edits \in [count : 0 .. MaxEdits, removed : BOOLEAN]
  <2>1. 0 \in 0 .. MaxEdits /\ MaxEdits \in 0 .. MaxEdits BY NamesAre
  <2>2. edits = [count |-> 0, removed |-> FALSE] \/ edits = [count |-> MaxEdits, removed |-> FALSE]
    BY DEF Project!Init
  <2>3. [count |-> 0, removed |-> FALSE] \in [count : 0 .. MaxEdits, removed : BOOLEAN] BY <2>1
  <2>4. [count |-> MaxEdits, removed |-> FALSE] \in [count : 0 .. MaxEdits, removed : BOOLEAN] BY <2>1
  <2>5. QED BY <2>2, <2>3, <2>4, Zenon
<1>3. /\ modules \in Loads /\ \A n \in Files : Option(modules[n])
      /\ tables \in Loads /\ \A n \in Files : Option(tables[n])
      /\ code \in [Files -> SUBSET SUBSET Named] /\ \A n \in Files : Option(code[n])
  BY NothingTyped DEF Project!Init
<1>4. registry \subseteq Loads /\ Option(registry) /\ applied \subseteq Nat BY DEF Project!Init, Option
<1>5. IsFiniteSet(migrations) /\ Bounded(migrations) /\ migrations
         \subseteq [num : Nat, of : Files, decl : Parses]
  BY FS_EmptySet DEF Project!Init, Bounded
<1>6. cmd \in Commands /\ \A n \in Files : Option(cmd.load[n]) BY NothingTyped DEF Project!Init
<1>7. exit \in Exits /\ checked \in {"none", "clean", "errors", "panicked"} BY DEF Project!Init, Exits
<1>8. QED BY <1>1, <1>2, <1>3, <1>4, <1>5, <1>6, <1>7 DEF ProjectTypes

\* Every step of a project keeps the types.
LEMMA ProjectTypesKept == ProjectTypes /\ Project!Next => ProjectTypes'
<1> SUFFICES ASSUME ProjectTypes, Project!Next PROVE ProjectTypes' OBVIOUS
<1>1. CASE \E n \in Files, archetype \in Archetypes : Project!run_create(n, archetype)
  BY <1>1, CreateTypes
<1>2. CASE \/ Project!Starts("generate", "clear") \/ Project!Starts("serve", "clear")
           \/ Project!Starts("migrate", "files")
  BY <1>2, StartTypes
<1>3. CASE Project!check BY <1>3 DEF Project!check, Project!disk, ProjectTypes
<1>4. CASE Project!Interrupted
  <2>1. UNCHANGED <<yaml, modules, registry, code, jobs, migrations, tables, applied, checked, edits>>
    BY <1>4 DEF Project!Interrupted, Project!disk
  <2>2. Project!Ends("interrupted") BY <1>4 DEF Project!Interrupted
  <2>3. QED BY <2>1, <2>2, EndTypes DEF ProjectTypes, Exits
<1>5. QED BY <1>1, <1>2, <1>3, <1>4, DeveloperTypes, GenerateTypes, MigrateTypes DEF Project!Next, Files

-----------------------------------------------------------------------------
(* The tree of one load.  A command works on what it loaded, and the files    *)
(* do not change under it (OnFiles).  While mod.rs is there, each module of   *)
(* its load is gone or is of that load (RegistryFits); generate and serve     *)
(* have removed mod.rs before they write the first module, and the modules    *)
(* written so far are of the load (Written).  That mod.rs is removed, and     *)
(* not just replaced, is what makes a stop between two files harmless.        *)

OnFiles ==
    /\ cmd # Project!Idle => cmd.load = Project!Parsed /\ Project!load_all_resources /\ exit = "running"
    /\ exit = "refused" => ~Project!load_all_resources

RegistryFits ==
    \A load \in registry : \A n \in Files : load[n] # {} => modules[n] = {} \/ modules[n] = load[n]

Written ==
    /\ cmd.at = "clear" => cmd.next = 1
    /\ cmd.at \in {"modules", "registry"} => registry = {}
    /\ cmd.at = "modules" =>
          /\ \A n \in Files : modules[n] = {} \/ modules[n] = cmd.load[n]
          /\ \A k \in 1 .. Len(Names) : k < cmd.next =>
                modules[Project!Name(k)] = cmd.load[Project!Name(k)]
    /\ cmd.at = "registry" => modules = cmd.load
    /\ cmd.at = "stubs" => modules = cmd.load /\ registry = {cmd.load}

Delivered == exit = "generate" => Project!load_all_resources /\ Project!GenerateDelivers

Tree == OnFiles /\ RegistryFits /\ Written /\ Delivered

\* The tree before any command.
LEMMA TreeInit == Project!Init => Tree
  BY NothingTyped DEF Project!Init, Tree, OnFiles, RegistryFits, Written, Delivered

\* A change of the developer's takes place between two commands, and leaves the
\* modules and mod.rs alone.
LEMMA ChangeKeepsTree ==
    ASSUME ProjectTypes, Tree, NEW e, Project!Changes(e), UNCHANGED <<modules, registry, cmd>>
    PROVE  Tree'
<1>1. cmd = Project!Idle /\ exit' = "stale" BY DEF Project!Changes
<1>2. cmd' = cmd /\ cmd.at = "none" BY <1>1, NothingTyped
<1>3. OnFiles' BY <1>1, <1>2 DEF OnFiles
<1>4. RegistryFits' BY DEF Tree, RegistryFits
<1>5. Written' BY <1>2 DEF Written
<1>6. Delivered' BY <1>1 DEF Delivered
<1>7. QED BY <1>3, <1>4, <1>5, <1>6 DEF Tree

\* What depends on the files alone is what it was while they do not change.
LEMMA FilesKept ==
    ASSUME UNCHANGED yaml
    PROVE  Project!Parsed' = Project!Parsed
              /\ (Project!load_all_resources' <=> Project!load_all_resources)
  BY DEF Project!Parsed, Project!load_all_resources

\* A command that starts has loaded the files as they are.
LEMMA StartKeepsTree ==
    ASSUME ProjectTypes, Tree,
           NEW run, NEW first, Project!Starts(run, first),
           <<run, first>> \in {<<"generate", "clear">>, <<"serve", "clear">>, <<"migrate", "files">>}
    PROVE  Tree'
<1>1. UNCHANGED <<yaml, modules, registry, code, jobs>> BY DEF Project!Starts, Project!disk
<1>2. Project!Parsed' = Project!Parsed /\ (Project!load_all_resources' <=> Project!load_all_resources)
  BY <1>1, FilesKept
<1>3. RegistryFits' BY <1>1 DEF Tree, RegistryFits
<1>4. CASE Project!load_all_resources
  <2>1. cmd' = [run |-> run, at |-> first, load |-> Project!Parsed, next |-> 1] /\ exit' = "running"
    BY <1>4 DEF Project!Starts
  <2>2. cmd'.at \in {"clear", "files"} BY <2>1
  <2>3. QED BY <1>2, <1>3, <1>4, <2>1, <2>2 DEF Tree, OnFiles, Written, Delivered
<1>5. CASE ~Project!load_all_resources
  <2>1. cmd' = Project!Idle /\ exit' = "refused" BY <1>5 DEF Project!Starts, Project!Ends
  <2>2. cmd'.at = "none" BY <2>1, NothingTyped
  <2>3. QED BY <1>2, <1>3, <1>5, <2>1, <2>2 DEF Tree, OnFiles, Written, Delivered
<1>6. QED BY <1>4, <1>5

\* So does a command that ends, unless it is a generate that says it was done.
LEMMA EndKeepsTree ==
    ASSUME ProjectTypes, Tree, NEW c, Project!Ends(c), c \notin {"generate", "refused"},
           UNCHANGED <<yaml, modules, registry>>
    PROVE  Tree'
<1>1. cmd' = Project!Idle /\ exit' = c BY DEF Project!Ends
<1>2. cmd'.at = "none" BY <1>1, NothingTyped
<1>3. RegistryFits' BY DEF Tree, RegistryFits
<1>4. QED BY <1>1, <1>2, <1>3 DEF Tree, OnFiles, Written, Delivered

\* A step within a command that leaves the files and the exit code alone keeps
\* OnFiles and Delivered.
LEMMA StepKeepsFiles ==
    ASSUME ProjectTypes, Tree, cmd.at # "none", UNCHANGED <<yaml, exit>>, cmd'.load = cmd.load
    PROVE  OnFiles' /\ Delivered' /\ exit = "running" /\ cmd.load = Project!Parsed
<1>1. cmd # Project!Idle BY NothingTyped
<1>2. exit = "running" /\ cmd.load = Project!Parsed /\ Project!load_all_resources
  BY <1>1 DEF Tree, OnFiles
<1>3. QED BY <1>2, FilesKept DEF OnFiles, Delivered

\* Clearing: a module less, mod.rs gone, or all gone.
LEMMA ClearKeepsTree ==
    ASSUME ProjectTypes, Tree, Project!clear_generated_rust_files
    PROVE  Tree'
<1>0. UNCHANGED <<yaml, exit>> /\ cmd.at = "clear" BY DEF Project!clear_generated_rust_files
<1>1. CASE \E n \in Files : modules' = [modules EXCEPT ![n] = {}] /\ UNCHANGED <<registry, cmd>>
  <2>1. RegistryFits' BY <1>1 DEF Tree, RegistryFits, ProjectTypes, Loads
  <2>2. QED BY <1>0, <1>1, <2>1, StepKeepsFiles DEF Tree, Written
<1>2. CASE registry' = {} /\ UNCHANGED <<modules, cmd>>
  <2>1. RegistryFits' BY <1>2 DEF RegistryFits
  <2>2. QED BY <1>0, <1>2, <2>1, StepKeepsFiles DEF Tree, Written
<1>3. CASE /\ modules = Project!Nothing /\ registry = {}
           /\ cmd' = [cmd EXCEPT !.at = "modules"] /\ UNCHANGED <<modules, registry>>
  <2>1. cmd \in [run : {"generate", "serve"}, at : {"clear", "modules", "registry"}, load : Loads,
                 next : Nat \ {0}]
    BY <1>0, Steps
  <2>2. cmd'.at = "modules" /\ cmd'.load = cmd.load /\ cmd'.next = cmd.next BY <2>1, <1>3
  <2>3. \A n \in Files : modules'[n] = {} BY <1>3, NothingTyped
  <2>4. cmd'.next = 1 BY <1>0, <2>2 DEF Tree, Written
  <2>5. \A k \in 1 .. Len(Names) : ~(k < cmd'.next) BY <2>4, NamesAre
  <2>6. Written' BY <1>3, <2>2, <2>3, <2>5 DEF Written
  <2>7. RegistryFits' BY <1>3 DEF RegistryFits
  <2>8. QED BY <1>0, <2>2, <2>6, <2>7, StepKeepsFiles DEF Tree
<1>4. QED BY <1>1, <1>2, <1>3 DEF Project!clear_generated_rust_files, Files

\* The modules are written one by one; mod.rs is not there.
LEMMA WriteModuleKeepsTree ==
    ASSUME ProjectTypes, Tree, Project!WriteModule
    PROVE  Tree'
<1>0. UNCHANGED <<yaml, registry, exit>> /\ cmd.at = "modules" /\ registry = {}
  BY DEF Project!WriteModule, Tree, Written
<1>1. cmd \in [run : {"generate", "serve"}, at : {"clear", "modules", "registry"}, load : Loads,
         next : Nat \ {0}]
  BY <1>0, Steps
<1>2. RegistryFits' BY <1>0 DEF RegistryFits
<1>3. CASE cmd.next > Len(Names)
  <2>1. cmd' = [cmd EXCEPT !.at = "registry"] /\ UNCHANGED modules BY <1>3 DEF Project!WriteModule
  <2>2. cmd'.at = "registry" /\ cmd'.load = cmd.load BY <1>1, <2>1
  <2>3. \A n \in Files : modules[n] = cmd.load[n]
    <3>1. TAKE n \in Files
    <3>2. PICK k \in 1 .. Len(Names) : Project!Name(k) = n BY NamesAre
    <3>3. k < cmd.next BY <1>1, <1>3, <3>2, NamesAre
    <3>4. QED BY <1>0, <3>2, <3>3 DEF Tree, Written
  <2>4. modules = cmd.load BY <1>1, <2>3 DEF ProjectTypes, Loads
  <2>5. Written' BY <1>0, <2>1, <2>2, <2>4 DEF Written
  <2>6. QED BY <1>0, <1>2, <2>2, <2>5, StepKeepsFiles DEF Tree
<1>4. CASE ~(cmd.next > Len(Names))
  <2> DEFINE n == Project!Name(cmd.next)
  <2>1. cmd.next \in 1 .. Len(Names) BY <1>1, <1>4, NamesAre
  <2>2. n \in Files BY <2>1, NamesAre
  <2>3. modules' = [modules EXCEPT ![n] = cmd.load[n]] /\ cmd' = [cmd EXCEPT !.next = @ + 1]
    BY <1>4 DEF Project!WriteModule
  <2> HIDE DEF n
  <2>4. cmd'.at = "modules" /\ cmd'.load = cmd.load /\ cmd'.next = cmd.next + 1 BY <1>0, <1>1, <2>3
  <2>5. \A m \in Files : modules'[m] = IF m = n THEN cmd.load[n] ELSE modules[m]
    BY <2>2, <2>3 DEF ProjectTypes, Loads
  <2>6. ASSUME NEW k \in 1 .. Len(Names), k < cmd'.next
        PROVE  modules'[Project!Name(k)] = cmd.load[Project!Name(k)]
    <3>1. Project!Name(k) \in Files BY NamesAre
    <3>2. k = cmd.next \/ k < cmd.next BY <2>4, <2>6, <1>1, NamesAre
    <3>3. CASE k = cmd.next BY <3>1, <3>3, <2>5 DEF n
    <3>4. CASE k < cmd.next
      <4>1. modules[Project!Name(k)] = cmd.load[Project!Name(k)] BY <3>4, <1>0 DEF Tree, Written
      <4>2. QED BY <3>1, <4>1, <2>5
    <3>5. QED BY <3>2, <3>3, <3>4
  <2>7. \A m \in Files : modules'[m] = {} \/ modules'[m] = cmd.load[m] BY <1>0, <2>5 DEF Tree, Written
  <2>8. Written' BY <1>0, <2>4, <2>6, <2>7 DEF Written
  <2>9. QED BY <1>0, <1>2, <2>4, <2>8, StepKeepsFiles DEF Tree
<1>5. QED BY <1>3, <1>4

\* mod.rs is written last, when all modules are of its load.
LEMMA WriteRegistryKeepsTree ==
    ASSUME ProjectTypes, Tree, Project!WriteRegistry
    PROVE  Tree'
<1>0. UNCHANGED <<yaml, modules>> /\ cmd.at = "registry" /\ registry' = {cmd.load} /\ modules = cmd.load
  BY DEF Project!WriteRegistry, Tree, Written
<1>1. cmd \in [run : {"generate", "serve"}, at : {"clear", "modules", "registry"}, load : Loads,
         next : Nat \ {0}]
  BY <1>0, Steps
<1>2. RegistryFits' BY <1>0 DEF RegistryFits
<1>3. CASE cmd.run = "serve"
  <2>1. cmd' = Project!Idle /\ exit' = "serve" BY <1>3 DEF Project!WriteRegistry, Project!Ends
  <2>2. cmd'.at = "none" BY <2>1, NothingTyped
  <2>3. QED BY <1>2, <2>1, <2>2 DEF Tree, OnFiles, Written, Delivered
<1>4. CASE cmd.run # "serve"
  <2>1. cmd' = [cmd EXCEPT !.at = "stubs"] /\ UNCHANGED exit BY <1>4 DEF Project!WriteRegistry
  <2>2. cmd'.at = "stubs" /\ cmd'.load = cmd.load BY <1>1, <2>1
  <2>3. Written' BY <1>0, <2>2 DEF Written
  <2>4. QED BY <1>0, <1>2, <2>1, <2>2, <2>3, StepKeepsFiles DEF Tree
<1>5. QED BY <1>3, <1>4

\* generate ends with 0 when the stubs are written: a function that is still
\* missing is missing in a file that was there before.
LEMMA WriteStubsKeepsTree ==
    ASSUME ProjectTypes, Tree, Project!WriteStubs
    PROVE  Tree'
<1> DEFINE load == cmd.load
<1>0. /\ UNCHANGED <<yaml, modules, registry>> /\ cmd.at = "stubs"
      /\ modules = load /\ registry = {load}
  BY DEF Project!WriteStubs, Tree, Written
<1>1. CASE Project!Ends("warned") BY <1>0, <1>1, EndKeepsTree
<1>2. CASE Project!write_stubs(load) /\ jobs' = jobs \union Project!AllJobs(load)
              /\ Project!Ends("generate")
  <2>1. cmd' = Project!Idle /\ exit' = "generate" BY <1>2 DEF Project!Ends
  <2>2. cmd'.at = "none" BY <2>1, NothingTyped
  <2>3. cmd # Project!Idle BY <1>0, NothingTyped
  <2>4. load = Project!Parsed /\ Project!load_all_resources BY <2>3 DEF Tree, OnFiles
  <2>5. Project!Parsed' = Project!Parsed /\ Project!load_all_resources' BY <1>0, <2>4, FilesKept
  <2>6. modules' = Project!Parsed' BY <1>0, <2>4, <2>5
  <2>7. load \in Loads BY Steps
  <2>8. \A n \in Files : code'[n] = IF Project!Referenced(load, n) = {} \/ code[n] # {} THEN code[n]
                                    ELSE {Project!Referenced(load, n)}
    BY <1>2 DEF Project!write_stubs, Files
  <2>9. SUFFICES ASSUME ~Project!Compiles'
                 PROVE  \E n \in Files : code'[n] # {} /\ ~ Project!Referenced(load, n)
                           \subseteq UNION code'[n]
    <3>1. modules' = load BY <1>0
    <3>2. Project!GenerateDelivers'
      BY <2>6, <2>9, <3>1 DEF Project!GenerateDelivers, Project!Referenced, Files
    <3>3. RegistryFits' BY <1>0 DEF RegistryFits
    <3>4. QED BY <2>1, <2>2, <2>5, <3>2, <3>3 DEF Tree, OnFiles, Written, Delivered
  <2>10. registry' = {load} /\ modules' = load /\ Project!AllJobs(load) \subseteq jobs' BY <1>0, <1>2
  <2>11. \E n \in Files : ~ Project!Referenced(load, n) \subseteq UNION code'[n]
    BY <2>9, <2>10 DEF Project!Compiles, Project!Loaded, Project!Referenced, Project!AllJobs, Files
  <2>12. QED BY <2>8, <2>11
<1>3. QED BY <1>1, <1>2 DEF Project!WriteStubs

\* Every step of a project keeps the tree.
LEMMA TreeKept == ProjectTypes /\ Tree /\ Project!Next => Tree'
<1> SUFFICES ASSUME ProjectTypes, Tree, Project!Next PROVE Tree' OBVIOUS
<1>1. CASE \/ \E n \in Files : \E d \in Edits : Project!EditYaml(n, d)
           \/ \E n \in Files, archetype \in Archetypes : Project!run_create(n, archetype)
           \/ \E n \in Files : Project!RemoveYaml(n) \/ Project!WriteCode(n)
           \/ \E m \in migrations : Project!RemoveMigration(m)
  BY <1>1, ChangeKeepsTree
     DEF Project!EditYaml, Project!run_create, Project!RemoveYaml, Project!WriteCode,
             Project!RemoveMigration,
         Project!disk
<1>2. CASE \/ Project!Starts("generate", "clear") \/ Project!Starts("serve", "clear")
           \/ Project!Starts("migrate", "files")
  BY <1>2, StartKeepsTree
<1>3. CASE Project!check
  <2>1. UNCHANGED <<yaml, modules, registry, code, jobs, cmd, exit>>
    BY <1>3 DEF Project!check, Project!disk
  <2>2. Project!Parsed' = Project!Parsed /\ (Project!load_all_resources' <=> Project!load_all_resources)
    BY <2>1, FilesKept
  <2>3. Project!GenerateDelivers' <=> Project!GenerateDelivers
    BY <2>1, <2>2
         DEF Project!GenerateDelivers, Project!Compiles, Project!Loaded, Project!Referenced,
                 Project!AllJobs
  <2>4. RegistryFits' BY <2>1 DEF Tree, RegistryFits
  <2>5. QED BY <2>1, <2>2, <2>3, <2>4 DEF Tree, OnFiles, Written, Delivered
<1>4. CASE Project!Interrupted
  <2>1. UNCHANGED <<yaml, modules, registry>> /\ Project!Ends("interrupted")
    BY <1>4 DEF Project!Interrupted, Project!disk
  <2>2. QED BY <2>1, EndKeepsTree
<1>5. CASE Project!MigrationFile
  <2>1. UNCHANGED <<yaml, modules, registry, exit>> /\ cmd.at = "files" BY <1>5 DEF Project!MigrationFile
  <2>2. cmd'.load = cmd.load /\ cmd'.at \in {"files", "apply"}
    BY <1>5, <2>1, Steps DEF Project!MigrationFile
  <2>3. RegistryFits' BY <2>1 DEF Tree, RegistryFits
  <2>4. QED BY <2>1, <2>2, <2>3, StepKeepsFiles DEF Tree, Written
<1>6. CASE Project!SqlxApply
  <2>1. UNCHANGED <<yaml, modules, registry>> /\ cmd.at = "apply" BY <1>6, ApplyIs
  <2>2. CASE Project!Ends("migrate") \/ Project!Ends("failed") BY <2>1, <2>2, EndKeepsTree
  <2>3. CASE UNCHANGED <<cmd, exit>>
    <3>1. RegistryFits' BY <2>1 DEF Tree, RegistryFits
    <3>2. QED BY <2>1, <2>3, <3>1, StepKeepsFiles DEF Tree, Written
  <2>4. QED BY <1>6, <2>2, <2>3, ApplyIs
<1>7. QED BY <1>1, <1>2, <1>3, <1>4, <1>5, <1>6, ClearKeepsTree, WriteModuleKeepsTree,
        WriteRegistryKeepsTree,
             WriteStubsKeepsTree DEF Project!Next, Files

-----------------------------------------------------------------------------
(* Migrations.  As long as none is removed they are numbered 1, 2, ... with   *)
(* no gap, so that the number of files, which `resource create' takes, and    *)
(* the highest number, which migrate takes, are the same (Numbered).  The     *)
(* recorded versions have files and their tables (Recorded), and while        *)
(* migrate runs the files seen so far have a migration (Covered).             *)

\* How many migrations there are.
Exact == Cardinality(migrations)

Numbered ==
    /\ \A m \in migrations : m.num \in 1 .. Exact
    /\ \A k \in 1 .. Exact : \E m \in migrations : m.num = k
    /\ \A m, l \in migrations : m.num = l.num => m = l

Recorded ==
    /\ \A k \in applied : \E m \in migrations : m.num = k
    /\ \A m \in migrations : m.num \in applied => tables[m.of] # {}
    /\ \A n \in Files : tables[n] # {} => \E m \in migrations : m.of = n /\ tables[n] = {m.decl}

Covered ==
    /\ cmd.at = "files" =>
          \A k \in 1 .. Len(Names) :
              k < cmd.next /\ yaml[Project!Name(k)] # {} => Project!migration_exists(Project!Name(k))
    /\ cmd.at = "apply" => \A n \in Files : yaml[n] # {} => Project!migration_exists(n)
    /\ exit = "migrate" => /\ \A n \in Files : yaml[n] # {} => Project!migration_exists(n)
                           /\ \A m \in migrations : m.num \in applied

Migrating == ~edits.removed => Numbered /\ Recorded /\ Covered

\* The directory starts without migrations.
LEMMA MigratingInit == Project!Init => Migrating
<1> SUFFICES ASSUME Project!Init PROVE Numbered /\ Recorded /\ Covered BY DEF Migrating
<1>1. migrations = {} /\ tables = Project!Nothing /\ applied = {} /\ cmd = Project!Idle /\ exit = "none"
  BY DEF Project!Init
<1>2. Exact = 0 BY <1>1, FS_EmptySet DEF Exact
<1>3. 1 .. Exact = {} BY <1>2
<1>4. Numbered BY <1>1, <1>3 DEF Numbered
<1>5. Recorded BY <1>1, NothingTyped DEF Recorded
<1>6. Covered BY <1>1, NothingTyped DEF Covered
<1>7. QED BY <1>4, <1>5, <1>6

\* A migration with the next number is added to those there are.
LEMMA OneMore ==
    ASSUME ProjectTypes, Numbered, Recorded, NEW new, new.num = Exact + 1,
           migrations' = migrations \union {new}, UNCHANGED <<applied, tables>>
    PROVE  Numbered' /\ Recorded'
<1>1. Exact \in Nat /\ IsFiniteSet(migrations) BY FS_CardinalityType DEF ProjectTypes, Exact
<1>2. new \notin migrations BY <1>1 DEF Numbered
<1>3. Exact' = Exact + 1 BY <1>1, <1>2, FS_AddElement DEF Exact
<1>4. \A m \in migrations : m.num \in 1 .. Exact BY DEF Numbered
<1>5. 1 .. Exact' = (1 .. Exact) \union {Exact + 1} BY <1>1, <1>3
<1>6. \A m \in migrations : m.num # new.num BY <1>1, <1>4
<1>7. Numbered'
  <2>1. \A m \in migrations' : m.num \in 1 .. Exact' BY <1>4, <1>5
  <2>2. \A k \in 1 .. Exact' : \E m \in migrations' : m.num = k BY <1>5 DEF Numbered
  <2>3. \A m, l \in migrations' : m.num = l.num => m = l BY <1>6 DEF Numbered
  <2>4. QED BY <2>1, <2>2, <2>3 DEF Numbered
<1>8. new.num \notin applied BY <1>6 DEF Recorded
<1>9. Recorded' BY <1>8 DEF Recorded
<1>10. QED BY <1>7, <1>9

\* The highest number and one more is the number of files and one more.
LEMMA NextIsNext ==
    ASSUME ProjectTypes, Numbered
    PROVE  Project!compute_next_version = Exact + 1
<1>1. Exact \in Nat BY FS_CardinalityType DEF ProjectTypes, Exact
<1>2. CASE migrations = {}
  <2>1. Exact = 0 BY <1>2, FS_EmptySet DEF Exact
  <2>2. QED BY <1>2, <2>1, NextVersion DEF ProjectTypes
<1>3. CASE migrations # {}
  <2> DEFINE next == Project!compute_next_version
  <2>1. next \in Nat /\ \A m \in migrations : m.num < next BY NextVersion DEF ProjectTypes
  <2>2. PICK m \in migrations : m.num + 1 = next BY <1>3, NextVersion DEF ProjectTypes
  <2>3. m.num \in 1 .. Exact BY DEF Numbered
  <2>4. PICK l \in migrations : l.num = Exact BY <1>1, <2>3 DEF Numbered
  <2>5. l.num < next BY <2>1
  <2>6. QED BY <1>1, <2>1, <2>2, <2>3, <2>4, <2>5
<1>4. QED BY <1>2, <1>3

\* A migration that exists stays.
LEMMA ExistsStays ==
    ASSUME NEW new, migrations' = migrations \union new, NEW n, Project!migration_exists(n)
    PROVE  Project!migration_exists(n)'
  BY DEF Project!migration_exists

\* What the developer does keeps the migrations, until one is removed.
LEMMA ChangeKeepsMigrating ==
    ASSUME ProjectTypes, Tree, Migrating, NEW e, Project!Changes(e), UNCHANGED <<applied, tables, cmd>>,
           \/ UNCHANGED migrations
           \/ e = "removed"
           \/ \E new : new.num = Exact + 1 /\ migrations' = migrations \union {new}
    PROVE  Migrating'
<1>1. SUFFICES ASSUME ~edits'.removed PROVE Numbered' /\ Recorded' /\ Covered' BY DEF Migrating
<1>2. /\ ~edits.removed /\ e # "removed" /\ cmd = Project!Idle /\ exit' = "stale"
  BY <1>1, ChangeTypes DEF Project!Changes
<1>3. Numbered /\ Recorded BY <1>2 DEF Migrating
<1>4. cmd'.at = "none" BY <1>2, NothingTyped
<1>5. Covered' BY <1>2, <1>4 DEF Covered
<1>6. CASE UNCHANGED migrations
  <2>1. Numbered' BY <1>3, <1>6 DEF Numbered, Exact
  <2>2. Recorded' BY <1>3, <1>6 DEF Recorded
  <2>3. QED BY <1>5, <2>1, <2>2
<1>7. CASE \E new : new.num = Exact + 1 /\ migrations' = migrations \union {new}
  <2>1. Numbered' /\ Recorded' BY <1>3, <1>7, OneMore
  <2>2. QED BY <1>5, <2>1
<1>8. QED BY <1>2, <1>6, <1>7

\* A command that is no migrate keeps them.
LEMMA OtherKeepsMigrating ==
    ASSUME ProjectTypes, Tree, Migrating, UNCHANGED <<yaml, migrations, tables, applied, edits>>,
           \/ UNCHANGED <<cmd, exit>>
           \/ cmd'.at \notin {"files", "apply"} /\ exit' # "migrate"
           \/ cmd'.at = "files" /\ cmd'.next = 1 /\ exit' = "running"
    PROVE  Migrating'
<1>1. SUFFICES ASSUME ~edits'.removed PROVE Numbered' /\ Recorded' /\ Covered' BY DEF Migrating
<1>2. Numbered /\ Recorded /\ Covered BY <1>1 DEF Migrating
<1>3. Numbered' /\ Recorded' BY <1>2 DEF Numbered, Recorded, Exact
<1>4. \A n : Project!migration_exists(n)' <=> Project!migration_exists(n) BY DEF Project!migration_exists
<1>5. CASE UNCHANGED <<cmd, exit>> BY <1>2, <1>3, <1>4, <1>5 DEF Covered
<1>6. CASE cmd'.at \notin {"files", "apply"} /\ exit' # "migrate" BY <1>3, <1>6 DEF Covered
<1>7. CASE cmd'.at = "files" /\ cmd'.next = 1 /\ exit' = "running"
  <2>1. \A k \in 1 .. Len(Names) : ~(k < cmd'.next) BY <1>7, NamesAre
  <2>2. QED BY <1>3, <1>7, <2>1 DEF Covered
<1>8. QED BY <1>5, <1>6, <1>7

\* A file without a migration gets one; with it the file is covered.
LEMMA FileKeepsMigrating ==
    ASSUME ProjectTypes, Tree, Migrating, Project!MigrationFile
    PROVE  Migrating'
<1>0. /\ UNCHANGED <<yaml, tables, applied, exit, edits>> /\ cmd.at = "files"
      /\ cmd.run = "migrate"
  BY DEF Project!MigrationFile
<1>1. SUFFICES ASSUME ~edits'.removed PROVE Numbered' /\ Recorded' /\ Covered' BY DEF Migrating
<1>2. Numbered /\ Recorded /\ Covered BY <1>0, <1>1 DEF Migrating
<1>3. exit = "running" /\ cmd.load = Project!Parsed BY <1>0, NothingTyped DEF Tree, OnFiles
<1>4. cmd \in [run : {"migrate"}, at : {"files", "apply"}, load : Loads, next : Nat \ {0}] BY <1>0, Steps
<1>5. CASE cmd.next > Len(Names)
  <2>1. cmd' = [cmd EXCEPT !.at = "apply"] /\ UNCHANGED migrations BY <1>5 DEF Project!MigrationFile
  <2>2. cmd'.at = "apply" BY <1>4, <2>1
  <2>3. \A n \in Files : yaml[n] # {} => Project!migration_exists(n)
    <3>1. TAKE n \in Files
    <3>2. PICK k \in 1 .. Len(Names) : Project!Name(k) = n BY NamesAre
    <3>3. k < cmd.next BY <1>4, <1>5, <3>2, NamesAre
    <3>4. QED BY <1>0, <1>2, <3>2, <3>3 DEF Covered
  <2>4. \A n : Project!migration_exists(n)' <=> Project!migration_exists(n)
    BY <2>1 DEF Project!migration_exists
  <2>5. Covered' BY <1>0, <1>3, <2>2, <2>3, <2>4 DEF Covered
  <2>6. Numbered' BY <1>2, <2>1 DEF Numbered, Exact
  <2>7. Recorded' BY <1>0, <1>2, <2>1 DEF Recorded
  <2>8. QED BY <2>5, <2>6, <2>7
<1>6. CASE ~(cmd.next > Len(Names))
  <2>1. PICK n, new :
              /\ n \in Files /\ n = Project!Name(cmd.next)
              /\ new = {[num |-> Project!compute_next_version, of |-> n, decl |-> d] :
                           d \in {x \in cmd.load[n] : ~Project!migration_exists(n)}}
              /\ Option(new) /\ migrations' = migrations \union new /\ cmd' = [cmd EXCEPT !.next = @ + 1]
    BY <1>0, <1>6, FileIs
  <2>2. cmd'.at = "files" /\ cmd'.next = cmd.next + 1 BY <1>0, <1>4, <2>1
  <2>3. Numbered' /\ Recorded'
    <3>1. CASE new = {}
      <4>1. UNCHANGED migrations BY <2>1, <3>1
      <4>2. Numbered' BY <1>2, <4>1 DEF Numbered, Exact
      <4>3. Recorded' BY <1>0, <1>2, <4>1 DEF Recorded
      <4>4. QED BY <4>2, <4>3
    <3>2. CASE new # {}
      <4>1. PICK m : m \in new BY <3>2
      <4>2. new = {m} BY <2>1, <4>1 DEF Option
      <4>3. m.num = Project!compute_next_version BY <2>1, <4>1
      <4>4. m.num = Exact + 1 BY <1>2, <4>3, NextIsNext
      <4>5. migrations' = migrations \union {m} BY <2>1, <4>2
      <4>6. QED BY <1>0, <1>2, <4>4, <4>5, OneMore
    <3>3. QED BY <3>1, <3>2
  <2>4. ASSUME yaml[n] # {} PROVE Project!migration_exists(n)'
    <3>0. n \in Files /\ migrations' = migrations \union new BY <2>1
    <3>1. CASE Project!migration_exists(n) BY <3>0, <3>1, ExistsStays
    <3>2. CASE ~Project!migration_exists(n)
      <4>1. cmd.load[n] # {} BY <3>0, <1>3, <2>4, ParsedTyped DEF ProjectTypes
      <4>2. PICK d \in cmd.load[n] : TRUE BY <4>1
      <4> DEFINE D == {x \in cmd.load[n] : ~Project!migration_exists(n)}
                 made(x) == [num |-> Project!compute_next_version, of |-> n, decl |-> x]
      <4>3. d \in D BY <3>2, <4>2
      <4>4. new = {made(x) : x \in D} BY <2>1
      <4> HIDE DEF D
      <4>5. made(d) \in migrations' BY <2>1, <4>3, <4>4
      <4>6. made(d).of = n OBVIOUS
      <4> HIDE DEF made
      <4>7. \E m \in migrations' : m.of = n BY <4>5, <4>6
      <4>8. QED BY <3>0, <4>7, NamesAre DEF Project!migration_exists
    <3>3. QED BY <3>1, <3>2
  <2>5. ASSUME NEW k \in 1 .. Len(Names), k < cmd'.next, yaml[Project!Name(k)] # {}
        PROVE  Project!migration_exists(Project!Name(k))'
    <3>1. CASE k = cmd.next BY <3>1, <2>1, <2>4, <2>5
    <3>2. CASE k # cmd.next
      <4>1. k < cmd.next BY <1>4, <2>2, <2>5, <3>2
      <4>2. Project!migration_exists(Project!Name(k)) BY <1>0, <1>2, <2>5, <4>1 DEF Covered
      <4>3. QED BY <2>1, <4>2, ExistsStays
    <3>3. QED BY <3>1, <3>2
  <2>6. Covered' BY <1>0, <1>3, <2>2, <2>5 DEF Covered
  <2>7. QED BY <2>3, <2>6
<1>7. QED BY <1>5, <1>6

\* A migration is applied: its version is recorded and its table is there.
LEMMA ApplyKeepsMigrating ==
    ASSUME ProjectTypes, Tree, Migrating, Project!SqlxApply
    PROVE  Migrating'
<1>0. /\ UNCHANGED <<yaml, migrations, edits>> /\ cmd.at = "apply" /\ cmd.run = "migrate" BY ApplyIs
<1>1. SUFFICES ASSUME ~edits'.removed PROVE Numbered' /\ Recorded' /\ Covered' BY DEF Migrating
<1>2. Numbered /\ Recorded /\ Covered BY <1>0, <1>1 DEF Migrating
<1>3. Numbered' BY <1>0, <1>2 DEF Numbered, Exact
<1>4. \A n : Project!migration_exists(n)' <=> Project!migration_exists(n)
  BY <1>0 DEF Project!migration_exists
<1>5. exit = "running" BY <1>0, NothingTyped DEF Tree, OnFiles
<1>6. CASE /\ Project!Ends("migrate") /\ UNCHANGED <<tables, applied>> /\ Project!Pending = {}
  <2>1. cmd'.at = "none" BY <1>6, NothingTyped DEF Project!Ends
  <2>2. Recorded' BY <1>0, <1>2, <1>6 DEF Recorded
  <2>3. \A m \in migrations : m.num \in applied BY <1>6 DEF Project!Pending
  <2>4. Covered' BY <1>0, <1>2, <1>4, <1>6, <2>1, <2>3 DEF Covered
  <2>5. QED BY <1>3, <2>2, <2>4
<1>7. CASE Project!Ends("failed") /\ UNCHANGED <<tables, applied>>
  <2>1. cmd'.at = "none" /\ exit' = "failed" BY <1>7, NothingTyped DEF Project!Ends
  <2>2. Recorded' BY <1>0, <1>2, <1>7 DEF Recorded
  <2>3. Covered' BY <2>1 DEF Covered
  <2>4. QED BY <1>3, <2>2, <2>3
<1>8. CASE /\ UNCHANGED <<cmd, exit>>
           /\ \E m \in migrations :
                /\ m.num \notin applied /\ applied' = applied \union {m.num}
                /\ tables' = IF tables[m.of] = {} THEN [tables EXCEPT ![m.of] = {m.decl}] ELSE tables
  <2>1. PICK m \in migrations :
                /\ m.num \notin applied /\ applied' = applied \union {m.num}
                /\ tables' = IF tables[m.of] = {} THEN [tables EXCEPT ![m.of] = {m.decl}] ELSE tables
    BY <1>8
  <2>2. m.of \in Files BY DEF ProjectTypes
  <2>3. \A n \in Files : tables'[n] = IF n = m.of /\ tables[n] = {} THEN {m.decl} ELSE tables[n]
    BY <2>1, <2>2 DEF ProjectTypes, Loads
  <2>4. \A k \in applied' : \E l \in migrations : l.num = k BY <1>2, <2>1 DEF Recorded
  <2>5. \A l \in migrations : l.num \in applied' => tables'[l.of] # {}
    <3>1. TAKE l \in migrations
    <3>2. HAVE l.num \in applied'
    <3>3. l.of \in Files BY DEF ProjectTypes
    <3>4. l.num \in applied \/ l = m BY <1>2, <2>1, <3>2 DEF Numbered
    <3>5. QED BY <1>2, <2>3, <3>3, <3>4 DEF Recorded
  <2>6. \A n \in Files : tables'[n] # {} => \E l \in migrations : l.of = n /\ tables'[n] = {l.decl}
    BY <1>2, <2>3 DEF Recorded
  <2>7. Recorded' BY <1>0, <2>4, <2>5, <2>6 DEF Recorded
  <2>8. Covered' BY <1>0, <1>2, <1>4, <1>5, <1>8 DEF Covered
  <2>9. QED BY <1>3, <2>7, <2>8
<1>9. QED BY <1>6, <1>7, <1>8, ApplyIs

\* Every step of a project keeps the migrations.
LEMMA MigratingKept == ProjectTypes /\ Tree /\ Migrating /\ Project!Next => Migrating'
<1> SUFFICES ASSUME ProjectTypes, Tree, Migrating, Project!Next PROVE Migrating' OBVIOUS
<1>1. CASE \/ \E n \in Files : \E d \in Edits : Project!EditYaml(n, d)
           \/ \E n \in Files : Project!RemoveYaml(n) \/ Project!WriteCode(n)
  BY <1>1, ChangeKeepsMigrating
     DEF Project!EditYaml, Project!RemoveYaml, Project!WriteCode, Project!disk
<1>2. CASE \E m \in migrations : Project!RemoveMigration(m)
  BY <1>2, ChangeKeepsMigrating DEF Project!RemoveMigration
<1>3. CASE \E n \in Files, archetype \in Archetypes : Project!run_create(n, archetype)
  <2>1. PICK n \in Files, archetype \in Archetypes : Project!run_create(n, archetype) BY <1>3
  <2> DEFINE d == Project!scaffold_resource_yaml[archetype]
             new == Project!generate_initial_migration(n, Project!apply_endpoint_defaults(d))
  <2>2. migrations' = migrations \union {new} /\ Project!Changes("yaml") BY <2>1 DEF Project!run_create
  <2>3. new.num = Exact + 1 BY ProjectCardinality DEF Project!generate_initial_migration, Exact
  <2> HIDE DEF new
  <2>4. \E x : x.num = Exact + 1 /\ migrations' = migrations \union {x} BY <2>2, <2>3
  <2>5. UNCHANGED <<applied, tables, cmd>> BY <2>1 DEF Project!run_create
  <2>6. QED BY <2>2, <2>4, <2>5, ChangeKeepsMigrating
<1>4. CASE \/ Project!Starts("generate", "clear") \/ Project!Starts("serve", "clear")
           \/ Project!Starts("migrate", "files")
  <2>1. PICK run, first : /\ Project!Starts(run, first)
                          /\ <<run, first>> \in {<<"generate", "clear">>, <<"serve", "clear">>,
                                <<"migrate", "files">>}
    BY <1>4
  <2>2. UNCHANGED <<yaml, migrations, tables, applied, edits>> BY <2>1 DEF Project!Starts, Project!disk
  <2>3. CASE Project!load_all_resources
    <3>1. cmd' = [run |-> run, at |-> first, load |-> Project!Parsed, next |-> 1] /\ exit' = "running"
      BY <2>1, <2>3 DEF Project!Starts
    <3>2. cmd'.at = first /\ cmd'.next = 1 BY <3>1
    <3>3. first \in {"clear", "files"} BY <2>1
    <3>4. QED BY <2>2, <3>1, <3>2, <3>3, OtherKeepsMigrating
  <2>4. CASE ~Project!load_all_resources
    <3>1. cmd' = Project!Idle /\ exit' = "refused" BY <2>1, <2>4 DEF Project!Starts, Project!Ends
    <3>2. QED BY <2>2, <3>1, NothingTyped, OtherKeepsMigrating
  <2>5. QED BY <2>3, <2>4
<1>5. CASE Project!check
  <2>1. UNCHANGED <<yaml, migrations, tables, applied, edits, cmd, exit>>
    BY <1>5 DEF Project!check, Project!disk
  <2>2. QED BY <2>1, OtherKeepsMigrating
<1>6. CASE Project!Interrupted
  <2>1. UNCHANGED <<yaml, migrations, tables, applied, edits>>
    BY <1>6 DEF Project!Interrupted, Project!disk
  <2>2. cmd' = Project!Idle /\ exit' = "interrupted" BY <1>6 DEF Project!Interrupted, Project!Ends
  <2>3. QED BY <2>1, <2>2, NothingTyped, OtherKeepsMigrating
<1>7. CASE \/ Project!clear_generated_rust_files \/ Project!WriteModule \/ Project!WriteRegistry
                 \/ Project!WriteStubs
  <2>1. UNCHANGED <<yaml, migrations, tables, applied, edits>>
    BY <1>7 DEF Project!clear_generated_rust_files, Project!WriteModule, Project!WriteRegistry,
            Project!WriteStubs
  <2>2. cmd.at \in {"clear", "modules", "registry", "stubs"}
    BY <1>7 DEF Project!clear_generated_rust_files, Project!WriteModule, Project!WriteRegistry,
            Project!WriteStubs
  <2>3. exit = "running" BY <2>2, NothingTyped DEF Tree, OnFiles
  <2>4. cmd'.at \notin {"files", "apply"} /\ exit' # "migrate"
    <3>1. cmd \in [run : {"generate", "serve"}, at : {"clear", "modules", "registry", "stubs"},
             load : Loads,
                   next : Nat \ {0}]
      BY <2>2, Steps
    <3>2. CASE Project!clear_generated_rust_files
      BY <3>1, <3>2, <2>3 DEF Project!clear_generated_rust_files
    <3>3. CASE Project!WriteModule BY <3>1, <3>3, <2>3 DEF Project!WriteModule
    <3>4. CASE Project!WriteRegistry
      BY <3>1, <3>4, <2>3, NothingTyped DEF Project!WriteRegistry, Project!Ends
    <3>5. CASE Project!WriteStubs BY <3>5, NothingTyped DEF Project!WriteStubs, Project!Ends
    <3>6. QED BY <1>7, <3>2, <3>3, <3>4, <3>5
  <2>5. QED BY <2>1, <2>4, OtherKeepsMigrating
<1>8. QED BY <1>1, <1>2, <1>3, <1>4, <1>5, <1>6, <1>7, FileKeepsMigrating, ApplyKeepsMigrating
          DEF Project!Next, Files
-----------------------------------------------------------------------------
(* What a reader asks of a project. *)

\* A tree that compiles is of one load.
LEMMA TreeIsOfOneLoad ==
    ASSUME ProjectTypes, Tree
    PROVE  Project!TypeOK /\ Project!CompiledOfOneLoad /\ Project!GenerateDelivers
<1>1. Project!TypeOK
  <2>1. \A S : Option(S) => Project!Cardinality(S) <= 1 BY OptionCounts, ProjectCardinality
  <2>2. /\ DOMAIN yaml = Files /\ DOMAIN modules = Files /\ DOMAIN tables = Files
        /\ \A n \in Files : Option(yaml[n]) /\ Option(modules[n]) /\ Option(code[n]) /\ Option(tables[n])
        /\ Option(registry)
    BY DEF ProjectTypes, Loads
  <2>3. applied \subseteq Nat /\ edits.count \in 0 .. MaxEdits BY DEF ProjectTypes
  <2>4. checked \in {"none", "clean", "errors", "panicked"} BY DEF ProjectTypes
  <2>5. QED BY <2>1, <2>2, <2>3, <2>4, Steps DEF Project!TypeOK, Files
<1>2. Project!CompiledOfOneLoad
  <2>1. SUFFICES ASSUME NEW load \in registry, \A n \in Project!Loaded(load) : modules[n] # {},
                        NEW other \in registry
                 PROVE  \A n \in Project!Loaded(other) : modules[n] = other[n]
    BY DEF Project!CompiledOfOneLoad, Project!Compiles
  <2>2. other = load BY DEF ProjectTypes, Option
  <2>3. QED BY <2>1, <2>2 DEF Tree, RegistryFits, Project!Loaded, Files
<1>3. Project!GenerateDelivers BY DEF Tree, Delivered, Project!GenerateDelivers
<1>4. QED BY <1>1, <1>2, <1>3

\* Migrations have numbers of their own and deliver the tables.
LEMMA MigratingDelivers ==
    ASSUME ProjectTypes, Migrating
    PROVE  Project!MigrateDelivers /\ Project!NumbersDistinct
<1>1. Project!NumbersDistinct BY DEF Migrating, Numbered, Project!NumbersDistinct
<1>2. Project!MigrateDelivers
  <2>1. SUFFICES ASSUME exit = "migrate", ~edits.removed, NEW n \in Files, yaml[n] # {}
                 PROVE  \/ \E m \in migrations : m.of = n /\ tables[n] = {m.decl}
                        \/ \E m \in migrations : m.of # n /\ Contained(n, m.of)
    BY DEF Project!MigrateDelivers, Project!Loaded, Files
  <2>2. Recorded /\ Covered BY <2>1 DEF Migrating
  <2>3. PICK m \in migrations : Contained(n, m.of) BY <2>1, <2>2 DEF Covered, Project!migration_exists
  <2>4. CASE m.of # n BY <2>3, <2>4
  <2>5. CASE m.of = n
    <3>1. m.num \in applied BY <2>1, <2>2 DEF Covered
    <3>2. tables[n] # {} BY <2>2, <2>5, <3>1 DEF Recorded
    <3>3. QED BY <2>2, <3>2 DEF Recorded
  <2>6. QED BY <2>4, <2>5
<1>3. QED BY <1>1, <1>2
-----------------------------------------------------------------------------
(* The rules: check foretells generate, and the editor's schema keeps up.    *)

\* check and generate judge the items of an array alike.
LEMMA ItemsAgree == \A i : Project!DiagnoseItems(i) = Project!ValidateItems(i)
  BY DEF Project!DiagnoseItems, Project!ValidateItems

\* ... and a field, but for the rules of transient inputs.
LEMMA FieldsAgree ==
    \A g : Project!ValidateField(g) = Project!DiagnoseField(g) \union Project!ValidateTransient(g)
  BY ItemsAgree DEF Project!DiagnoseField, Project!ValidateField

\* The rules of transient inputs are those only generate has.
LEMMA TransientRules == \A g : Project!ValidateTransient(g) \subseteq Project!OnlyValidated
  BY DEF Project!ValidateTransient, Project!Broken, Project!OnlyValidated

\* What the parser makes of a declaration, and of one of its endpoints.
Parse(d) == Project!apply_endpoint_defaults(d)
Endpoint(d, a) == Parse(d).endpoints[a]

\* apply_endpoint_defaults changes nothing but endpoints, and adds none.
LEMMA DefaultsLeave ==
  ASSUME NEW d, Project!IsResource(d)
  PROVE /\ Parse(d).name = d.name /\ Parse(d).version = d.version /\ Parse(d).schema = d.schema
        /\ Parse(d).tenant_key = d.tenant_key /\ Parse(d).relations = d.relations
                /\ Parse(d).indexes = d.indexes
        /\ DOMAIN Parse(d).endpoints = DOMAIN d.endpoints
  BY DEF Project!IsResource, Project!apply_endpoint_defaults, Parse

\* ... and in an endpoint nothing but method and path, the method only if there is none.
LEMMA EndpointLeaves ==
  ASSUME NEW d, Project!IsResource(d), NEW a \in DOMAIN d.endpoints
  PROVE /\ Endpoint(d, a).handler = d.endpoints[a].handler
        /\ Endpoint(d, a).before = d.endpoints[a].before /\ Endpoint(d, a).after = d.endpoints[a].after
        /\ Endpoint(d, a).events = d.endpoints[a].events /\ Endpoint(d, a).jobs = d.endpoints[a].jobs
        /\ Endpoint(d, a).input = d.endpoints[a].input /\ Endpoint(d, a).filters = d.endpoints[a].filters
        /\ Endpoint(d, a).search = d.endpoints[a].search /\ Endpoint(d, a).sort = d.endpoints[a].sort
        /\ Endpoint(d, a).soft_delete = d.endpoints[a].soft_delete
                /\ Endpoint(d, a).upload = d.endpoints[a].upload
        /\ d.endpoints[a].method # {} => Endpoint(d, a).method = d.endpoints[a].method
<1>1. Project!IsEndpointSpec(d.endpoints[a]) BY DEF Project!IsResource
<1> DEFINE ep == d.endpoints[a]
<1>2. Endpoint(d, a) = IF Project!endpoint_convention(a) = {} THEN ep
            ELSE [ep EXCEPT !.method = IF @ = {} THEN Project!endpoint_convention(a) ELSE @,
                    !.path = TRUE]
  BY DEF Project!IsResource, Project!apply_endpoint_defaults, Parse, Endpoint
<1> HIDE DEF ep
<1>3. Project!IsEndpointSpec(ep) BY <1>1 DEF ep
<1>4. QED BY <1>2, <1>3 DEF Project!IsEndpointSpec, Project!EndpointSpec, ep

\* check and generate judge a tenant key alike.
LEMMA TenantKeysAgree ==
  ASSUME NEW d, Project!IsResource(d)
  PROVE Project!ValidateTenantKey(Parse(d)) = Project!DiagnoseTenantKey(d)
  BY DefaultsLeave DEF Project!ValidateTenantKey, Project!DiagnoseTenantKey, Project!Defined

\* ... the controllers, events and jobs of an endpoint,
LEMMA SameHooks ==
  ASSUME NEW e, NEW g, e.before = g.before, e.after = g.after, e.events = g.events, e.jobs = g.jobs
  PROVE Project!ValidateHooks(e) = Project!DiagnoseHooks(g)
<1>1. \A h : Project!validate_controller_name(h) = Project!diagnose_controller_name(h)
  BY DEF Project!validate_controller_name, Project!diagnose_controller_name
<1> DEFINE lists == g.before \union g.after
<1>2. e.before \union e.after = lists OBVIOUS
<1>3. (UNION {Project!validate_controller_name(h) : h \in UNION lists})
        = UNION {Project!diagnose_controller_name(h) : h \in UNION lists}
  BY <1>1
<1>4. QED BY <1>2, <1>3 DEF Project!ValidateHooks, Project!DiagnoseHooks

\* ... and the fields it names.
LEMMA SameFields ==
  ASSUME NEW d, NEW p, p.schema = d.schema, NEW e, NEW g,
         e.input = g.input, e.filters = g.filters, e.search = g.search, e.sort = g.sort,
                 e.soft_delete = g.soft_delete
  PROVE Project!ValidateNamedFields(p, e) = Project!DiagnoseNamedFields(d, g)
<1> DEFINE ns == g.input \union g.filters \union g.search \union g.sort
<1>1. e.input \union e.filters \union e.search \union e.sort = ns OBVIOUS
<1>2. \A n : Project!Defined(p, n) = Project!Defined(d, n) BY DEF Project!Defined
<1>3. QED BY <1>1, <1>2 DEF Project!ValidateNamedFields, Project!DiagnoseNamedFields

\* A further rule can be broken too.
LEMMA BrokenOne == \A A, x : /\ Project!Broken(A) \subseteq Project!Broken(A \union {x})
                             /\ Project!Broken(A \union {x}) \subseteq Project!Broken(A) \union {x[1]}
  BY DEF Project!Broken

\* generate has one more rule about an upload, the type of its companions.
LEMMA SameUpload ==
  ASSUME NEW d, NEW p, p.schema = d.schema, NEW e, NEW g, e.input = g.input, e.method = g.method, NEW u
  PROVE /\ Project!DiagnoseUpload(d, g, u) \subseteq Project!ValidateUpload(p, e, u)
        /\ Project!ValidateUpload(p, e, u)
                \subseteq Project!DiagnoseUpload(d, g, u) \union {"companion_type"}
<1> DEFINE A == {
    <<"SR050", g.method \in {{"GET"}, {"DELETE"}}>>,
    <<"SR051", Project!Defined(d, u.field) /\ d.schema[u.field].type # "file">>,
    <<"SR052", ~Project!Defined(d, u.field)>>,
    <<"SR053", u.storage \notin Project!Storages>>,
    <<"SR054", u.field \notin g.input>>}
    x == <<"companion_type", Project!Defined(d, u.size_field)
            /\ d.schema[u.size_field].type # "integer">>
<1>1. Project!DiagnoseUpload(d, g, u) = Project!Broken(A) BY DEF Project!DiagnoseUpload
<1>2. \A n : Project!Defined(p, n) = Project!Defined(d, n) BY DEF Project!Defined
<1>3. Project!ValidateUpload(p, e, u) = Project!Broken(A \union {x})
  BY <1>2 DEF Project!ValidateUpload
<1>4. x[1] = "companion_type" OBVIOUS
<1> HIDE DEF A, x
<1>5. QED BY <1>1, <1>3, <1>4, BrokenOne

\* Relations and indexes are judged alike.
LEMMA RelationsAgree ==
  ASSUME NEW d, NEW p, p.schema = d.schema
  PROVE /\ \A r : Project!ValidateRelation(p, r) = Project!DiagnoseRelation(d, r)
        /\ \A x : Project!ValidateIndex(p, x) = Project!DiagnoseIndex(d, x)
<1>2. \A n : Project!Defined(p, n) = Project!Defined(d, n) BY DEF Project!Defined
<1>3. QED BY <1>2
     DEF Project!ValidateRelation, Project!DiagnoseRelation, Project!ValidateIndex, Project!DiagnoseIndex

\* Only what is a rule is broken.
LEMMA BrokenNames == \A rules : Project!Broken(rules) \subseteq {x[1] : x \in rules}
  BY DEF Project!Broken

\* A rule that does not hold is broken.
LEMMA BrokenRule == \A rules, n : \A c \in BOOLEAN : c
        /\ <<n, c>> \in rules => n \in Project!Broken(rules)
<1> TAKE rules, n
<1> TAKE c \in BOOLEAN
<1> SUFFICES ASSUME c, <<n, c>> \in rules PROVE n \in Project!Broken(rules) OBVIOUS
<1> DEFINE x == <<n, c>>
<1>1. x[1] = n /\ x[2] = c OBVIOUS
<1>2. x \in rules OBVIOUS
<1> HIDE DEF x
<1>3. QED BY <1>1, <1>2 DEF Project!Broken

\* What breaks a rule breaks a stricter one.
LEMMA BrokenStep ==
  ASSUME NEW A, NEW n, NEW b \in BOOLEAN, NEW c \in BOOLEAN, b => c
  PROVE Project!Broken(A \union {<<n, b>>}) \subseteq Project!Broken(A \union {<<n, c>>})
<1>1. CASE b BY <1>1
<1>2. CASE ~b
  <2>1. Project!Broken(A \union {<<n, b>>}) \subseteq Project!Broken(A) BY <1>2 DEF Project!Broken
  <2>2. QED BY <2>1, BrokenOne
<1>3. QED BY <1>1, <1>2

\* check does not ask for a key where there are no fields, and says so already.
LEMMA RootsAgree ==
  ASSUME NEW d, NEW p, p.name = d.name, p.version = d.version, p.schema = d.schema
  PROVE /\ Project!DiagnoseRoot(d) \subseteq Project!ValidateRoot(p)
        /\ Project!DiagnoseRoot(d) = {} => Project!ValidateRoot(p) = {}
<1>1. Project!Primaries(p) = Project!Primaries(d) BY DEF Project!Primaries
<1> DEFINE A == {
    <<"SR001", d.name = "">>,
    <<"SR002", d.version = 0>>,
    <<"SR003", DOMAIN d.schema = {}>>,
    <<"SR005", Project!Cardinality(Project!Primaries(d)) > 1>>}
  none == Project!Primaries(d) = {}
  empty == DOMAIN d.schema = {}
  keyless == none /\ ~empty
<1>2. Project!DiagnoseRoot(d) = Project!Broken(A \union {<<"SR004", keyless>>})
  BY DEF Project!DiagnoseRoot
<1>3. Project!ValidateRoot(p) = Project!Broken(A \union {<<"SR004", none>>})
  BY <1>1 DEF Project!ValidateRoot
<1>4. <<"SR003", empty>> \in A OBVIOUS
<1>5. none \in BOOLEAN /\ empty \in BOOLEAN /\ keyless \in BOOLEAN /\ (keyless => none) OBVIOUS
<1>9. keyless <=> (none /\ ~empty) OBVIOUS
<1> HIDE DEF none, empty, keyless, A
<1>10. Project!Broken(A \union {<<"SR004", keyless>>})
        \subseteq Project!Broken(A \union {<<"SR004", none>>})
  BY <1>5, BrokenStep
<1>6. Project!DiagnoseRoot(d) \subseteq Project!ValidateRoot(p) BY <1>2, <1>3, <1>10
<1>7. ASSUME Project!DiagnoseRoot(d) = {} PROVE Project!ValidateRoot(p) = {}
  <2>1. ~empty BY <1>2, <1>4, <1>5, <1>7, BrokenRule
  <2>2. keyless = none BY <2>1, <1>5, <1>9
  <2>3. QED BY <1>2, <1>3, <1>7, <2>2
<1>8. QED BY <1>6, <1>7

\* The rules about an endpoint that one of the two lists has alone.
LEMMA EndpointRules ==
  ASSUME NEW a, NEW e
  PROVE /\ Project!validate_handler_only_on_custom(a, e) \subseteq Project!OnlyValidated
        /\ Project!validate_controller_only_on_crud(a, e) \subseteq Project!OnlyValidated
        /\ Project!Broken({<<"no_method", e.method = {}>>, <<"no_path", ~e.path>>})
                \subseteq Project!OnlyValidated
        /\ Project!Broken({<<"SR075", a \notin Project!HANDLER_CONVENTIONS /\ e.handler = {}>>})
                \subseteq Project!OnlyDiagnosed
        /\ \A s : Project!DiagnoseSubscriber(s) \subseteq Project!OnlyDiagnosed
<1>1. \A b : Project!Broken({<<"handler_on_convention", b>>}) \subseteq {"handler_on_convention"}
             /\ Project!Broken({<<"after_on_custom", b>>}) \subseteq {"after_on_custom"}
             /\ Project!Broken({<<"SR075", b>>}) \subseteq {"SR075"}
  BY BrokenNames
<1>2. \A b, c : Project!Broken({<<"no_method", b>>, <<"no_path", c>>}) \subseteq {"no_method", "no_path"}
             /\ Project!Broken({<<"SR073", b>>, <<"SR074", c>>}) \subseteq {"SR073", "SR074"}
  BY BrokenNames
<1>3. Project!validate_handler_only_on_custom(a, e) \subseteq Project!OnlyValidated
  BY <1>1 DEF Project!validate_handler_only_on_custom, Project!OnlyValidated
<1>4. Project!validate_controller_only_on_crud(a, e) \subseteq Project!OnlyValidated
  BY <1>1 DEF Project!validate_controller_only_on_crud, Project!OnlyValidated
<1>5. Project!Broken({<<"no_method", e.method = {}>>, <<"no_path", ~e.path>>})
        \subseteq Project!OnlyValidated
  <2> DEFINE b == e.method = {}
             c == ~e.path
  <2>1. {"no_method", "no_path"} \subseteq Project!OnlyValidated BY DEF Project!OnlyValidated
  <2> HIDE DEF b, c
  <2>2. Project!Broken({<<"no_method", b>>, <<"no_path", c>>}) \subseteq Project!OnlyValidated
    BY <1>2, <2>1
  <2>3. QED BY <2>2 DEF b, c
<1>6. Project!Broken({<<"SR075", a \notin Project!HANDLER_CONVENTIONS /\ e.handler = {}>>})
        \subseteq Project!OnlyDiagnosed
  BY <1>1 DEF Project!OnlyDiagnosed
<1>7. \A s : Project!DiagnoseSubscriber(s) \subseteq Project!OnlyDiagnosed
  BY <1>2 DEF Project!OnlyDiagnosed, Project!DiagnoseSubscriber
<1>8. QED BY <1>3, <1>4, <1>5, <1>6, <1>7

\* check and generate judge an endpoint alike, but for those.
LEMMA EndpointsAgree ==
  ASSUME NEW d, Project!IsResource(d), ~Project!Panics(d), NEW a \in DOMAIN d.endpoints
  PROVE /\ Project!ValidateEndpoint(Parse(d), a)
          \subseteq Project!DiagnoseEndpoint(d, a) \union Project!OnlyValidated
        /\ Project!DiagnoseEndpoint(d, a)
                \subseteq Project!ValidateEndpoint(Parse(d), a) \union Project!OnlyDiagnosed
<1> DEFINE g == d.endpoints[a]
           e == Endpoint(d, a)
           p == Parse(d)
<1>1. Project!ValidateHooks(e) = Project!DiagnoseHooks(g) BY EndpointLeaves, SameHooks
<1>2. Project!ValidateNamedFields(p, e) = Project!DiagnoseNamedFields(d, g)
  BY EndpointLeaves, DefaultsLeave, SameFields
<1>3. e.upload = g.upload /\ e.input = g.input BY EndpointLeaves
<1>4. \A u \in g.upload :
        /\ Project!DiagnoseUpload(d, g, u) \subseteq Project!ValidateUpload(p, e, u)
        /\ Project!ValidateUpload(p, e, u)
                \subseteq Project!DiagnoseUpload(d, g, u) \union {"companion_type"}
  <2>1. TAKE u \in g.upload
  <2>2. g.method # {} BY DEF Project!Panics
  <2>3. e.method = g.method BY <2>2, EndpointLeaves
  <2>4. QED BY <1>3, <2>3, DefaultsLeave, SameUpload
<1>5. p.endpoints[a] = e BY DEF Endpoint
<1> HIDE DEF g, e, p
<1>6. "companion_type" \in Project!OnlyValidated BY DEF Project!OnlyValidated
<1>7. Project!ValidateEndpoint(p, a) =
    UNION {Project!validate_handler_only_on_custom(a, e), Project!validate_controller_only_on_crud(a, e),
           Project!ValidateHooks(e), Project!ValidateNamedFields(p, e),
           UNION {Project!ValidateUpload(p, e, u) : u \in e.upload},
           Project!Broken({<<"no_method", e.method = {}>>, <<"no_path", ~e.path>>})}
  BY <1>5 DEF Project!ValidateEndpoint
<1>8. Project!DiagnoseEndpoint(d, a) =
    UNION {Project!DiagnoseHooks(g), Project!DiagnoseNamedFields(d, g),
           UNION {Project!DiagnoseUpload(d, g, u) : u \in g.upload},
           UNION {Project!DiagnoseSubscriber(s) : s \in g.subscribers},
           Project!Broken({<<"SR075", a \notin Project!HANDLER_CONVENTIONS /\ g.handler = {}>>})}
  BY DEF Project!DiagnoseEndpoint, g
<1> DEFINE uv == UNION {Project!ValidateUpload(p, e, u) : u \in e.upload}
           ud == UNION {Project!DiagnoseUpload(d, g, u) : u \in g.upload}
<1>9. uv \subseteq ud \union Project!OnlyValidated /\ ud \subseteq uv BY <1>3, <1>4, <1>6
<1> DEFINE us == UNION {Project!DiagnoseSubscriber(s) : s \in g.subscribers}
           hd == Project!Broken({<<"SR075", a \notin Project!HANDLER_CONVENTIONS /\ g.handler = {}>>})
           hs == Project!DiagnoseHooks(g)
           ns == Project!DiagnoseNamedFields(d, g)
           ho == Project!validate_handler_only_on_custom(a, e)
           co == Project!validate_controller_only_on_crud(a, e)
           rs == Project!Broken({<<"no_method", e.method = {}>>, <<"no_path", ~e.path>>})
<1>10. us \subseteq Project!OnlyDiagnosed /\ hd \subseteq Project!OnlyDiagnosed BY EndpointRules
<1>11. ho \subseteq Project!OnlyValidated /\ co \subseteq Project!OnlyValidated /\ rs
        \subseteq Project!OnlyValidated
  BY EndpointRules
<1>12. Project!ValidateEndpoint(p, a) = UNION {ho, co, hs, ns, uv, rs} BY <1>1, <1>2, <1>7
<1>13. Project!DiagnoseEndpoint(d, a) = UNION {hs, ns, ud, us, hd} BY <1>8
<1> HIDE DEF uv, ud, us, hd, hs, ns, ho, co, rs
<1>14. Project!ValidateEndpoint(p, a)
        \subseteq Project!DiagnoseEndpoint(d, a) \union Project!OnlyValidated
  BY <1>9, <1>11, <1>12, <1>13
<1>15. Project!DiagnoseEndpoint(d, a)
        \subseteq Project!ValidateEndpoint(p, a) \union Project!OnlyDiagnosed
  BY <1>9, <1>10, <1>12, <1>13
<1>16. QED BY <1>14, <1>15 DEF p

\* A file without a finding fails generate for what only generate knows, and the
\* other way round.
LEMMA Foretold ==
  ASSUME NEW d, Project!IsResource(d), ~Project!Panics(d)
  PROVE /\ Project!diagnose_resource(d) = {} => Project!validate_resource(Parse(d))
          \subseteq Project!OnlyValidated
        /\ Project!validate_resource(Parse(d)) = {} => Project!diagnose_resource(d)
                \subseteq Project!OnlyDiagnosed
<1> DEFINE p == Parse(d)
           fv == UNION {Project!ValidateField(p.schema[n]) : n \in DOMAIN p.schema}
           fd == UNION {Project!DiagnoseField(d.schema[n]) : n \in DOMAIN d.schema}
           ev == UNION {Project!ValidateEndpoint(p, a) : a \in DOMAIN p.endpoints}
           ed == UNION {Project!DiagnoseEndpoint(d, a) : a \in DOMAIN d.endpoints}
           rv == UNION {Project!ValidateRelation(p, r) : r \in p.relations}
           rd == UNION {Project!DiagnoseRelation(d, r) : r \in d.relations}
           xv == UNION {Project!ValidateIndex(p, x) : x \in p.indexes}
           xd == UNION {Project!DiagnoseIndex(d, x) : x \in d.indexes}
           tv == Project!ValidateTenantKey(p)
           td == Project!DiagnoseTenantKey(d)
           ov == Project!ValidateRoot(p)
           od == Project!DiagnoseRoot(d)
           hv == Project!ValidateReachable(p)
<1>1. Project!validate_resource(p) = UNION {ov, hv, tv, fv, ev, rv, xv} BY DEF Project!validate_resource
<1>2. Project!diagnose_resource(d) = UNION {od, td, fd, ed, rd, xd} BY DEF Project!diagnose_resource
<1>3. od \subseteq ov /\ (od = {} => ov = {}) BY DefaultsLeave, RootsAgree
<1>4. tv = td BY TenantKeysAgree
<1>5. fd \subseteq fv /\ fv \subseteq fd \union Project!OnlyValidated
  BY DefaultsLeave, FieldsAgree, TransientRules
<1>6. ev \subseteq ed \union Project!OnlyValidated /\ ed \subseteq ev \union Project!OnlyDiagnosed
  BY DefaultsLeave, EndpointsAgree
<1>7. rv = rd /\ xv = xd BY DefaultsLeave, RelationsAgree
<1>8. hv \subseteq Project!OnlyValidated
  <2> DEFINE b == \E n \in DOMAIN p.schema :
          p.schema[n].transient /\ \A a \in DOMAIN p.endpoints : n \notin p.endpoints[a].input
  <2>1. hv = Project!Broken({<<"transient_unreachable", b>>}) BY DEF Project!ValidateReachable
  <2>2. "transient_unreachable" \in Project!OnlyValidated BY DEF Project!OnlyValidated
  <2> HIDE DEF b, hv
  <2>3. QED BY <2>1, <2>2, BrokenNames
<1> HIDE DEF p, fv, fd, ev, ed, rv, rd, xv, xd, tv, td, ov, od, hv
<1>9. ASSUME Project!diagnose_resource(d) = {}
      PROVE Project!validate_resource(p) \subseteq Project!OnlyValidated
  <2>1. od = {} /\ td = {} /\ fd = {} /\ ed = {} /\ rd = {} /\ xd = {} BY <1>2, <1>9
  <2>2. QED BY <1>1, <1>3, <1>4, <1>5, <1>6, <1>7, <1>8, <2>1
<1>10. ASSUME Project!validate_resource(p) = {}
      PROVE Project!diagnose_resource(d) \subseteq Project!OnlyDiagnosed
  <2>1. ov = {} /\ tv = {} /\ fv = {} /\ ev = {} /\ rv = {} /\ xv = {} BY <1>1, <1>10
  <2>2. QED BY <1>2, <1>3, <1>4, <1>5, <1>6, <1>7, <2>1
<1>11. QED BY <1>9, <1>10 DEF p

\* Where no rule is broken each one holds.
LEMMA NoneBroken ==
  ASSUME NEW rules, Project!Broken(rules) = {}, NEW n, NEW c \in BOOLEAN, <<n, c>> \in rules
  PROVE ~c
  BY BrokenRule

\* The editor's schema takes what generate takes, but for what it does not know.
LEMMA KeptUp ==
  ASSUME NEW d, Project!IsResource(d), Project!validate_resource(Parse(d)) = {}
  PROVE Project!generate_resource_json_schema(Project!WithoutNews(d))
<1> DEFINE p == Parse(d)
           w == Project!WithoutNews(d)
<1>1. /\ Project!ValidateRoot(p) = {}
        /\ \A n \in DOMAIN p.schema : Project!ValidateField(p.schema[n]) = {}
      /\ \A a \in DOMAIN p.endpoints : Project!ValidateEndpoint(p, a) = {}
      /\ \A x \in p.indexes : Project!ValidateIndex(p, x) = {}
  BY DEF Project!validate_resource
<1>2. /\ w.name = d.name /\ w.version = d.version /\ w.indexes = d.indexes
      /\ w.schema = [n \in DOMAIN d.schema |-> [d.schema[n] EXCEPT !.transient = FALSE, !.items = {}]]
      /\ w.endpoints = [a \in DOMAIN d.endpoints |-> [d.endpoints[a] EXCEPT !.handler = {},
              !.subscribers = {}]]
  BY DEF Project!IsResource, Project!WithoutNews
<1>3. w.name # "" /\ w.version >= 1 /\ DOMAIN w.schema # {}
  <2> DEFINE named == p.name = ""
             zero == p.version = 0
             empty == DOMAIN p.schema = {}
  <2>2. named \in BOOLEAN /\ zero \in BOOLEAN /\ empty \in BOOLEAN OBVIOUS
  <2> DEFINE rules == {
    <<"SR001", p.name = "">>,
    <<"SR002", p.version = 0>>,
    <<"SR003", DOMAIN p.schema = {}>>,
    <<"SR004", Project!Primaries(p) = {}>>,
    <<"SR005", Project!Cardinality(Project!Primaries(p)) > 1>>}
  <2>1. Project!Broken(rules) = {} BY <1>1 DEF Project!ValidateRoot
  <2>3. <<"SR001", named>> \in rules /\ <<"SR002", zero>> \in rules /\ <<"SR003", empty>> \in rules
    OBVIOUS
  <2>4. ~named /\ ~zero /\ ~empty
    <3> HIDE DEF named, zero, empty, rules
    <3>1. QED BY <2>1, <2>2, <2>3, NoneBroken
  <2>5. d.version \in Nat BY DEF Project!IsResource
  <2>6. p.name = d.name /\ p.version = d.version /\ p.schema = d.schema BY DefaultsLeave
  <2>7. DOMAIN w.schema = DOMAIN d.schema BY <1>2
  <2>8. d.name # "" /\ d.version # 0 /\ DOMAIN d.schema # {} BY <2>4, <2>6
  <2> HIDE DEF p, w, named, zero, empty, rules
  <2>12. \A m \in Nat : m # 0 => m >= 1 OBVIOUS
  <2>9. d.version >= 1 BY ONLY <2>5, <2>8, <2>12
  <2>10. w.name # "" /\ w.version >= 1 BY <1>2, <2>8, <2>9
  <2>11. QED BY <2>7, <2>8, <2>10
<1>4. \A n \in DOMAIN w.schema : Project!FieldSchemaAllows(w.schema[n])
  <2>1. TAKE n \in DOMAIN w.schema
  <2> DEFINE g == d.schema[n]
             bare == g.ref = "bare"
  <2>2. n \in DOMAIN d.schema /\ w.schema[n] = [g EXCEPT !.transient = FALSE, !.items = {}]
          /\ g \in Project!FieldSchemas
    BY <1>2 DEF Project!IsResource
  <2>3. Project!ValidateField(g) = {} BY <1>1, <2>2, DefaultsLeave
  <2> DEFINE rules == {
        <<"SR010", g.type = "enum" /\ ~g.values>>,
        <<"SR011", g.type # "enum" /\ g.values>>,
        <<"SR012", g.ref # "none" /\ g.type # "uuid">>,
        <<"SR013", g.ref = "bare">>,
        <<"SR014", g.type = "array" /\ g.items = {}>>,
        <<"SR015", g.format /\ g.type # "string">>,
        <<"SR016", g.primary /\ ~g.generated /\ ~g.required>>}
  <2>13. Project!Broken(rules) = {} BY <2>3 DEF Project!ValidateField
  <2>4. <<"SR013", bare>> \in rules OBVIOUS
  <2>5. bare \in BOOLEAN OBVIOUS
  <2>6. ~bare
    <3> HIDE DEF bare, rules
    <3>1. QED BY <2>13, <2>4, <2>5, NoneBroken
  <2> HIDE DEF g
  <2>7. w.schema[n].ref = g.ref /\ w.schema[n].transient = FALSE /\ w.schema[n].items = {}
    BY <2>2 DEF Project!FieldSchemas
  <2>8. QED BY <2>6, <2>7 DEF Project!FieldSchemaAllows
<1>5. \A a \in DOMAIN w.endpoints : Project!EndpointSpecAllows(w.endpoints[a])
  <2>1. TAKE a \in DOMAIN w.endpoints
  <2> DEFINE g == d.endpoints[a]
             e == Endpoint(d, a)
             h == w.endpoints[a]
  <2>2. a \in DOMAIN d.endpoints /\ h = [g EXCEPT !.handler = {}, !.subscribers = {}]
          /\ Project!IsEndpointSpec(g)
    BY <1>2 DEF Project!IsResource
  <2>3. Project!ValidateEndpoint(p, a) = {} BY <1>1, <2>2, DefaultsLeave
  <2>4. Project!ValidateHooks(e) = {} /\ \A u \in e.upload : Project!ValidateUpload(p, e, u) = {}
    BY <2>3 DEF Project!ValidateEndpoint, Endpoint
  <2>5. e.before = g.before /\ e.after = g.after /\ e.upload = g.upload BY <2>2, EndpointLeaves
  <2> DEFINE void == {} \in e.before \union e.after
  <2>6. PICK rules : Project!Broken(rules) = {} /\ <<"SR063", void>> \in rules
    BY <2>4 DEF Project!ValidateHooks
  <2>7. void \in BOOLEAN OBVIOUS
  <2>8. ~void
    <3> HIDE DEF void
    <3>1. QED BY <2>6, <2>7, NoneBroken
  <2>9. \A u \in g.upload : u.storage \in Project!Storages
    <3>1. TAKE u \in g.upload
    <3> DEFINE odd == u.storage \notin Project!Storages
    <3> DEFINE rs == {
    <<"SR050", e.method \in {{"GET"}, {"DELETE"}}>>,
    <<"SR051", Project!Defined(p, u.field) /\ p.schema[u.field].type # "file">>,
    <<"SR052", ~Project!Defined(p, u.field)>>,
    <<"SR053", odd>>,
    <<"SR054", u.field \notin e.input>>,
    <<"companion_type", Project!Defined(p, u.size_field) /\ p.schema[u.size_field].type # "integer">>}
    <3>2. Project!ValidateUpload(p, e, u) = {} BY <2>4, <2>5
    <3>3. Project!Broken(rs) = {} /\ <<"SR053", odd>> \in rs BY <3>2 DEF Project!ValidateUpload
    <3>4. odd \in BOOLEAN OBVIOUS
    <3>5. ~odd
      <4> HIDE DEF odd, rs
      <4>1. QED BY <3>3, <3>4, NoneBroken
    <3>6. QED BY <3>5
  <2> HIDE DEF g, e, h
  <2>10. h.handler = {} /\ h.subscribers = {} /\ h.before = g.before /\ h.after = g.after
          /\ h.upload = g.upload
    BY <2>2 DEF Project!IsEndpointSpec, Project!EndpointSpec
  <2>11. Project!EndpointSpecAllows(h) BY <2>5, <2>8, <2>9, <2>10 DEF Project!EndpointSpecAllows
  <2>12. QED BY <2>11 DEF h
<1>6. \A x \in w.indexes : x.fields # {} /\ x.order \in {"none", "asc", "desc"}
  <2>1. TAKE x \in w.indexes
  <2>2. Project!ValidateIndex(p, x) = {} BY <1>1, <1>2, DefaultsLeave
  <2> DEFINE void == x.fields = {}
             odd == x.order \notin {"none", "asc", "desc"}
  <2>3. PICK rules : Project!Broken(rules) = {} /\ <<"SR070", void>> \in rules
          /\ <<"SR072", odd>> \in rules
    BY <2>2 DEF Project!ValidateIndex
  <2>4. void \in BOOLEAN /\ odd \in BOOLEAN OBVIOUS
  <2>5. ~void /\ ~odd
    <3> HIDE DEF void, odd
    <3>1. QED BY <2>3, <2>4, NoneBroken
  <2>6. QED BY <2>5
<1>7. QED BY <1>3, <1>4, <1>5, <1>6 DEF Project!generate_resource_json_schema

-----------------------------------------------------------------------------
(* The scaffolds: generate has nothing against them but a missing deleted_at. *)

\* A field no rule can find fault with, as the scaffolds have them; an endpoint;
\* and a resource that names only fields it has.
SoundField(g) ==
    /\ g \in Project!FieldSchemas
    /\ (g.type = "enum") = g.values
    /\ g.type # "array" /\ g.items = {} /\ ~g.transient
    /\ g.ref # "none" => g.type = "uuid" /\ g.ref = "dotted"
    /\ g.format => g.type = "string"
    /\ g.primary => g.generated

SoundEndpoint(d, e) ==
    /\ Project!IsEndpointSpec(e)
    /\ e.method = {} /\ e.handler = {} /\ e.before = {} /\ e.after = {}
    /\ e.events = {} /\ e.jobs = {} /\ e.upload = {}
    /\ e.input \union e.filters \union e.search \union e.sort \subseteq DOMAIN d.schema

Sound(d) ==
    /\ Project!IsResource(d)
    /\ d.name # "" /\ d.version # 0
    /\ Project!Primaries(d) = {"id"} /\ "id" \in DOMAIN d.schema
    /\ \A n \in DOMAIN d.schema : SoundField(d.schema[n])
    /\ \A k \in d.tenant_key : k \in DOMAIN d.schema /\ d.schema[k].type = "uuid"
    /\ DOMAIN d.endpoints \subseteq Project!HANDLER_CONVENTIONS
    /\ \A a \in DOMAIN d.endpoints : SoundEndpoint(d, d.endpoints[a])
    /\ \A r \in d.relations : r.type = "belongs_to" /\ r.key # {} /\ r.key \subseteq DOMAIN d.schema
    /\ \A x \in d.indexes : x.fields # {} /\ x.fields \subseteq DOMAIN d.schema
                            /\ x.order \in {"none", "asc", "desc"}

\* Rules that hold are not broken.
LEMMA NoRuleBroken ==
    /\ \A n, b : ~b => Project!Broken({<<n, b>>}) = {}
    /\ \A n, b, m, c : ~b /\ ~c => Project!Broken({<<n, b>>, <<m, c>>}) = {}
    /\ \A n1, b1, n2, b2, n3, b3, n4, b4, n5, b5 :
          ~b1 /\ ~b2 /\ ~b3 /\ ~b4 /\ ~b5 =>
              Project!Broken({<<n1, b1>>, <<n2, b2>>, <<n3, b3>>, <<n4, b4>>, <<n5, b5>>}) = {}
  BY DEF Project!Broken

\* ... nor are three.
LEMMA ThreeRules ==
    \A n1, b1, n2, b2, n3, b3 : ~b1 /\ ~b2 /\ ~b3 =>
        Project!Broken({<<n1, b1>>, <<n2, b2>>, <<n3, b3>>}) = {}
  BY DEF Project!Broken

\* A sound field breaks no rule.
LEMMA SoundFieldPasses == \A g : SoundField(g) => Project!ValidateField(g) = {}
<1> SUFFICES ASSUME NEW g, SoundField(g) PROVE Project!ValidateField(g) = {} OBVIOUS
<1>1. Project!ValidateTransient(g) = {}
  <2>1. g.transient = FALSE BY DEF SoundField, Project!FieldSchemas
  <2> DEFINE b1 == g.transient /\ g.primary
             b2 == g.transient /\ g.generated
             b3 == g.transient /\ g.ref # "none"
             b4 == g.transient /\ g.unique
             b5 == g.transient /\ g.default
  <2>2. Project!ValidateTransient(g) = Project!Broken({<<"transient_primary", b1>>,
          <<"transient_generated", b2>>,
            <<"transient_ref", b3>>, <<"transient_unique", b4>>, <<"transient_default", b5>>})
    BY DEF Project!ValidateTransient
  <2>3. ~b1 /\ ~b2 /\ ~b3 /\ ~b4 /\ ~b5 BY <2>1
  <2> HIDE DEF b1, b2, b3, b4, b5
  <2>4. QED BY <2>2, <2>3, NoRuleBroken
<1>2. (UNION {Project!ValidateItems(i) : i \in g.items}) = {} BY DEF SoundField
<1> DEFINE rules == {
        <<"SR010", g.type = "enum" /\ ~g.values>>,
        <<"SR011", g.type # "enum" /\ g.values>>,
        <<"SR012", g.ref # "none" /\ g.type # "uuid">>,
        <<"SR013", g.ref = "bare">>,
        <<"SR014", g.type = "array" /\ g.items = {}>>,
        <<"SR015", g.format /\ g.type # "string">>,
        <<"SR016", g.primary /\ ~g.generated /\ ~g.required>>}
<1>3. \A r \in rules : ~r[2]
  BY DEF SoundField, Project!FieldSchemas
<1>4. Project!Broken(rules) = {} BY <1>3 DEF Project!Broken
<1>5. QED BY <1>1, <1>2, <1>4 DEF Project!ValidateField

\* A sound endpoint lacks deleted_at at most.
LEMMA SoundEndpointPasses ==
    ASSUME NEW d, Sound(d), NEW a \in DOMAIN d.endpoints
    PROVE  Project!ValidateEndpoint(Parse(d), a) \subseteq {"SR041"}
<1> DEFINE e == Endpoint(d, a)
           g == d.endpoints[a]
<1>1. SoundEndpoint(d, g) /\ a \in Project!HANDLER_CONVENTIONS BY DEF Sound
<1>2. /\ e.handler = {} /\ e.before = {} /\ e.after = {} /\ e.events = {} /\ e.jobs = {} /\ e.upload = {}
      /\ e.input \union e.filters \union e.search \union e.sort \subseteq DOMAIN d.schema
  <2>1. Project!IsResource(d) BY DEF Sound
  <2>2. /\ e.handler = g.handler /\ e.before = g.before /\ e.after = g.after /\ e.events = g.events
        /\ e.jobs = g.jobs /\ e.upload = g.upload /\ e.input = g.input /\ e.filters = g.filters
        /\ e.search = g.search /\ e.sort = g.sort
    BY <2>1, EndpointLeaves
  <2> HIDE DEF e, g
  <2>3. QED BY <1>1, <2>2 DEF SoundEndpoint
<1>3. Project!endpoint_convention(a) # {}
  BY <1>1 DEF Project!endpoint_convention, Project!HANDLER_CONVENTIONS
<1>4. e.method # {} /\ e.path
  <2>1. e = [g EXCEPT !.method = IF @ = {} THEN Project!endpoint_convention(a) ELSE @, !.path = TRUE]
    BY <1>3 DEF Sound, Project!IsResource, Project!apply_endpoint_defaults, Parse, Endpoint
  <2>2. Project!IsEndpointSpec(g) BY <1>1 DEF SoundEndpoint
  <2> HIDE DEF e, g
  <2>3. QED BY <2>1, <2>2, <1>3 DEF Project!IsEndpointSpec
<1>5. Parse(d).endpoints[a] = e /\ Parse(d).schema = d.schema BY DefaultsLeave DEF Endpoint, Sound
<1> DEFINE p == Parse(d)
<1> HIDE DEF e, g, p
<1>6. Project!validate_handler_only_on_custom(a, e) = {}
  <2> DEFINE b == e.handler # {} /\ a \in Project!HANDLER_CONVENTIONS
  <2>1. ~b BY <1>2
  <2> HIDE DEF b
  <2>2. Project!Broken({<<"handler_on_convention", b>>}) = {} BY <2>1, NoRuleBroken
  <2>3. QED BY <2>2 DEF Project!validate_handler_only_on_custom, b
<1>7. Project!validate_controller_only_on_crud(a, e) = {}
  <2> DEFINE b == a \notin Project!CRUD_ACTIONS /\ UNION e.after # {}
  <2>1. ~b BY <1>1 DEF Project!CRUD_ACTIONS
  <2> HIDE DEF b
  <2>2. Project!Broken({<<"after_on_custom", b>>}) = {} BY <2>1, NoRuleBroken
  <2>3. QED BY <2>2 DEF Project!validate_controller_only_on_crud, b
<1>8. Project!ValidateHooks(e) = {}
  <2>1. e.before \union e.after = {} BY <1>2
  <2>2. UNION (e.before \union e.after) = {} /\ UNION e.before = {} /\ UNION e.after = {} BY <1>2
  <2> DEFINE b1 == {} \in e.before \union e.after
             b2 == "" \in UNION e.before
             b3 == "" \in UNION e.after
             b4 == "" \in e.events
             b5 == "" \in e.jobs
             rules == {<<"SR063", b1>>, <<"SR030", b2>>, <<"SR031", b3>>, <<"SR032", b4>>, <<"SR033",
                     b5>>}
  <2>3. ~b1 /\ ~b2 /\ ~b3 /\ ~b4 /\ ~b5 BY <1>2, <2>1, <2>2
  <2>4. Project!Broken(rules) = {}
    <3> HIDE DEF b1, b2, b3, b4, b5
    <3>1. QED BY <2>3, NoRuleBroken
  <2> HIDE DEF rules
  <2>5. (UNION {Project!validate_controller_name(h) : h \in UNION (e.before \union e.after)}) = {}
    BY <2>2
  <2>6. QED BY <2>4, <2>5 DEF Project!ValidateHooks, rules
<1>9. Project!ValidateNamedFields(p, e) \subseteq {"SR041"}
  <2> DEFINE b == \E n \in e.input \union e.filters \union e.search \union e.sort : ~Project!Defined(p,
          n)
             c == e.soft_delete /\ ~Project!Defined(p, "deleted_at")
  <2>1. Project!ValidateNamedFields(p, e) = Project!Broken({<<"SR040", b>>, <<"SR041", c>>})
    BY DEF Project!ValidateNamedFields
  <2>2. ~b BY <1>2, <1>5 DEF Project!Defined, p
  <2> HIDE DEF b, c
  <2>3. Project!Broken({<<"SR040", b>>, <<"SR041", c>>}) \subseteq {"SR041"} BY <2>2 DEF Project!Broken
  <2>4. QED BY <2>1, <2>3
<1>10. (UNION {Project!ValidateUpload(p, e, u) : u \in e.upload}) = {} BY <1>2
<1>11. Project!Broken({<<"no_method", e.method = {}>>, <<"no_path", ~e.path>>}) = {}
  <2> DEFINE b == e.method = {}
             c == ~e.path
  <2>1. ~b /\ ~c BY <1>4
  <2> HIDE DEF b, c
  <2>2. Project!Broken({<<"no_method", b>>, <<"no_path", c>>}) = {} BY <2>1, NoRuleBroken
  <2>3. QED BY <2>2 DEF b, c
<1>12. Project!ValidateEndpoint(p, a) =
    UNION {Project!validate_handler_only_on_custom(a, e), Project!validate_controller_only_on_crud(a, e),
           Project!ValidateHooks(e), Project!ValidateNamedFields(p, e),
           UNION {Project!ValidateUpload(p, e, u) : u \in e.upload},
           Project!Broken({<<"no_method", e.method = {}>>, <<"no_path", ~e.path>>})}
  BY <1>5 DEF Project!ValidateEndpoint, p
<1> DEFINE ns == Project!ValidateNamedFields(p, e)
<1>13. Project!ValidateEndpoint(p, a) = UNION {{}, {}, {}, ns, {}, {}}
  BY <1>6, <1>7, <1>8, <1>10, <1>11, <1>12
<1> HIDE DEF ns
<1>14. Project!ValidateEndpoint(p, a) = ns BY <1>13
<1>15. QED BY <1>9, <1>14 DEF ns, p

\* A sound resource breaks no rule about itself,
LEMMA SoundRootPasses ==
    ASSUME NEW d, Sound(d)
    PROVE  Project!ValidateRoot(Parse(d)) = {} /\ Project!ValidateReachable(Parse(d)) = {}
           /\ Project!ValidateTenantKey(Parse(d)) = {}
<1> DEFINE p == Parse(d)
<1>1. p.name = d.name /\ p.version = d.version /\ p.schema = d.schema /\ p.tenant_key = d.tenant_key
  BY DefaultsLeave DEF Sound
<1> HIDE DEF p
<1>2. Project!ValidateRoot(p) = {}
  <2>1. Project!Primaries(p) = {"id"} BY <1>1 DEF Sound, Project!Primaries
  <2>2. Project!Cardinality(Project!Primaries(p)) = 1 BY <2>1, FS_Singleton, ProjectCardinality
  <2> DEFINE b1 == p.name = ""
             b2 == p.version = 0
             b3 == DOMAIN p.schema = {}
             b4 == Project!Primaries(p) = {}
             b5 == Project!Cardinality(Project!Primaries(p)) > 1
             rules == {<<"SR001", b1>>, <<"SR002", b2>>, <<"SR003", b3>>, <<"SR004", b4>>, <<"SR005",
                     b5>>}
  <2>6. ~b1 /\ ~b2 BY <1>1 DEF Sound
  <2>7. ~b3 /\ ~b4 BY <1>1, <2>1 DEF Sound
  <2>8. ~b5 BY <2>2
  <2>3. ~b1 /\ ~b2 /\ ~b3 /\ ~b4 /\ ~b5 BY <2>6, <2>7, <2>8
  <2>4. Project!Broken(rules) = {}
    <3> HIDE DEF b1, b2, b3, b4, b5
    <3>1. QED BY <2>3, NoRuleBroken
  <2>5. QED BY <2>4 DEF Project!ValidateRoot
<1>3. Project!ValidateReachable(p) = {}
  <2> DEFINE b == \E n \in DOMAIN p.schema :
          p.schema[n].transient /\ \A a \in DOMAIN p.endpoints : n \notin p.endpoints[a].input
  <2>1. ~b BY <1>1 DEF Sound, SoundField
  <2>2. Project!ValidateReachable(p) = Project!Broken({<<"transient_unreachable", b>>})
    BY DEF Project!ValidateReachable
  <2> HIDE DEF b
  <2>3. QED BY <2>1, <2>2, NoRuleBroken
<1>4. Project!ValidateTenantKey(p) = {}
  <2> DEFINE b == \E k \in p.tenant_key : Project!Defined(p, k) /\ p.schema[k].type # "uuid"
             c == \E k \in p.tenant_key : ~Project!Defined(p, k)
  <2>1. ~b /\ ~c BY <1>1 DEF Sound, Project!Defined
  <2>2. Project!ValidateTenantKey(p) = Project!Broken({<<"SR020", b>>, <<"SR021", c>>})
    BY DEF Project!ValidateTenantKey
  <2> HIDE DEF b, c
  <2>3. QED BY <2>1, <2>2, NoRuleBroken
<1>5. QED BY <1>2, <1>3, <1>4 DEF p

\* ... about a relation or an index,
LEMMA SoundRelationsPass ==
    ASSUME NEW d, Sound(d)
    PROVE  /\ \A r \in d.relations : Project!ValidateRelation(Parse(d), r) = {}
           /\ \A x \in d.indexes : Project!ValidateIndex(Parse(d), x) = {}
<1> DEFINE p == Parse(d)
<1>1. p.schema = d.schema BY DefaultsLeave DEF Sound
<1> HIDE DEF p
<1>2. \A n \in DOMAIN d.schema : Project!Defined(p, n) BY <1>1 DEF Project!Defined
<1>3. ASSUME NEW r \in d.relations PROVE Project!ValidateRelation(p, r) = {}
  <2> DEFINE b1 == r.type = "belongs_to" /\ r.key = {}
             b2 == r.type \in {"has_many", "has_one"} /\ ~r.foreign_key
             b3 == \E k \in r.key : ~Project!Defined(p, k)
  <2>1. r.type = "belongs_to" /\ r.key # {} /\ r.key \subseteq DOMAIN d.schema BY <1>3 DEF Sound
  <2>2. ~b1 /\ ~b2 /\ ~b3 BY <1>2, <2>1
  <2>3. Project!ValidateRelation(p, r) = Project!Broken({<<"SR060", b1>>, <<"SR061", b2>>, <<"SR062",
          b3>>})
    BY DEF Project!ValidateRelation
  <2> HIDE DEF b1, b2, b3
  <2>4. QED BY <2>2, <2>3, ThreeRules
<1>4. ASSUME NEW x \in d.indexes PROVE Project!ValidateIndex(p, x) = {}
  <2> DEFINE b1 == x.fields = {}
             b2 == \E n \in x.fields : ~Project!Defined(p, n)
             b3 == x.order \notin {"none", "asc", "desc"}
  <2>1. x.fields # {} /\ x.fields \subseteq DOMAIN d.schema /\ x.order \in {"none", "asc", "desc"}
    BY <1>4 DEF Sound
  <2>2. ~b1 /\ ~b2 /\ ~b3 BY <1>2, <2>1
  <2>3. Project!ValidateIndex(p, x) = Project!Broken({<<"SR070", b1>>, <<"SR071", b2>>, <<"SR072", b3>>})
    BY DEF Project!ValidateIndex
  <2> HIDE DEF b1, b2, b3
  <2>4. QED BY <2>2, <2>3, ThreeRules
<1>5. QED BY <1>3, <1>4 DEF p

\* ... and none at all but that of deleted_at.
LEMMA SoundPasses ==
    ASSUME NEW d, Sound(d)
    PROVE  Project!validate_resource(Parse(d)) \subseteq {"SR041"}
<1> DEFINE p == Parse(d)
           fv == UNION {Project!ValidateField(p.schema[n]) : n \in DOMAIN p.schema}
           ev == UNION {Project!ValidateEndpoint(p, a) : a \in DOMAIN p.endpoints}
           rv == UNION {Project!ValidateRelation(p, r) : r \in p.relations}
           xv == UNION {Project!ValidateIndex(p, x) : x \in p.indexes}
<1>1. /\ p.schema = d.schema /\ DOMAIN p.endpoints = DOMAIN d.endpoints
      /\ p.relations = d.relations /\ p.indexes = d.indexes
  BY DefaultsLeave DEF Sound
<1>2. fv = {}
  <2>1. \A n \in DOMAIN p.schema : Project!ValidateField(p.schema[n]) = {}
    <3>1. TAKE n \in DOMAIN p.schema
    <3>2. p.schema[n] = d.schema[n] /\ SoundField(d.schema[n]) BY <1>1 DEF Sound
    <3> HIDE DEF p
    <3>3. QED BY <3>2, SoundFieldPasses
  <2> HIDE DEF p
  <2>2. QED BY <2>1
<1>3. ev \subseteq {"SR041"} BY <1>1, SoundEndpointPasses
<1>4. rv = {} /\ xv = {} BY <1>1, SoundRelationsPass
<1>5. Project!validate_resource(p) =
        UNION {Project!ValidateRoot(p), Project!ValidateReachable(p), Project!ValidateTenantKey(p), fv,
                ev, rv, xv}
  BY DEF Project!validate_resource
<1> HIDE DEF fv, ev, rv, xv
<1>6. Project!validate_resource(p) = UNION {{}, {}, {}, {}, ev, {}, {}}
  BY <1>2, <1>4, <1>5, SoundRootPasses
<1>7. Project!validate_resource(p) = ev BY <1>6
<1>8. QED BY <1>3, <1>7

-----------------------------------------------------------------------------

\* The fields the scaffolds are made of are sound.
LEMMA SoundKinds ==
    /\ SoundField(Project!GeneratedKey) /\ Project!GeneratedKey.primary
    /\ \A g \in {Project!GeneratedTime, Project!Required("string"), Project!Required("uuid"),
                 Project!OrgId, Project!Status,
                 [Project!Required("string") EXCEPT !.unique = TRUE],
                 [Project!Required("string") EXCEPT !.format = TRUE, !.unique = TRUE]} :
          SoundField(g) /\ ~g.primary
    /\ Project!OrgId.type = "uuid"
<1>1. SoundField(Project!GeneratedKey) /\ Project!GeneratedKey.primary
  BY DEF SoundField, Project!GeneratedKey, Project!FieldSchema, Project!FieldSchemas, Project!FieldTypes,
         Project!References
<1>2. SoundField(Project!GeneratedTime) /\ ~Project!GeneratedTime.primary
  BY DEF SoundField, Project!GeneratedTime, Project!FieldSchema, Project!FieldSchemas,
          Project!FieldTypes,
         Project!References
<1>3. \A t \in {"string", "uuid"} : SoundField(Project!Required(t)) /\ ~Project!Required(t).primary
  BY DEF SoundField, Project!Required, Project!FieldSchema, Project!FieldSchemas, Project!FieldTypes,
         Project!References
<1>4. SoundField(Project!OrgId) /\ ~Project!OrgId.primary /\ Project!OrgId.type = "uuid"
  BY DEF SoundField, Project!OrgId, Project!Required, Project!FieldSchema, Project!FieldSchemas,
         Project!FieldTypes, Project!References
<1>5. SoundField(Project!Status) /\ ~Project!Status.primary
  BY DEF SoundField, Project!Status, Project!FieldSchema, Project!FieldSchemas, Project!FieldTypes,
         Project!References
<1> DEFINE u == [Project!Required("string") EXCEPT !.unique = TRUE]
           v == [Project!Required("string") EXCEPT !.format = TRUE, !.unique = TRUE]
<1>6. SoundField(u) /\ ~u.primary
  BY DEF SoundField, Project!Required, Project!FieldSchema, Project!FieldSchemas, Project!FieldTypes,
         Project!References
<1>7. SoundField(v) /\ ~v.primary
  BY DEF SoundField, Project!Required, Project!FieldSchema, Project!FieldSchemas, Project!FieldTypes,
         Project!References
<1>8. QED BY <1>1, <1>2, <1>3, <1>4, <1>5, <1>6, <1>7


\* The forms of endpoint the scaffolds are made of are sound,
LEMMA QuietForms ==
    ASSUME NEW d, NEW i, NEW y, NEW c, NEW q, i \union y \union c \union q \subseteq DOMAIN d.schema
    PROVE  /\ SoundEndpoint(d, Project!EndpointSpec)
           /\ SoundEndpoint(d, Project!SoftDelete)
           /\ SoundEndpoint(d, Project!Takes(i))
           /\ SoundEndpoint(d, [Project!EndpointSpec EXCEPT !.filters = y, !.search = c, !.sort = q])
           /\ SoundEndpoint(d, [Project!EndpointSpec EXCEPT !.filters = y, !.search = c])
           /\ SoundEndpoint(d, [Project!EndpointSpec EXCEPT !.sort = q])
<1> DEFINE e == Project!EndpointSpec
           parts == DOMAIN e
<1>1. /\ e.method = {} /\ e.handler = {} /\ e.before = {} /\ e.after = {} /\ e.events = {} /\ e.jobs = {}
      /\ e.upload = {} /\ e.input = {} /\ e.filters = {} /\ e.search = {} /\ e.sort = {}
      /\ e.path = FALSE /\ e.soft_delete = FALSE
      /\ e = [x \in parts |-> e[x]]
      /\ {"method", "path", "handler", "before", "after", "events", "jobs", "input", "filters", "search",
          "sort", "soft_delete", "upload"} \subseteq parts
  BY DEF Project!EndpointSpec
<1>2. \A g : SoundEndpoint(d, g) <=>
    /\ g = [x \in parts |-> g[x]] /\ g.path \in BOOLEAN /\ g.soft_delete \in BOOLEAN
    /\ g.method = {} /\ g.handler = {} /\ g.before = {} /\ g.after = {}
    /\ g.events = {} /\ g.jobs = {} /\ g.upload = {}
    /\ g.input \union g.filters \union g.search \union g.sort \subseteq DOMAIN d.schema
  BY DEF SoundEndpoint, Project!IsEndpointSpec
<1> HIDE DEF e, parts
<1>3. SoundEndpoint(d, e) BY <1>1, <1>2
<1>4. SoundEndpoint(d, [e EXCEPT !.soft_delete = TRUE])
  <2> DEFINE g == [e EXCEPT !.soft_delete = TRUE]
  <2>1. g = [x \in parts |-> g[x]] BY <1>1
  <2>2. /\ g.method = {} /\ g.handler = {} /\ g.before = {} /\ g.after = {}
        /\ g.events = {} /\ g.jobs = {} /\ g.upload = {} /\ g.path \in BOOLEAN
                /\ g.soft_delete \in BOOLEAN
    BY <1>1
  <2>3. g.input \union g.filters \union g.search \union g.sort \subseteq DOMAIN d.schema BY <1>1
  <2> HIDE DEF g
  <2>4. SoundEndpoint(d, g) BY <1>2, <2>1, <2>2, <2>3
  <2>5. QED BY <2>4 DEF g
<1>5. SoundEndpoint(d, [e EXCEPT !.input = i])
  <2> DEFINE g == [e EXCEPT !.input = i]
  <2>1. g = [x \in parts |-> g[x]] BY <1>1
  <2>2. /\ g.method = {} /\ g.handler = {} /\ g.before = {} /\ g.after = {}
        /\ g.events = {} /\ g.jobs = {} /\ g.upload = {} /\ g.path \in BOOLEAN
                /\ g.soft_delete \in BOOLEAN
    BY <1>1
  <2>3. g.input \union g.filters \union g.search \union g.sort \subseteq DOMAIN d.schema BY <1>1
  <2> HIDE DEF g
  <2>4. SoundEndpoint(d, g) BY <1>2, <2>1, <2>2, <2>3
  <2>5. QED BY <2>4 DEF g
<1>6. SoundEndpoint(d, [e EXCEPT !.filters = y, !.search = c, !.sort = q])
  <2> DEFINE g == [e EXCEPT !.filters = y, !.search = c, !.sort = q]
  <2>1. g = [x \in parts |-> g[x]] BY <1>1
  <2>2. /\ g.method = {} /\ g.handler = {} /\ g.before = {} /\ g.after = {}
        /\ g.events = {} /\ g.jobs = {} /\ g.upload = {} /\ g.path \in BOOLEAN
                /\ g.soft_delete \in BOOLEAN
    BY <1>1
  <2>3. g.input \union g.filters \union g.search \union g.sort \subseteq DOMAIN d.schema BY <1>1
  <2> HIDE DEF g
  <2>4. SoundEndpoint(d, g) BY <1>2, <2>1, <2>2, <2>3
  <2>5. QED BY <2>4 DEF g
<1>7. SoundEndpoint(d, [e EXCEPT !.filters = y, !.search = c])
  <2> DEFINE g == [e EXCEPT !.filters = y, !.search = c]
  <2>1. g = [x \in parts |-> g[x]] BY <1>1
  <2>2. /\ g.method = {} /\ g.handler = {} /\ g.before = {} /\ g.after = {}
        /\ g.events = {} /\ g.jobs = {} /\ g.upload = {} /\ g.path \in BOOLEAN
                /\ g.soft_delete \in BOOLEAN
    BY <1>1
  <2>3. g.input \union g.filters \union g.search \union g.sort \subseteq DOMAIN d.schema BY <1>1
  <2> HIDE DEF g
  <2>4. SoundEndpoint(d, g) BY <1>2, <2>1, <2>2, <2>3
  <2>5. QED BY <2>4 DEF g
<1>8. SoundEndpoint(d, [e EXCEPT !.sort = q])
  <2> DEFINE g == [e EXCEPT !.sort = q]
  <2>1. g = [x \in parts |-> g[x]] BY <1>1
  <2>2. /\ g.method = {} /\ g.handler = {} /\ g.before = {} /\ g.after = {}
        /\ g.events = {} /\ g.jobs = {} /\ g.upload = {} /\ g.path \in BOOLEAN
                /\ g.soft_delete \in BOOLEAN
    BY <1>1
  <2>3. g.input \union g.filters \union g.search \union g.sort \subseteq DOMAIN d.schema BY <1>1
  <2> HIDE DEF g
  <2>4. SoundEndpoint(d, g) BY <1>2, <2>1, <2>2, <2>3
  <2>5. QED BY <2>4 DEF g
<1>11. QED BY <1>3, <1>4, <1>5, <1>6, <1>7, <1>8 DEF e, Project!SoftDelete, Project!Takes

\* A resource with its indexes filled in.
LEMMA Filled1 ==
    ASSUME NEW s, NEW e, NEW x
    PROVE  [Project!Resource(s, e) EXCEPT !.indexes = x]
                = [name |-> "given", version |-> 1, tenant_key |-> {}, schema |-> s, endpoints |-> e,
                   relations |-> {}, indexes |-> x]
<1> DEFINE b == Project!Resource(s, e)
<1>1. b = [name |-> "given", version |-> 1, tenant_key |-> {}, schema |-> s, endpoints |-> e,
           relations |-> {}, indexes |-> {}]
  BY DEF Project!Resource
<1> HIDE DEF b
<1>2. [b EXCEPT !.indexes = x]
                = [name |-> "given", version |-> 1, tenant_key |-> {}, schema |-> s, endpoints |-> e,
                   relations |-> {}, indexes |-> x]
  BY <1>1
<1>3. QED BY <1>2 DEF b

\* ... an endpoint that says nothing,
LEMMA SilentSound ==
    ASSUME NEW d
    PROVE  SoundEndpoint(d, Project!EndpointSpec) /\ SoundEndpoint(d, Project!SoftDelete)
<1>1. {} \union {} \union {} \union {} \subseteq DOMAIN d.schema OBVIOUS
<1>2. QED BY <1>1, QuietForms

\* ... one that takes fields there are,
LEMMA TakesSound ==
    ASSUME NEW d, NEW i, i \subseteq DOMAIN d.schema
    PROVE  SoundEndpoint(d, Project!Takes(i))
<1>1. i \union {} \union {} \union {} \subseteq DOMAIN d.schema OBVIOUS
<1>2. QED BY <1>1, QuietForms

\* ... and one that lists by fields there are.
LEMMA ListSound ==
    ASSUME NEW d, NEW y, NEW c, NEW q, y \subseteq DOMAIN d.schema, c \subseteq DOMAIN d.schema,
           q \subseteq DOMAIN d.schema
    PROVE  /\ SoundEndpoint(d, [Project!EndpointSpec EXCEPT !.filters = y, !.search = c, !.sort = q])
           /\ SoundEndpoint(d, [Project!EndpointSpec EXCEPT !.filters = y, !.search = c])
           /\ SoundEndpoint(d, [Project!EndpointSpec EXCEPT !.sort = q])
<1>1. {} \union y \union c \union q \subseteq DOMAIN d.schema OBVIOUS
<1>2. QED BY <1>1, QuietForms

\* What is made of these parts is sound.
LEMMA ScaffoldSound ==
    ASSUME NEW d,
           d = [name |-> "given", version |-> 1, tenant_key |-> d.tenant_key, schema |-> d.schema,
                endpoints |-> d.endpoints, relations |-> d.relations, indexes |-> d.indexes],
           d.schema = [n \in DOMAIN d.schema |-> d.schema[n]], "id" \in DOMAIN d.schema,
           \A n \in DOMAIN d.schema : SoundField(d.schema[n]) /\ (d.schema[n].primary <=> n = "id"),
           \A n \in d.tenant_key : n \in DOMAIN d.schema /\ d.schema[n].type = "uuid",
           d.endpoints = [a \in Project!HANDLER_CONVENTIONS |-> d.endpoints[a]],
           \A a \in Project!HANDLER_CONVENTIONS : SoundEndpoint(d, d.endpoints[a]),
           \A y \in d.relations : y.type = "belongs_to" /\ y.key # {} /\ y.key \subseteq DOMAIN d.schema,
           \A y \in d.indexes : y.fields # {} /\ y.fields \subseteq DOMAIN d.schema
                                /\ y.order \in {"none", "asc", "desc"}
    PROVE  Sound(d)
<1> DEFINE s == d.schema
           e == d.endpoints
<1>1. d.name = "given" /\ d.version = 1 OBVIOUS
<1>2. Project!IsResource(d)
  <2>1. s \in [DOMAIN s -> Project!FieldSchemas] BY DEF SoundField
  <2>2. DOMAIN e = Project!HANDLER_CONVENTIONS /\ e = [a \in DOMAIN e |-> e[a]] OBVIOUS
  <2>3. \A a \in DOMAIN e : Project!IsEndpointSpec(e[a]) BY <2>2 DEF SoundEndpoint
  <2>4. d.version \in Nat BY <1>1
  <2>5. d = [name |-> d.name, version |-> d.version, tenant_key |-> d.tenant_key, schema |-> d.schema,
             endpoints |-> d.endpoints, relations |-> d.relations, indexes |-> d.indexes]
    BY <1>1
  <2>6. QED BY <2>1, <2>2, <2>3, <2>4, <2>5 DEF Project!IsResource
<1>3. Project!Primaries(d) = {"id"} BY DEF Project!Primaries
<1>4. DOMAIN d.endpoints \subseteq Project!HANDLER_CONVENTIONS
      /\ \A a \in DOMAIN d.endpoints : SoundEndpoint(d, d.endpoints[a]) OBVIOUS
<1>5. d.name # "" /\ d.version # 0 BY <1>1
<1>6. QED BY <1>2, <1>3, <1>4, <1>5 DEF Sound
\* The basic scaffold is sound.
LEMMA BasicSound == Sound(Project!archetype_basic)
<1> DEFINE d == Project!archetype_basic
           s == [id |-> Project!GeneratedKey,
                 created_at |-> Project!GeneratedTime,
                 updated_at |-> Project!GeneratedTime]
           e == [list |-> Project!EndpointSpec,
                 get |-> Project!EndpointSpec, create |-> Project!Takes({}),
                 update |-> Project!Takes({}), delete |-> Project!EndpointSpec]
           x == {}
           r == {}
<1>1. d = [name |-> "given", version |-> 1, tenant_key |-> {}, schema |-> s, endpoints |-> e,
           relations |-> r, indexes |-> x]
  BY DEF Project!archetype_basic, Project!Resource
<1>2. DOMAIN s = {"id", "created_at", "updated_at"} /\ s = [n \in DOMAIN s |-> s[n]] /\ d.schema = s
  BY <1>1
<1>3. \A n \in DOMAIN s : SoundField(s[n]) /\ (s[n].primary <=> n = "id")
  <2>1. SoundField(Project!GeneratedTime) /\ ~(Project!GeneratedTime).primary BY SoundKinds
  <2>2. SoundField(Project!GeneratedKey) /\ Project!GeneratedKey.primary BY SoundKinds
  <2>3. QED BY <1>2, <2>1, <2>2
<1>4. e = [a \in Project!HANDLER_CONVENTIONS |-> e[a]] BY DEF Project!HANDLER_CONVENTIONS
<1>5. \A a \in Project!HANDLER_CONVENTIONS : SoundEndpoint(d, e[a])
  <2>1. {} \subseteq DOMAIN d.schema OBVIOUS
  <2> HIDE DEF d
  <2>2. SoundEndpoint(d, Project!EndpointSpec) /\ SoundEndpoint(d, Project!SoftDelete) BY SilentSound
  <2>3. SoundEndpoint(d, Project!Takes({})) /\ SoundEndpoint(d, Project!Takes({}))
    BY <2>1, TakesSound
  <2>4. QED BY <2>2, <2>3 DEF Project!HANDLER_CONVENTIONS
<1>6. \A y \in x : y.fields # {} /\ y.fields \subseteq DOMAIN s /\ y.order \in {"none", "asc", "desc"}
  BY <1>2 DEF Project!Index
<1>7. \A y \in r : y.type = "belongs_to" /\ y.key # {} /\ y.key \subseteq DOMAIN s
  BY <1>2 DEF Project!ToOrganization
<1>8. \A n \in {} : n \in DOMAIN s /\ s[n].type = "uuid"
  BY <1>2, SoundKinds
<1>9. s = [n \in DOMAIN s |-> s[n]] /\ "id" \in DOMAIN s BY <1>2
<1> HIDE DEF s, e, x, r, d
<1>10. Sound(d) BY <1>1, <1>3, <1>4, <1>5, <1>6, <1>7, <1>8, <1>9, ScaffoldSound
<1>11. QED BY <1>10 DEF d

\* The user scaffold is sound.
LEMMA UserSound == Sound(Project!archetype_user)
<1> DEFINE address == [Project!Required("string") EXCEPT !.format = TRUE, !.unique = TRUE]
           d == Project!archetype_user
           s == [id |-> Project!GeneratedKey,
                 email |-> address,
                 name |-> Project!Required("string"),
                 role |-> Project!Status,
                 org_id |-> Project!OrgId,
                 created_at |-> Project!GeneratedTime,
                 updated_at |-> Project!GeneratedTime]
           e == [list |-> [Project!EndpointSpec EXCEPT !.filters = {"role", "org_id"},
                   !.search = {"name", "email"}, !.sort = {"created_at", "name"}],
                 get |-> Project!EndpointSpec, create |-> Project!Takes({"email", "name", "role",
                         "org_id"}),
                 update |-> Project!Takes({"name", "role"}), delete |-> Project!SoftDelete]
           x == {Project!Index({"email"}, "none"), Project!Index({"org_id", "role"}, "none"),
                   Project!Index({"created_at"}, "desc")}
           r == {Project!ToOrganization}
<1>1. d = [name |-> "given", version |-> 1, tenant_key |-> {}, schema |-> s, endpoints |-> e,
           relations |-> r, indexes |-> x]
  <2> DEFINE b == Project!Resource(s, e)
             c == [b EXCEPT !.relations = r]
  <2>1. d = [c EXCEPT !.indexes = x] BY DEF Project!archetype_user
  <2>2. b = [name |-> "given", version |-> 1, tenant_key |-> {}, schema |-> s, endpoints |-> e,
              relations |-> {}, indexes |-> {}]
    BY DEF Project!Resource
  <2> HIDE DEF s, e, x, r, d, b
  <2>4. c = [name |-> "given", version |-> 1, tenant_key |-> {}, schema |-> s, endpoints |-> e,
              relations |-> r, indexes |-> {}]
    BY <2>2
  <2> HIDE DEF c
  <2>5. QED BY <2>1, <2>4
<1>2. DOMAIN s = {"id", "email", "name", "role", "org_id", "created_at", "updated_at"}
        /\ s = [n \in DOMAIN s |-> s[n]] /\ d.schema = s BY <1>1
<1>3. \A n \in DOMAIN s : SoundField(s[n]) /\ (s[n].primary <=> n = "id")
  <2>1. SoundField(Project!GeneratedTime) /\ ~(Project!GeneratedTime).primary BY SoundKinds
  <2>2. SoundField(Project!OrgId) /\ ~(Project!OrgId).primary BY SoundKinds
  <2>3. SoundField(Project!Required("string")) /\ ~(Project!Required("string")).primary BY SoundKinds
  <2>4. SoundField(Project!Status) /\ ~(Project!Status).primary BY SoundKinds
  <2>5. SoundField(address) /\ ~address.primary BY SoundKinds
  <2>6. SoundField(Project!GeneratedKey) /\ Project!GeneratedKey.primary BY SoundKinds
  <2> HIDE DEF address
  <2>7. QED BY <1>2, <2>1, <2>2, <2>3, <2>4, <2>5, <2>6
<1>4. e = [a \in Project!HANDLER_CONVENTIONS |-> e[a]] BY DEF Project!HANDLER_CONVENTIONS
<1>5. \A a \in Project!HANDLER_CONVENTIONS : SoundEndpoint(d, e[a])
  <2>1. /\ {"role", "org_id"} \subseteq DOMAIN d.schema
        /\ {"name", "email"} \subseteq DOMAIN d.schema
        /\ {"created_at", "name"} \subseteq DOMAIN d.schema
        /\ {"email", "name", "role", "org_id"} \subseteq DOMAIN d.schema
        /\ {"name", "role"} \subseteq DOMAIN d.schema
    BY <1>2
  <2> HIDE DEF d
  <2>2. SoundEndpoint(d, Project!EndpointSpec) /\ SoundEndpoint(d, Project!SoftDelete) BY SilentSound
  <2>3. SoundEndpoint(d, Project!Takes({"email", "name", "role", "org_id"}))
          /\ SoundEndpoint(d, Project!Takes({"name", "role"}))
    BY <2>1, TakesSound
  <2>4. SoundEndpoint(d, [Project!EndpointSpec EXCEPT !.filters = {"role", "org_id"},
          !.search = {"name", "email"}, !.sort = {"created_at", "name"}]) BY <2>1, ListSound
  <2>5. QED BY <2>2, <2>3, <2>4 DEF Project!HANDLER_CONVENTIONS
<1>6. \A y \in x : y.fields # {} /\ y.fields \subseteq DOMAIN s /\ y.order \in {"none", "asc", "desc"}
  BY <1>2 DEF Project!Index
<1>7. \A y \in r : y.type = "belongs_to" /\ y.key # {} /\ y.key \subseteq DOMAIN s
  BY <1>2 DEF Project!ToOrganization
<1>8. \A n \in {} : n \in DOMAIN s /\ s[n].type = "uuid"
  BY <1>2, SoundKinds
<1>9. s = [n \in DOMAIN s |-> s[n]] /\ "id" \in DOMAIN s BY <1>2
<1> HIDE DEF s, e, x, r, d
<1>10. Sound(d) BY <1>1, <1>3, <1>4, <1>5, <1>6, <1>7, <1>8, <1>9, ScaffoldSound
<1>11. QED BY <1>10 DEF d

\* The content scaffold is sound.
LEMMA ContentSound == Sound(Project!archetype_content)
<1> DEFINE unique == [Project!Required("string") EXCEPT !.unique = TRUE]
           d == Project!archetype_content
           s == [id |-> Project!GeneratedKey,
                 title |-> Project!Required("string"),
                 slug |-> unique,
                 body |-> Project!Required("string"),
                 status |-> Project!Status,
                 author_id |-> Project!Required("uuid"),
                 created_at |-> Project!GeneratedTime,
                 updated_at |-> Project!GeneratedTime]
           e == [list |-> [Project!EndpointSpec EXCEPT !.filters = {"status", "author_id"},
                   !.search = {"title", "body"}, !.sort = {"created_at", "title"}],
                 get |-> Project!EndpointSpec, create |-> Project!Takes({"title", "slug", "body",
                         "status", "author_id"}),
                 update |-> Project!Takes({"title", "slug", "body", "status"}),
                         delete |-> Project!SoftDelete]
           x == {Project!Index({"slug"}, "none"), Project!Index({"author_id", "status"}, "none"),
                   Project!Index({"created_at"}, "desc")}
           r == {}
<1>1. d = [name |-> "given", version |-> 1, tenant_key |-> {}, schema |-> s, endpoints |-> e,
           relations |-> r, indexes |-> x]
  <2>1. d = [Project!Resource(s, e) EXCEPT !.indexes = x] BY DEF Project!archetype_content
  <2> HIDE DEF s, e, x, r, d
  <2>2. [Project!Resource(s, e) EXCEPT !.indexes = x] = [name |-> "given", version |-> 1,
          tenant_key |-> {}, schema |-> s,
          endpoints |-> e, relations |-> {}, indexes |-> x]
    BY Filled1
  <2>3. QED BY <2>1, <2>2 DEF r
<1>2. DOMAIN s = {"id", "title", "slug", "body", "status", "author_id", "created_at", "updated_at"}
        /\ s = [n \in DOMAIN s |-> s[n]] /\ d.schema = s BY <1>1
<1>3. \A n \in DOMAIN s : SoundField(s[n]) /\ (s[n].primary <=> n = "id")
  <2>1. SoundField(Project!GeneratedTime) /\ ~(Project!GeneratedTime).primary BY SoundKinds
  <2>2. SoundField(Project!Required("string")) /\ ~(Project!Required("string")).primary BY SoundKinds
  <2>3. SoundField(Project!Required("uuid")) /\ ~(Project!Required("uuid")).primary BY SoundKinds
  <2>4. SoundField(Project!Status) /\ ~(Project!Status).primary BY SoundKinds
  <2>5. SoundField(unique) /\ ~unique.primary BY SoundKinds
  <2>6. SoundField(Project!GeneratedKey) /\ Project!GeneratedKey.primary BY SoundKinds
  <2> HIDE DEF unique
  <2>7. QED BY <1>2, <2>1, <2>2, <2>3, <2>4, <2>5, <2>6
<1>4. e = [a \in Project!HANDLER_CONVENTIONS |-> e[a]] BY DEF Project!HANDLER_CONVENTIONS
<1>5. \A a \in Project!HANDLER_CONVENTIONS : SoundEndpoint(d, e[a])
  <2>1. /\ {"status", "author_id"} \subseteq DOMAIN d.schema
        /\ {"title", "body"} \subseteq DOMAIN d.schema
        /\ {"created_at", "title"} \subseteq DOMAIN d.schema
        /\ {"title", "slug", "body", "status", "author_id"} \subseteq DOMAIN d.schema
        /\ {"title", "slug", "body", "status"} \subseteq DOMAIN d.schema
    BY <1>2
  <2> HIDE DEF d
  <2>2. SoundEndpoint(d, Project!EndpointSpec) /\ SoundEndpoint(d, Project!SoftDelete) BY SilentSound
  <2>3. SoundEndpoint(d, Project!Takes({"title", "slug", "body", "status", "author_id"}))
          /\ SoundEndpoint(d, Project!Takes({"title", "slug", "body", "status"}))
    BY <2>1, TakesSound
  <2>4. SoundEndpoint(d, [Project!EndpointSpec EXCEPT !.filters = {"status", "author_id"},
          !.search = {"title", "body"}, !.sort = {"created_at", "title"}]) BY <2>1, ListSound
  <2>5. QED BY <2>2, <2>3, <2>4 DEF Project!HANDLER_CONVENTIONS
<1>6. \A y \in x : y.fields # {} /\ y.fields \subseteq DOMAIN s /\ y.order \in {"none", "asc", "desc"}
  BY <1>2 DEF Project!Index
<1>7. \A y \in r : y.type = "belongs_to" /\ y.key # {} /\ y.key \subseteq DOMAIN s
  BY <1>2 DEF Project!ToOrganization
<1>8. \A n \in {} : n \in DOMAIN s /\ s[n].type = "uuid"
  BY <1>2, SoundKinds
<1>9. s = [n \in DOMAIN s |-> s[n]] /\ "id" \in DOMAIN s BY <1>2
<1> HIDE DEF s, e, x, r, d
<1>10. Sound(d) BY <1>1, <1>3, <1>4, <1>5, <1>6, <1>7, <1>8, <1>9, ScaffoldSound
<1>11. QED BY <1>10 DEF d

\* The tenant scaffold is sound.
LEMMA TenantSound == Sound(Project!archetype_tenant)
<1> DEFINE d == Project!archetype_tenant
           s == [id |-> Project!GeneratedKey,
                 org_id |-> Project!OrgId,
                 name |-> Project!Required("string"),
                 created_at |-> Project!GeneratedTime,
                 updated_at |-> Project!GeneratedTime]
           e == [list |-> [Project!EndpointSpec EXCEPT !.filters = {"org_id"}, !.search = {"name"}],
                 get |-> Project!EndpointSpec, create |-> Project!Takes({"org_id", "name"}),
                 update |-> Project!Takes({"name"}), delete |-> Project!SoftDelete]
           x == {Project!Index({"org_id"}, "none"), Project!Index({"created_at"}, "desc")}
           r == {Project!ToOrganization}
<1>1. d = [name |-> "given", version |-> 1, tenant_key |-> {"org_id"}, schema |-> s, endpoints |-> e,
           relations |-> r, indexes |-> x]
  <2> DEFINE b == Project!Resource(s, e)
             a == [b EXCEPT !.tenant_key = {"org_id"}]
             c == [a EXCEPT !.relations = r]
  <2>1. d = [c EXCEPT !.indexes = x] BY DEF Project!archetype_tenant
  <2>2. b = [name |-> "given", version |-> 1, tenant_key |-> {}, schema |-> s, endpoints |-> e,
              relations |-> {}, indexes |-> {}]
    BY DEF Project!Resource
  <2> HIDE DEF s, e, x, r, d, b
  <2>3. a = [name |-> "given", version |-> 1, tenant_key |-> {"org_id"}, schema |-> s, endpoints |-> e,
              relations |-> {}, indexes |-> {}]
    BY <2>2
  <2> HIDE DEF a
  <2>4. c = [name |-> "given", version |-> 1, tenant_key |-> {"org_id"}, schema |-> s, endpoints |-> e,
              relations |-> r, indexes |-> {}]
    BY <2>3
  <2> HIDE DEF c
  <2>5. QED BY <2>1, <2>4
<1>2. DOMAIN s = {"id", "org_id", "name", "created_at", "updated_at"} /\ s = [n \in DOMAIN s |-> s[n]]
        /\ d.schema = s BY <1>1
<1>3. \A n \in DOMAIN s : SoundField(s[n]) /\ (s[n].primary <=> n = "id")
  <2>1. SoundField(Project!GeneratedTime) /\ ~(Project!GeneratedTime).primary BY SoundKinds
  <2>2. SoundField(Project!OrgId) /\ ~(Project!OrgId).primary BY SoundKinds
  <2>3. SoundField(Project!Required("string")) /\ ~(Project!Required("string")).primary BY SoundKinds
  <2>4. SoundField(Project!GeneratedKey) /\ Project!GeneratedKey.primary BY SoundKinds
  <2>5. QED BY <1>2, <2>1, <2>2, <2>3, <2>4
<1>4. e = [a \in Project!HANDLER_CONVENTIONS |-> e[a]] BY DEF Project!HANDLER_CONVENTIONS
<1>5. \A a \in Project!HANDLER_CONVENTIONS : SoundEndpoint(d, e[a])
  <2>1. /\ {"org_id"} \subseteq DOMAIN d.schema
        /\ {"name"} \subseteq DOMAIN d.schema
        /\ {"org_id", "name"} \subseteq DOMAIN d.schema
        /\ {"name"} \subseteq DOMAIN d.schema
    BY <1>2
  <2> HIDE DEF d
  <2>2. SoundEndpoint(d, Project!EndpointSpec) /\ SoundEndpoint(d, Project!SoftDelete) BY SilentSound
  <2>3. SoundEndpoint(d, Project!Takes({"org_id", "name"})) /\ SoundEndpoint(d, Project!Takes({"name"}))
    BY <2>1, TakesSound
  <2>4. SoundEndpoint(d, [Project!EndpointSpec EXCEPT !.filters = {"org_id"}, !.search = {"name"}])
    BY <2>1, ListSound
  <2>5. QED BY <2>2, <2>3, <2>4 DEF Project!HANDLER_CONVENTIONS
<1>6. \A y \in x : y.fields # {} /\ y.fields \subseteq DOMAIN s /\ y.order \in {"none", "asc", "desc"}
  BY <1>2 DEF Project!Index
<1>7. \A y \in r : y.type = "belongs_to" /\ y.key # {} /\ y.key \subseteq DOMAIN s
  BY <1>2 DEF Project!ToOrganization
<1>8. \A n \in {"org_id"} : n \in DOMAIN s /\ s[n].type = "uuid"
  BY <1>2, SoundKinds
<1>9. s = [n \in DOMAIN s |-> s[n]] /\ "id" \in DOMAIN s BY <1>2
<1> HIDE DEF s, e, x, r, d
<1>10. Sound(d) BY <1>1, <1>3, <1>4, <1>5, <1>6, <1>7, <1>8, <1>9, ScaffoldSound
<1>11. QED BY <1>10 DEF d

\* The lookup scaffold is sound.
LEMMA LookupSound == Sound(Project!archetype_lookup)
<1> DEFINE unique == [Project!Required("string") EXCEPT !.unique = TRUE]
           d == Project!archetype_lookup
           s == [id |-> Project!GeneratedKey,
                 code |-> unique,
                 label |-> Project!Required("string")]
           e == [list |-> [Project!EndpointSpec EXCEPT !.sort = {"code", "label"}],
                 get |-> Project!EndpointSpec, create |-> Project!Takes({"code", "label"}),
                 update |-> Project!Takes({"label"}), delete |-> Project!EndpointSpec]
           x == {Project!Index({"code"}, "none")}
           r == {}
<1>1. d = [name |-> "given", version |-> 1, tenant_key |-> {}, schema |-> s, endpoints |-> e,
           relations |-> r, indexes |-> x]
  <2>1. d = [Project!Resource(s, e) EXCEPT !.indexes = x] BY DEF Project!archetype_lookup
  <2> HIDE DEF s, e, x, r, d
  <2>2. [Project!Resource(s, e) EXCEPT !.indexes = x] = [name |-> "given", version |-> 1,
          tenant_key |-> {}, schema |-> s,
          endpoints |-> e, relations |-> {}, indexes |-> x]
    BY Filled1
  <2>3. QED BY <2>1, <2>2 DEF r
<1>2. DOMAIN s = {"id", "code", "label"} /\ s = [n \in DOMAIN s |-> s[n]] /\ d.schema = s BY <1>1
<1>3. \A n \in DOMAIN s : SoundField(s[n]) /\ (s[n].primary <=> n = "id")
  <2>1. SoundField(Project!Required("string")) /\ ~(Project!Required("string")).primary BY SoundKinds
  <2>2. SoundField(unique) /\ ~unique.primary BY SoundKinds
  <2>3. SoundField(Project!GeneratedKey) /\ Project!GeneratedKey.primary BY SoundKinds
  <2> HIDE DEF unique
  <2>4. QED BY <1>2, <2>1, <2>2, <2>3
<1>4. e = [a \in Project!HANDLER_CONVENTIONS |-> e[a]] BY DEF Project!HANDLER_CONVENTIONS
<1>5. \A a \in Project!HANDLER_CONVENTIONS : SoundEndpoint(d, e[a])
  <2>1. /\ {"code", "label"} \subseteq DOMAIN d.schema
        /\ {"code", "label"} \subseteq DOMAIN d.schema
        /\ {"label"} \subseteq DOMAIN d.schema
    BY <1>2
  <2> HIDE DEF d
  <2>2. SoundEndpoint(d, Project!EndpointSpec) /\ SoundEndpoint(d, Project!SoftDelete) BY SilentSound
  <2>3. SoundEndpoint(d, Project!Takes({"code", "label"})) /\ SoundEndpoint(d, Project!Takes({"label"}))
    BY <2>1, TakesSound
  <2>4. SoundEndpoint(d, [Project!EndpointSpec EXCEPT !.sort = {"code", "label"}]) BY <2>1, ListSound
  <2>5. QED BY <2>2, <2>3, <2>4 DEF Project!HANDLER_CONVENTIONS
<1>6. \A y \in x : y.fields # {} /\ y.fields \subseteq DOMAIN s /\ y.order \in {"none", "asc", "desc"}
  BY <1>2 DEF Project!Index
<1>7. \A y \in r : y.type = "belongs_to" /\ y.key # {} /\ y.key \subseteq DOMAIN s
  BY <1>2 DEF Project!ToOrganization
<1>8. \A n \in {} : n \in DOMAIN s /\ s[n].type = "uuid"
  BY <1>2, SoundKinds
<1>9. s = [n \in DOMAIN s |-> s[n]] /\ "id" \in DOMAIN s BY <1>2
<1> HIDE DEF s, e, x, r, d
<1>10. d.tenant_key = {} /\ d.schema = s /\ d.endpoints = e /\ d.relations = r /\ d.indexes = x BY <1>1
<1>11. \A n \in d.tenant_key : n \in DOMAIN d.schema /\ d.schema[n].type = "uuid" BY <1>8, <1>10
<1>12. d = [name |-> "given", version |-> 1, tenant_key |-> d.tenant_key, schema |-> d.schema,
            endpoints |-> d.endpoints, relations |-> d.relations, indexes |-> d.indexes]
  BY <1>1, <1>10
<1>13. /\ d.schema = [n \in DOMAIN d.schema |-> d.schema[n]] /\ "id" \in DOMAIN d.schema
       /\ \A n \in DOMAIN d.schema : SoundField(d.schema[n]) /\ (d.schema[n].primary <=> n = "id")
  BY <1>3, <1>9, <1>10
<1>14. /\ d.endpoints = [a \in Project!HANDLER_CONVENTIONS |-> d.endpoints[a]]
       /\ \A a \in Project!HANDLER_CONVENTIONS : SoundEndpoint(d, d.endpoints[a])
  BY <1>4, <1>5, <1>10
<1>15. /\ \A y \in d.relations : y.type = "belongs_to" /\ y.key # {} /\ y.key \subseteq DOMAIN d.schema
       /\ \A y \in d.indexes : y.fields # {} /\ y.fields \subseteq DOMAIN d.schema
                                /\ y.order \in {"none", "asc", "desc"}
  BY <1>6, <1>7, <1>10
<1>16. Sound(d) BY <1>11, <1>12, <1>13, <1>14, <1>15, ScaffoldSound
<1>17. QED BY <1>16 DEF d

\* Every scaffold is sound.
LEMMA ScaffoldsSound == \A d \in Project!Scaffolds : Sound(d)
  BY BasicSound, UserSound, ContentSound, TenantSound, LookupSound
     DEF Project!Scaffolds, Project!scaffold_resource_yaml

\* Whatever stands in a file has the parts of a resource.
LEMMA DeclsAreResources == \A d \in Decls : Project!IsResource(d)
<1>1. \A d \in Trials \union Edits : Project!IsResource(d) BY ProjectAssumption DEF Project!Described
<1>2. \A a \in Archetypes : Project!scaffold_resource_yaml[a] \in Project!Scaffolds
  BY ProjectAssumption DEF Project!Described, Project!Scaffolds
<1>3. \A a \in Archetypes : Project!IsResource(Project!scaffold_resource_yaml[a])
  BY <1>2, ScaffoldsSound DEF Sound
<1>4. QED BY <1>1, <1>3 DEF Decls

\* The verdict of the last check holds of the files, as long as it stands.
Checked ==
    /\ checked = "clean" =>
          \A n \in Files : \A d \in yaml[n] : ~Project!Panics(d) /\ Project!diagnose_resource(d) = {}
    /\ checked = "errors" => \A n \in Files : \A d \in yaml[n] : ~Project!Panics(d)

\* Nothing is checked at first.
LEMMA CheckedInit == Project!Init => Checked
  BY DEF Project!Init, Checked

\* check judges the files as they are.
LEMMA CheckKeepsChecked == Project!check => Checked'
<1> SUFFICES ASSUME Project!check PROVE Checked' OBVIOUS
<1>1. yaml' = yaml BY DEF Project!check
<1>2. CASE \E n \in Files : \E d \in yaml[n] : Project!Panics(d)
  <2>1. checked' = "panicked" BY <1>2 DEF Project!check, Files
  <2>2. QED BY <2>1 DEF Checked
<1>3. CASE /\ \A n \in Files : \A d \in yaml[n] : ~Project!Panics(d)
           /\ \E n \in Files : \E d \in yaml[n] : Project!diagnose_resource(d) # {}
  <2>1. checked' = "errors" BY <1>3 DEF Project!check, Files
  <2>2. QED BY <1>1, <1>3, <2>1 DEF Checked
<1>4. CASE \A n \in Files : \A d \in yaml[n] : ~Project!Panics(d) /\ Project!diagnose_resource(d) = {}
  <2>1. QED BY <1>1, <1>4 DEF Checked
<1>5. QED BY <1>2, <1>3, <1>4

\* Any other step leaves the verdict and the files, or takes the verdict back.
LEMMA CheckedKept == Checked /\ Project!Next => Checked'
<1> SUFFICES ASSUME Checked, Project!Next PROVE Checked' OBVIOUS
<1>1. ASSUME UNCHANGED <<yaml, checked>> PROVE Checked' BY <1>1 DEF Checked
<1>2. ASSUME checked' = "none" PROVE Checked' BY <1>2 DEF Checked
<1>3. CASE \/ \E n \in Files : \E d \in Edits : Project!EditYaml(n, d)
           \/ \E n \in Files, archetype \in Archetypes : Project!run_create(n, archetype)
           \/ \E n \in Files : Project!RemoveYaml(n)
  BY <1>2, <1>3 DEF Project!EditYaml, Project!run_create, Project!RemoveYaml
<1>4. CASE \/ \E n \in Files : Project!WriteCode(n)
           \/ \E m \in migrations : Project!RemoveMigration(m)
  BY <1>1, <1>4 DEF Project!WriteCode, Project!RemoveMigration
<1>5. CASE \/ Project!Starts("generate", "clear") \/ Project!Starts("serve", "clear")
           \/ Project!Starts("migrate", "files")
  BY <1>1, <1>5 DEF Project!Starts
<1>6. CASE \/ Project!clear_generated_rust_files \/ Project!WriteModule \/ Project!WriteRegistry
           \/ Project!WriteStubs \/ Project!MigrationFile \/ Project!SqlxApply \/ Project!Interrupted
  BY <1>1, <1>6 DEF Project!clear_generated_rust_files, Project!WriteModule, Project!WriteRegistry,
     Project!WriteStubs, Project!MigrationFile, Project!SqlxApply, Project!Interrupted
<1>7. QED BY <1>3, <1>4, <1>5, <1>6, CheckKeepsChecked DEF Project!Next, Files

\* The four lists of rules are kept in step.
LEMMA RulesKeptInStep ==
    ASSUME ProjectTypes, Tree, Checked
    PROVE  Project!CheckForetellsGenerate /\ Project!SchemaKeepsUp /\ Project!ScaffoldsGenerate
<1>1. \A n \in Files : Project!Parsed[n] = {Parse(d) : d \in yaml[n]}
  BY ParsedTyped DEF ProjectTypes, Parse
<1>2. \A n \in Files : \A d \in yaml[n] : Project!IsResource(d) BY DeclsAreResources DEF ProjectTypes
<1>3. Project!CheckForetellsGenerate
  <2>1. ASSUME checked = "clean", NEW n \in Files, NEW p \in Project!Parsed[n]
        PROVE  Project!validate_resource(p) \subseteq Project!OnlyValidated
    <3>1. PICK d \in yaml[n] : p = Parse(d) BY <1>1, <2>1
    <3>2. ~Project!Panics(d) /\ Project!diagnose_resource(d) = {} BY <2>1 DEF Checked
    <3>3. QED BY <1>2, <3>1, <3>2, Foretold
  <2>2. ASSUME checked = "errors", Project!load_all_resources, NEW n \in Files, NEW d \in yaml[n]
        PROVE  Project!diagnose_resource(d) \subseteq Project!OnlyDiagnosed
    <3>1. Project!validate_resource(Parse(d)) = {} BY <1>1, <2>2 DEF Project!load_all_resources, Files
    <3>2. ~Project!Panics(d) BY <2>2 DEF Checked
    <3>3. QED BY <1>2, <3>1, <3>2, Foretold
  <2>3. QED BY <2>1, <2>2 DEF Project!CheckForetellsGenerate, Files
<1>4. Project!SchemaKeepsUp
  <2>1. ASSUME exit = "generate", NEW n \in Files, NEW d \in yaml[n]
        PROVE  Project!generate_resource_json_schema(Project!WithoutNews(d))
    <3>1. Project!load_all_resources BY <2>1 DEF Tree, Delivered
    <3>2. Project!validate_resource(Parse(d)) = {} BY <1>1, <3>1 DEF Project!load_all_resources, Files
    <3>3. QED BY <1>2, <3>2, KeptUp
  <2>2. QED BY <2>1 DEF Project!SchemaKeepsUp, Files
<1>5. Project!ScaffoldsGenerate
  <2>1. SUFFICES ASSUME exit = "refused", yaml # Project!Nothing,
                        UNION {yaml[n] : n \in Files} \subseteq Project!Scaffolds
                 PROVE  UNION {UNION {Project!validate_resource(p) : p \in Project!Parsed[n]} :
                               n \in Files} = {"SR041"}
    BY DEF Project!ScaffoldsGenerate, Files
  <2>2. \A n \in Files : \A p \in Project!Parsed[n] : Project!validate_resource(p) \subseteq {"SR041"}
    <3>1. TAKE n \in Files
    <3>2. TAKE p \in Project!Parsed[n]
    <3>3. PICK d \in yaml[n] : p = Parse(d) BY <1>1
    <3>4. d \in Project!Scaffolds BY <2>1
    <3>5. QED BY <3>3, <3>4, ScaffoldsSound, SoundPasses
  <2>3. Project!Parsed # Project!Nothing
    <3>1. PICK n \in Files : yaml[n] # {} BY <2>1, NothingTyped DEF ProjectTypes
    <3>2. Project!Parsed[n] # {} BY <1>1, <3>1
    <3>3. QED BY <3>2, NothingTyped
  <2>4. ~Project!load_all_resources BY <2>1 DEF Tree, OnFiles
  <2>5. PICK n \in Files : \E p \in Project!Parsed[n] : Project!validate_resource(p) # {}
    BY <2>3, <2>4 DEF Project!load_all_resources, Files
  <2>6. PICK p \in Project!Parsed[n] : Project!validate_resource(p) # {} BY <2>5
  <2>7. "SR041" \in Project!validate_resource(p) BY <2>2, <2>6
  <2> DEFINE found == UNION {UNION {Project!validate_resource(q) : q \in Project!Parsed[k]} :
                                 k \in Files}
  <2>8. found \subseteq {"SR041"} BY <2>2
  <2>9. "SR041" \in found BY <2>7
  <2>10. QED BY <2>8, <2>9
<1>6. QED BY <1>3, <1>4, <1>5

-----------------------------------------------------------------------------
(* A project.                                                                *)

\* A project that stands still stays as it is.
LEMMA ProjectRests ==
    ASSUME ProjectTypes, Tree, Migrating, Checked, UNCHANGED ProjectVars
    PROVE  (ProjectTypes /\ Tree /\ Migrating /\ Checked)'
<1>1. UNCHANGED <<yaml, modules, registry, code, jobs, migrations, tables, applied, cmd, exit, checked,
         edits>>
  BY DEF ProjectVars
<1>2. Project!Parsed' = Project!Parsed /\ Project!load_all_resources' = Project!load_all_resources
  BY <1>1 DEF Project!Parsed, Project!load_all_resources
<1>3. ProjectTypes' BY <1>1 DEF ProjectTypes
<1>4. Tree'
  <2>1. Project!GenerateDelivers' = Project!GenerateDelivers
    BY <1>1, <1>2 DEF Project!GenerateDelivers, Project!Compiles
  <2>2. QED BY <1>1, <1>2, <2>1 DEF Tree, OnFiles, RegistryFits, Written, Delivered
<1>5. Migrating'
  <2>1. Exact' = Exact BY <1>1 DEF Exact
  <2>2. \A n : Project!migration_exists(n)' = Project!migration_exists(n)
    BY <1>1 DEF Project!migration_exists
  <2>3. QED BY <1>1, <2>1, <2>2 DEF Migrating, Numbered, Recorded, Covered
<1>6. Checked' BY <1>1 DEF Checked
<1>7. QED BY <1>3, <1>4, <1>5, <1>6

\* The inductive invariant of a project.
ProjectInv == part = "project" => ProjectTypes /\ Tree /\ Migrating /\ Checked

\* It holds, whatever the commands and the author do.
LEMMA ProjectInvariant == Spec => []ProjectInv
<1>1. Init => ProjectInv
  BY ProjectInitTypes, TreeInit, MigratingInit, CheckedInit DEF Init, ProjectInv
<1>2. ProjectInv /\ [Next]_vars => ProjectInv'
  <2> SUFFICES ASSUME ProjectInv, [Next]_vars, part' = "project"
               PROVE  (ProjectTypes /\ Tree /\ Migrating /\ Checked)'
    BY DEF ProjectInv
  <2>1. CASE ProjectNext
    <3>1. ProjectTypes /\ Tree /\ Migrating /\ Checked /\ Project!Next
      BY <2>1 DEF ProjectNext, ProjectInv
    <3>2. QED BY <3>1, ProjectTypesKept, TreeKept, MigratingKept, CheckedKept
  <2>2. CASE FieldNext BY <2>2 DEF FieldNext
  <2>3. CASE UNCHANGED vars
    <3>1. part' = part /\ UNCHANGED ProjectVars BY <2>3 DEF vars
    <3>2. QED BY <3>1, ProjectRests DEF ProjectInv
  <2>4. QED BY <2>1, <2>2, <2>3 DEF Next
<1>3. QED BY <1>1, <1>2, PTL DEF Spec

\* check and generate judge every project alike but for the rules that only one of them
\* has, the editor takes what generate takes, and scaffolds are refused for SR041 alone:
\* diagnose_resource, validate_resource and json_schema are three lists kept in step by hand.
THEOREM RulesAlwaysAgree == Spec => []RulesAgree
<1>1. ProjectInv => RulesAgree BY RulesKeptInStep DEF ProjectInv, RulesAgree
<1>2. QED BY <1>1, ProjectInvariant, PTL

\* Wherever write_generated_modules stopped, a tree that compiles is of one load; after a
\* generate that ended with 0 it is that of the files.
THEOREM TreeAlwaysOfOneLoad == Spec => []TreeOfOneLoad
<1>1. ProjectInv => TreeOfOneLoad BY TreeIsOfOneLoad DEF ProjectInv, TreeOfOneLoad
<1>2. QED BY <1>1, ProjectInvariant, PTL

\* A migrate that ended with 0 left every resource the table it was first declared with, and
\* migrations share a number only after one was removed.
THEOREM MigrationsAlwaysDeliver == Spec => []MigrationsDeliver
<1>1. ProjectInv => MigrationsDeliver BY MigratingDelivers DEF ProjectInv, MigrationsDeliver
<1>2. QED BY <1>1, ProjectInvariant, PTL

-----------------------------------------------------------------------------
(* A field under requests: what the validator leaves to rely on.             *)

\* The rules are kept as those of a project are:
LEMMA FieldBroken == \A rules : Field!Broken(rules) = Project!Broken(rules)
  BY DEF Field!Broken, Project!Broken

\* ... one that is not broken does not apply.
LEMMA RuleHolds ==
    ASSUME NEW rules, Field!Broken(rules) = {}, NEW n, NEW c \in BOOLEAN, <<n, c>> \in rules
    PROVE  ~c
  BY FieldBroken, NoneBroken

\* A declaration that the validator passes, of a field that is not the key.
Valid(g) == g \in Field!FieldSchemas /\ ~g.primary /\ Field!ValidateField(g) = {}

\* What ValidateItems and ValidateField leave to the rest to rely on.
LEMMA ItemRules ==
    ASSUME NEW i, Field!ValidateItems(i) = {}
    PROVE  (i.type = "enum" => i.values) /\ (i.format => i.type = "string")
<1> DEFINE b1 == i.type = "array"
           b2 == i.type = "enum" /\ ~i.values
           b3 == i.format /\ i.type # "string"
           b4 == i.ref # "none" /\ i.type # "uuid"
           b5 == i.ref = "bare"
           rules == {<<"SR076", b1>>, <<"SR077", b2>>, <<"SR078", b3>>, <<"SR079", b4>>, <<"SR080", b5>>}
<1>1. Field!Broken(rules) = {} BY DEF Field!ValidateItems
<1>2. <<"SR077", b2>> \in rules /\ <<"SR078", b3>> \in rules OBVIOUS
<1>3. b2 \in BOOLEAN /\ b3 \in BOOLEAN OBVIOUS
<1>4. ~b2 /\ ~b3
  <2> HIDE DEF b1, b2, b3, b4, b5, rules
  <2>1. QED BY <1>1, <1>2, <1>3, RuleHolds
<1>5. QED BY <1>4

\* ... of a field.
LEMMA FieldRules ==
    ASSUME NEW g, Valid(g)
    PROVE  /\ g \in Field!FieldSchemas /\ ~g.primary
           /\ (g.type = "enum") = g.values
           /\ g.format => g.type = "string"
           /\ g.transient => ~g.generated /\ ~g.default
           /\ \A i \in g.items : (i.type = "enum" => i.values) /\ (i.format => i.type = "string")
<1>1. g \in Field!FieldSchemas /\ ~g.primary /\ Field!ValidateField(g) = {} BY DEF Valid
<1> DEFINE b1 == g.type = "enum" /\ ~g.values
           b2 == g.type # "enum" /\ g.values
           b3 == g.ref # "none" /\ g.type # "uuid"
           b4 == g.ref = "bare"
           b5 == g.type = "array" /\ g.items = {}
           b6 == g.format /\ g.type # "string"
           b7 == g.primary /\ ~g.generated /\ ~g.required
           rules == {<<"SR010", b1>>, <<"SR011", b2>>, <<"SR012", b3>>, <<"SR013", b4>>, <<"SR014", b5>>,
                     <<"SR015", b6>>, <<"SR016", b7>>}
           c1 == g.transient /\ g.primary
           c2 == g.transient /\ g.generated
           c3 == g.transient /\ g.ref # "none"
           c4 == g.transient /\ g.unique
           c5 == g.transient /\ g.default
           more == {<<"transient_primary", c1>>, <<"transient_generated", c2>>, <<"transient_ref", c3>>,
                    <<"transient_unique", c4>>, <<"transient_default", c5>>}
<1>2. Field!Broken(rules) = {} BY <1>1 DEF Field!ValidateField
<1>3. Field!Broken(more) = {} BY <1>1 DEF Field!ValidateField, Field!ValidateTransient
<1>4. <<"SR010", b1>> \in rules /\ <<"SR011", b2>> \in rules /\ <<"SR015", b6>> \in rules
      /\ <<"transient_generated", c2>> \in more /\ <<"transient_default", c5>> \in more
  OBVIOUS
<1>5. b1 \in BOOLEAN /\ b2 \in BOOLEAN /\ b6 \in BOOLEAN /\ c2 \in BOOLEAN /\ c5 \in BOOLEAN OBVIOUS
<1>6. ~b1 /\ ~b2 /\ ~b6 /\ ~c2 /\ ~c5
  <2> HIDE DEF b1, b2, b3, b4, b5, b6, b7, rules, c1, c2, c3, c4, c5, more
  <2>1. QED BY <1>2, <1>3, <1>4, <1>5, RuleHolds
<1>7. \A i \in g.items : Field!ValidateItems(i) = {} BY <1>1 DEF Field!ValidateField
<1>8. g.values \in BOOLEAN /\ g.transient \in BOOLEAN BY <1>1 DEF Field!FieldSchemas
<1>9. QED BY <1>1, <1>6, <1>7, <1>8, ItemRules

\* check_item_rules passes what breaks none of its rules,
LEMMA ItemChecked ==
    ASSUME NEW i, NEW v
    PROVE  Field!check_item_rules(i, v) = {} <=>
              /\ ~(i.type \in {"string", "enum"} /\ i.max /\ v = "long_text")
              /\ ~(i.type \in {"integer", "number"} /\ i.max /\ v = "big_int")
              /\ ~(i.type = "enum" /\ i.values /\ v \in Field!Texts \ {"text"})
              /\ ~(i.type = "uuid" /\ v \in Field!Texts \ {"text"})
              /\ ~(i.format /\ v = "odd_text")
<1> DEFINE b1 == i.type \in {"string", "enum"} /\ i.max /\ v = "long_text"
           b2 == i.type \in {"integer", "number"} /\ i.max /\ v = "big_int"
           b3 == i.type = "enum" /\ i.values /\ v \in Field!Texts \ {"text"}
           b4 == i.type = "uuid" /\ v \in Field!Texts \ {"text"}
           b5 == i.format /\ v = "odd_text"
           rules == {<<"too_long", b1>>, <<"too_large", b2>>, <<"invalid_enum", b3>>, <<"invalid_uuid",
              b4>>,
                     <<"invalid_format", b5>>}
<1>1. Field!check_item_rules(i, v) = Field!Broken(rules) BY DEF Field!check_item_rules
<1>2. b1 \in BOOLEAN /\ b2 \in BOOLEAN /\ b3 \in BOOLEAN /\ b4 \in BOOLEAN /\ b5 \in BOOLEAN OBVIOUS
<1>3. <<"too_long", b1>> \in rules /\ <<"too_large", b2>> \in rules /\ <<"invalid_enum", b3>> \in rules
      /\ <<"invalid_uuid", b4>> \in rules /\ <<"invalid_format", b5>> \in rules OBVIOUS
<1>4. Field!Broken(rules) = {} <=> ~b1 /\ ~b2 /\ ~b3 /\ ~b4 /\ ~b5
  <2>1. ASSUME ~b1 /\ ~b2 /\ ~b3 /\ ~b4 /\ ~b5 PROVE Field!Broken(rules) = {}
    <3> HIDE DEF b1, b2, b3, b4, b5
    <3>1. QED BY <2>1, FieldBroken, NoRuleBroken
  <2>2. ASSUME Field!Broken(rules) = {} PROVE ~b1 /\ ~b2 /\ ~b3 /\ ~b4 /\ ~b5
    <3> HIDE DEF b1, b2, b3, b4, b5, rules
    <3>1. QED BY <1>2, <1>3, <2>2, RuleHolds
  <2>3. QED BY <2>1, <2>2
<1>5. QED BY <1>1, <1>4

\* ... and check_field_rules what breaks none of the field or its items.
LEMMA FieldChecked ==
    ASSUME NEW g, NEW v
    PROVE  Field!check_field_rules(g, v) = {} <=>
              /\ Field!check_item_rules(g, v) = {}
              /\ g.type = "array" /\ g.items # {} => v \in Field!Lists
              /\ g.type = "array" /\ v = "odd_list" =>
                    \A i \in g.items : Field!check_item_rules(i, "odd_text") = {}
<1> DEFINE items == IF g.type = "array" THEN g.items ELSE {}
           b == items # {} /\ v \notin Field!Lists
           own == Field!check_item_rules(g, v)
           its == UNION {Field!check_item_rules(i, e) : i \in items, e \in Field!OddElements(v)}
<1>1. Field!check_field_rules(g, v) = (own \union Field!Broken({<<"invalid_type", b>>})) \union its
  BY DEF Field!check_field_rules
<1>2. Field!Broken({<<"invalid_type", b>>}) = {} <=> ~b
  <2>1. ASSUME ~b PROVE Field!Broken({<<"invalid_type", b>>}) = {}
    <3> HIDE DEF b
    <3>1. QED BY <2>1, FieldBroken, NoRuleBroken
  <2>2. ASSUME Field!Broken({<<"invalid_type", b>>}) = {} PROVE ~b
    <3>1. b \in BOOLEAN OBVIOUS
    <3> HIDE DEF b
    <3>2. QED BY <2>2, <3>1, RuleHolds
  <2>3. QED BY <2>1, <2>2
<1>3. its = {} <=> (v = "odd_list" => \A i \in items : Field!check_item_rules(i, "odd_text") = {})
  <2>1. CASE v = "odd_list"
    <3>1. Field!OddElements(v) = {"odd_text"} BY <2>1 DEF Field!OddElements
    <3>2. its = UNION {Field!check_item_rules(i, "odd_text") : i \in items} BY <3>1
    <3> HIDE DEF items, its
    <3>3. QED BY <2>1, <3>2
  <2>2. CASE v # "odd_list" BY <2>2 DEF Field!OddElements
  <2>3. QED BY <2>1, <2>2
<1>4. Field!check_field_rules(g, v) = {} <=> own = {} /\ ~b /\ its = {}
  <2> DEFINE mid == Field!Broken({<<"invalid_type", b>>})
  <2> HIDE DEF own, its, b, mid
  <2>1. Field!check_field_rules(g, v) = (own \union mid) \union its BY <1>1 DEF mid
  <2>2. (mid = {}) <=> ~b BY <1>2 DEF mid
  <2>3. QED BY <2>1, <2>2
<1>5. QED BY <1>3, <1>4

-----------------------------------------------------------------------------
(* The types, one by one: contracts, columns, parameters.                    *)

\* The values that the contract allows, type by type.
LEMMA OpenapiIs ==
    ASSUME NEW g
    PROVE  /\ g.type \in {"uuid", "timestamp", "date", "enum"} =>
                 Field!field_schema_to_openapi(g) = {"text"}
           /\ g.type \in {"string", "file"} =>
                Field!field_schema_to_openapi(g) = Field!Texts \ ((IF g.format THEN {"odd_text"} ELSE {})
                               \union (IF g.max /\ g.type = "string" THEN {"long_text"} ELSE {}))
           /\ g.type = "integer" =>
                 Field!field_schema_to_openapi(g) = IF g.max THEN {"int"} ELSE Field!Ints
           /\ g.type = "number" =>
                Field!field_schema_to_openapi(g) = {"fraction"} \union (IF g.max
                   THEN {"int"} ELSE Field!Ints)
           /\ g.type = "boolean" => Field!field_schema_to_openapi(g) = {"bool"}
           /\ g.type = "json" => Field!field_schema_to_openapi(g) = {"object"}
           /\ g.type = "array" => Field!field_schema_to_openapi(g) =
                IF \A i \in g.items : Field!OddConforms(i) THEN Field!Lists ELSE {"list"}
<1>1. ASSUME g.type \in {"uuid", "timestamp", "date", "enum"}
      PROVE Field!field_schema_to_openapi(g) = {"text"}
  BY <1>1 DEF Field!field_schema_to_openapi, Field!TimeTypes
<1>2. ASSUME g.type \in {"string", "file"}
      PROVE Field!field_schema_to_openapi(g) = Field!Texts \ ((IF g.format THEN {"odd_text"} ELSE {})
                               \union (IF g.max /\ g.type = "string" THEN {"long_text"} ELSE {}))
  BY <1>2 DEF Field!field_schema_to_openapi, Field!TimeTypes
<1>3. ASSUME g.type = "integer"
      PROVE Field!field_schema_to_openapi(g) = IF g.max THEN {"int"} ELSE Field!Ints
  BY <1>3 DEF Field!field_schema_to_openapi, Field!TimeTypes
<1>4. ASSUME g.type = "number"
      PROVE Field!field_schema_to_openapi(g) = {"fraction"} \union (IF g.max
               THEN {"int"} ELSE Field!Ints)
  BY <1>4 DEF Field!field_schema_to_openapi, Field!TimeTypes
<1>5. ASSUME g.type = "boolean"
      PROVE Field!field_schema_to_openapi(g) = {"bool"}
  BY <1>5 DEF Field!field_schema_to_openapi, Field!TimeTypes
<1>6. ASSUME g.type = "json"
      PROVE Field!field_schema_to_openapi(g) = {"object"}
  BY <1>6 DEF Field!field_schema_to_openapi, Field!TimeTypes
<1>7. ASSUME g.type = "array"
      PROVE Field!field_schema_to_openapi(g) = IF \A i \in g.items : Field!OddConforms(i)
               THEN Field!Lists ELSE {"list"}
  BY <1>7 DEF Field!field_schema_to_openapi, Field!TimeTypes
<1>8. QED BY <1>1, <1>2, <1>3, <1>4, <1>5, <1>6, <1>7

\* The types of a field in the groups that the code treats alike.
LEMMA TypesAre == \A t \in Field!FieldTypes :
    \/ t \in {"uuid", "timestamp", "date", "enum"} \/ t \in {"string", "file"}
    \/ t = "integer" \/ t = "number" \/ t = "boolean" \/ t = "json" \/ t = "array"
  BY DEF Field!FieldTypes

\* The values that serde takes for the type.
LEMMA QueryTypeIs ==
    ASSUME NEW g, NEW v
    PROVE  /\ g.type \in {"uuid", "timestamp", "date"} => (Field!query_type(g, v) <=> (v = "text"))
           /\ g.type \in Field!TextTypes => (Field!query_type(g, v) <=> (v \in Field!Texts))
           /\ g.type = "integer" => (Field!query_type(g, v) <=> (v \in Field!Ints))
           /\ g.type = "number" => (Field!query_type(g, v) <=> (v \in Field!Ints \union {"fraction"}))
           /\ g.type = "boolean" => (Field!query_type(g, v) <=> (v = "bool"))
           /\ g.type = "json" => Field!query_type(g, v)
           /\ g.type = "array" => (Field!query_type(g, v) <=>
                (v \in (IF \A i \in g.items : i.type \in Field!TextTypes
                   THEN Field!Lists ELSE {"list"})))
<1>1. ASSUME g.type \in {"uuid", "timestamp", "date"} PROVE (Field!query_type(g, v) <=> (v = "text"))
  BY <1>1 DEF Field!query_type, Field!TextTypes
<1>2. ASSUME g.type \in Field!TextTypes PROVE (Field!query_type(g, v) <=> (v \in Field!Texts))
  BY <1>2 DEF Field!query_type, Field!TextTypes
<1>3. ASSUME g.type = "integer" PROVE (Field!query_type(g, v) <=> (v \in Field!Ints))
  BY <1>3 DEF Field!query_type, Field!TextTypes
<1>4. ASSUME g.type = "number" PROVE (Field!query_type(g, v) <=> (v \in Field!Ints \union {"fraction"}))
  BY <1>4 DEF Field!query_type, Field!TextTypes
<1>5. ASSUME g.type = "boolean" PROVE (Field!query_type(g, v) <=> (v = "bool"))
  BY <1>5 DEF Field!query_type, Field!TextTypes
<1>6. ASSUME g.type = "json" PROVE Field!query_type(g, v)
  BY <1>6 DEF Field!query_type, Field!TextTypes
<1>7. ASSUME g.type = "array" PROVE (Field!query_type(g, v) <=>
                (v \in (IF \A i \in g.items : i.type \in Field!TextTypes
                   THEN Field!Lists ELSE {"list"})))
  BY <1>7 DEF Field!query_type, Field!TextTypes
<1>8. QED BY <1>1, <1>2, <1>3, <1>4, <1>5, <1>6, <1>7

\* A value that is one of the expected is not replaced, nor is a default.
LEMMA OneOf ==
    \A v : /\ v \in Field!Texts => Field!AsText(v) = v
           /\ Field!AsText("default") = "default"
           /\ \A S, w : v \in S => Field!Or(S, v, w) = v
           /\ \A S, w : Field!Or(S, "default", w) = "default"
  BY DEF Field!AsText, Field!Or

\* What is bound for a value other than null, by ResourceQuery,
LEMMA BindsAs ==
    ASSUME NEW g, NEW v, v # "null"
    PROVE  /\ g.type = "uuid" =>
                 Field!json_to_bind(g, v) = IF v \in {"text", "default"} THEN <<"uuid", v>>
                                                            ELSE <<"text", Field!AsText(v)>>
           /\ g.type \in Field!TextTypes => Field!json_to_bind(g, v) = <<"text", Field!AsText(v)>>
           /\ g.type = "integer" =>
                 Field!json_to_bind(g, v) = <<"bigint", Field!Or(Field!Ints, v, "zero")>>
           /\ g.type = "number" =>
                 Field!json_to_bind(g, v) =
                    <<"float8", Field!Or(Field!Ints \union {"fraction"}, v, "zero")>>
           /\ g.type = "boolean" =>
                 Field!json_to_bind(g, v) = <<"boolean", Field!Or({"bool"}, v, "zero")>>
           /\ g.type = "timestamp" =>
                 Field!json_to_bind(g, v) = <<"timestamptz", Field!Or({"text"}, v, "made")>>
           /\ g.type = "date" => Field!json_to_bind(g, v) = <<"date", Field!Or({"text"}, v, "made")>>
           /\ g.type \in {"json", "array"} => Field!json_to_bind(g, v) = <<"jsonb", v>>
<1> USE DEF Field!json_to_bind, Field!TextTypes
<1>1. g.type = "uuid" => Field!json_to_bind(g, v) = IF v \in {"text", "default"} THEN <<"uuid", v>>
                                                            ELSE <<"text", Field!AsText(v)>>
  OBVIOUS
<1>2. g.type \in Field!TextTypes => Field!json_to_bind(g, v) = <<"text", Field!AsText(v)>> OBVIOUS
<1>3. g.type = "integer" => Field!json_to_bind(g, v) = <<"bigint", Field!Or(Field!Ints, v, "zero")>>
  OBVIOUS
<1>4. g.type = "number" =>
                 Field!json_to_bind(g, v) =
                    <<"float8", Field!Or(Field!Ints \union {"fraction"}, v, "zero")>>
  OBVIOUS
<1>5. g.type = "boolean" => Field!json_to_bind(g, v) = <<"boolean", Field!Or({"bool"}, v, "zero")>>
  OBVIOUS
<1>6. g.type = "timestamp" =>
                 Field!json_to_bind(g, v) = <<"timestamptz", Field!Or({"text"}, v, "made")>> OBVIOUS
<1>7. g.type = "date" => Field!json_to_bind(g, v) = <<"date", Field!Or({"text"}, v, "made")>> OBVIOUS
<1>8. g.type \in {"json", "array"} => Field!json_to_bind(g, v) = <<"jsonb", v>> OBVIOUS
<1>9. QED BY <1>1, <1>2, <1>3, <1>4, <1>5, <1>6, <1>7, <1>8

\* ... by the store through sea-orm,
LEMMA SeaAs ==
    ASSUME NEW g, NEW v, v # "null"
    PROVE  /\ g.type \in Field!TextTypes \union Field!TimeTypes \union {"uuid"} =>
                 Field!json_to_sea_value(g, v) = Field!AsText(v)
           /\ g.type = "integer" => Field!json_to_sea_value(g, v) = Field!Or(Field!Ints, v, "zero")
           /\ g.type = "number" =>
                 Field!json_to_sea_value(g, v) = Field!Or(Field!Ints \union {"fraction"}, v, "zero")
           /\ g.type = "boolean" => Field!json_to_sea_value(g, v) = Field!Or({"bool"}, v, "zero")
           /\ g.type \in {"json", "array"} => Field!json_to_sea_value(g, v) = v
<1> USE DEF Field!json_to_sea_value, Field!TextTypes, Field!TimeTypes
<1>1. g.type \in Field!TextTypes \union Field!TimeTypes \union {"uuid"} =>
                 Field!json_to_sea_value(g, v) = Field!AsText(v) OBVIOUS
<1>2. g.type = "integer" => Field!json_to_sea_value(g, v) = Field!Or(Field!Ints, v, "zero") OBVIOUS
<1>3. g.type = "number" =>
                 Field!json_to_sea_value(g, v) = Field!Or(Field!Ints \union {"fraction"}, v, "zero")
                   OBVIOUS
<1>4. g.type = "boolean" => Field!json_to_sea_value(g, v) = Field!Or({"bool"}, v, "zero") OBVIOUS
<1>5. g.type \in {"json", "array"} => Field!json_to_sea_value(g, v) = v OBVIOUS
<1>6. QED BY <1>1, <1>2, <1>3, <1>4, <1>5

\* ... and by the store in MongoDB.
LEMMA BsonAs ==
    ASSUME NEW g, NEW v, v # "null"
    PROVE  /\ g.type = "json" =>
                 Field!json_to_bson(g, v) = <<IF v \in {"object", "default"}
                    THEN "object" ELSE "other", v>>
           /\ g.type = "array" => Field!json_to_bson(g, v) =
                 IF v \in Field!Lists \union {"default"} THEN <<"array", v>> ELSE <<"null", "null">>
           /\ g.type = "integer" =>
                 Field!json_to_bson(g, v) = <<"long", Field!Or(Field!Ints, v, "zero")>>
           /\ g.type = "number" =>
                 Field!json_to_bson(g, v) =
                    <<"double", Field!Or(Field!Ints \union {"fraction"}, v, "zero")>>
           /\ g.type = "boolean" => Field!json_to_bson(g, v) = <<"bool", Field!Or({"bool"}, v, "zero")>>
           /\ g.type \in {"uuid", "timestamp", "date", "enum", "string", "file"} =>
                 Field!json_to_bson(g, v) = <<"string", Field!AsText(v)>>
<1> USE DEF Field!json_to_bson
<1>1. g.type = "json" =>
                 Field!json_to_bson(g, v) = <<IF v \in {"object", "default"}
                    THEN "object" ELSE "other", v>>
  OBVIOUS
<1>2. g.type = "array" => Field!json_to_bson(g, v) =
                 IF v \in Field!Lists \union {"default"} THEN <<"array", v>> ELSE <<"null", "null">>
                   OBVIOUS
<1>3. g.type = "integer" => Field!json_to_bson(g, v) = <<"long", Field!Or(Field!Ints, v, "zero")>>
  OBVIOUS
<1>4. g.type = "number" =>
                 Field!json_to_bson(g, v) =
                    <<"double", Field!Or(Field!Ints \union {"fraction"}, v, "zero")>>
  OBVIOUS
<1>5. g.type = "boolean" => Field!json_to_bson(g, v) = <<"bool", Field!Or({"bool"}, v, "zero")>> OBVIOUS
<1>6. g.type \in {"uuid", "timestamp", "date", "enum", "string", "file"} =>
                 Field!json_to_bson(g, v) = <<"string", Field!AsText(v)>> OBVIOUS
<1>7. QED BY <1>1, <1>2, <1>3, <1>4, <1>5, <1>6

\* The columns of the types,
LEMMA ColumnIs ==
    ASSUME NEW g
    PROVE  /\ g.type = "string" => Field!field_type_to_sql(g) = IF g.max THEN "varchar" ELSE "text"
           /\ g.type \in {"enum", "file"} => Field!field_type_to_sql(g) = "text"
           /\ g.type = "integer" => Field!field_type_to_sql(g) = "bigint"
           /\ g.type = "number" => Field!field_type_to_sql(g) = "numeric"
           /\ g.type = "timestamp" => Field!field_type_to_sql(g) = "timestamptz"
           /\ g.type = "json" => Field!field_type_to_sql(g) = "jsonb"
           /\ g.type \in {"uuid", "boolean", "date", "array"} => Field!field_type_to_sql(g) = g.type
<1> USE DEF Field!field_type_to_sql
<1>1. g.type = "string" => Field!field_type_to_sql(g) = IF g.max THEN "varchar" ELSE "text" OBVIOUS
<1>2. g.type \in {"enum", "file"} => Field!field_type_to_sql(g) = "text" OBVIOUS
<1>3. g.type = "integer" => Field!field_type_to_sql(g) = "bigint" OBVIOUS
<1>4. g.type = "number" => Field!field_type_to_sql(g) = "numeric" OBVIOUS
<1>5. g.type = "timestamp" => Field!field_type_to_sql(g) = "timestamptz" OBVIOUS
<1>6. g.type = "json" => Field!field_type_to_sql(g) = "jsonb" OBVIOUS
<1>7. g.type \in {"uuid", "boolean", "date", "array"} => Field!field_type_to_sql(g) = g.type OBVIOUS
<1>8. QED BY <1>1, <1>2, <1>3, <1>4, <1>5, <1>6, <1>7

\* ... their types in MongoDB's validator
LEMMA BsonTypeIs ==
    /\ Field!field_type_to_bson_type("integer") = "long"
          /\ Field!field_type_to_bson_type("number") = "double"
    /\ Field!field_type_to_bson_type("boolean") = "bool"
          /\ Field!field_type_to_bson_type("json") = "object"
    /\ Field!field_type_to_bson_type("array") = "array"
    /\ \A t \in {"uuid", "timestamp", "date", "enum", "string", "file"} :
          Field!field_type_to_bson_type(t) = "string"
  BY DEF Field!field_type_to_bson_type

\* ... and in the .proto file.
LEMMA ProtoIs ==
    /\ Field!field_type_to_proto("integer") = "int64" /\ Field!field_type_to_proto("number") = "double"
    /\ Field!field_type_to_proto("boolean") = "bool"
    /\ \A t \in {"timestamp", "json", "array"} : Field!field_type_to_proto(t) = "message"
    /\ \A t \in {"uuid", "date", "enum", "string", "file"} : Field!field_type_to_proto(t) = "string"
  BY DEF Field!field_type_to_proto

-----------------------------------------------------------------------------
(* A value of the contract passes every check and every store.               *)

\* A value that the contract allows is one of the type,
LEMMA ConformsKind ==
    ASSUME NEW g, Valid(g), NEW v \in Field!field_schema_to_openapi(g)
    PROVE  /\ v \in Field!Values \ {"null"}
           /\ g.type \in {"uuid", "timestamp", "date", "enum"} => v = "text"
           /\ g.type \in {"string", "file"} => v \in Field!Texts
           /\ g.type = "string" => (g.max => v # "long_text") /\ (g.format => v # "odd_text")
           /\ g.type = "integer" => v \in Field!Ints
           /\ g.type = "number" => v \in Field!Ints \union {"fraction"}
           /\ g.type \in {"integer", "number"} /\ g.max => v # "big_int"
           /\ g.type = "boolean" => v = "bool"
           /\ g.type = "json" => v = "object"
           /\ g.type = "array" => v \in Field!Lists
           /\ g.type = "array" /\ v = "odd_list" => \A i \in g.items : Field!OddConforms(i)
<1>1. g.type \in Field!FieldTypes BY FieldRules DEF Field!FieldSchemas
<1> USE DEF Field!Texts, Field!Ints, Field!Lists, Field!Values
<1>2. CASE g.type \in {"uuid", "timestamp", "date", "enum"} BY <1>2, OpenapiIs
<1>3. CASE g.type \in {"string", "file"} BY <1>3, OpenapiIs
<1>4. CASE g.type = "integer" BY <1>4, OpenapiIs
<1>5. CASE g.type = "number" BY <1>5, OpenapiIs
<1>6. CASE g.type = "boolean" BY <1>6, OpenapiIs
<1>7. CASE g.type = "json" BY <1>7, OpenapiIs
<1>8. CASE g.type = "array" BY <1>8, OpenapiIs
<1>9. QED BY <1>1, <1>2, <1>3, <1>4, <1>5, <1>6, <1>7, <1>8, TypesAre

\* ... which the validator passes,
LEMMA ConformsChecked ==
    ASSUME NEW g, Valid(g), NEW v \in Field!field_schema_to_openapi(g)
    PROVE  Field!check_field_rules(g, v) = {}
<1>1. g.type \in Field!FieldTypes BY FieldRules DEF Field!FieldSchemas
<1>2. (g.type = "enum") = g.values /\ (g.format => g.type = "string") BY FieldRules
<1>3. Field!check_item_rules(g, v) = {}
  <2>1. ~(g.type \in {"string", "enum"} /\ g.max /\ v = "long_text") BY ConformsKind
  <2>2. ~(g.type \in {"integer", "number"} /\ g.max /\ v = "big_int") BY ConformsKind
  <2>3. ~(g.type = "enum" /\ g.values /\ v \in Field!Texts \ {"text"}) BY ConformsKind
  <2>4. ~(g.type = "uuid" /\ v \in Field!Texts \ {"text"}) BY ConformsKind
  <2>5. ~(g.format /\ v = "odd_text") BY <1>2, ConformsKind
  <2>6. QED BY <2>1, <2>2, <2>3, <2>4, <2>5, ItemChecked
<1>4. g.type = "array" => v \in Field!Lists BY ConformsKind
<1>5. ASSUME g.type = "array", v = "odd_list", NEW i \in g.items
      PROVE  Field!check_item_rules(i, "odd_text") = {}
  <2>1. i.type \in {"string", "file"} /\ ~i.format BY <1>5, ConformsKind DEF Field!OddConforms
  <2>2. QED BY <2>1, ItemChecked
<1>6. QED BY <1>3, <1>4, <1>5, FieldChecked

\* ... serde makes a value of, and every store binds as it is.
LEMMA ConformsBinds ==
    ASSUME NEW g, Valid(g), NEW v \in Field!field_schema_to_openapi(g)
    PROVE  /\ Field!query_type(g, v)
           /\ Field!json_to_bind(g, v)[2] = v
           /\ Field!json_to_sea_value(g, v) = v
           /\ Field!json_to_bson(g, v) = <<Field!field_type_to_bson_type(g.type), v>>
<1>1. g.type \in Field!FieldTypes /\ v # "null" BY FieldRules, ConformsKind DEF Field!FieldSchemas
<1> USE DEF Field!Texts, Field!Ints, Field!Lists, Field!TextTypes, Field!TimeTypes
<1>2. CASE g.type \in {"uuid", "timestamp", "date", "enum"}
  <2>1. v = "text" BY <1>2, ConformsKind
  <2>2. Field!query_type(g, v) BY <1>2, <2>1, QueryTypeIs
  <2>3. Field!json_to_bind(g, v)[2] = v BY <1>1, <1>2, <2>1, BindsAs, OneOf
  <2>4. Field!json_to_sea_value(g, v) = v BY <1>1, <1>2, <2>1, SeaAs, OneOf
  <2>5. Field!json_to_bson(g, v) = <<"string", v>> BY <1>1, <1>2, <2>1, BsonAs, OneOf
  <2>6. QED BY <1>2, <2>2, <2>3, <2>4, <2>5, BsonTypeIs
<1>3. CASE g.type \in {"string", "file"}
  <2>1. v \in Field!Texts BY <1>3, ConformsKind
  <2>2. Field!query_type(g, v) BY <1>3, <2>1, QueryTypeIs
  <2>3. Field!json_to_bind(g, v)[2] = v BY <1>1, <1>3, <2>1, BindsAs, OneOf
  <2>4. Field!json_to_sea_value(g, v) = v BY <1>1, <1>3, <2>1, SeaAs, OneOf
  <2>5. Field!json_to_bson(g, v) = <<"string", v>> BY <1>1, <1>3, <2>1, BsonAs, OneOf
  <2>6. QED BY <1>3, <2>2, <2>3, <2>4, <2>5, BsonTypeIs
<1>4. CASE g.type = "integer"
  <2>1. v \in Field!Ints BY <1>4, ConformsKind
  <2>2. Field!query_type(g, v) BY <1>4, <2>1, QueryTypeIs
  <2>3. Field!Or(Field!Ints, v, "zero") = v BY <2>1, OneOf
  <2>4. Field!json_to_bind(g, v)[2] = v BY <1>1, <1>4, <2>3, BindsAs
  <2>5. Field!json_to_sea_value(g, v) = v BY <1>1, <1>4, <2>3, SeaAs
  <2>6. Field!json_to_bson(g, v) = <<"long", v>> BY <1>1, <1>4, <2>3, BsonAs
  <2>7. QED BY <1>4, <2>2, <2>4, <2>5, <2>6, BsonTypeIs
<1>5. CASE g.type = "number"
  <2>1. v \in Field!Ints \union {"fraction"} BY <1>5, ConformsKind
  <2>2. Field!query_type(g, v) BY <1>5, <2>1, QueryTypeIs
  <2>3. Field!Or(Field!Ints \union {"fraction"}, v, "zero") = v BY <2>1, OneOf
  <2>4. Field!json_to_bind(g, v)[2] = v BY <1>1, <1>5, <2>3, BindsAs
  <2>5. Field!json_to_sea_value(g, v) = v BY <1>1, <1>5, <2>3, SeaAs
  <2>6. Field!json_to_bson(g, v) = <<"double", v>> BY <1>1, <1>5, <2>3, BsonAs
  <2>7. QED BY <1>5, <2>2, <2>4, <2>5, <2>6, BsonTypeIs
<1>6. CASE g.type = "boolean"
  <2>1. v = "bool" BY <1>6, ConformsKind
  <2>2. Field!query_type(g, v) BY <1>6, <2>1, QueryTypeIs
  <2>3. Field!Or({"bool"}, v, "zero") = v BY <2>1, OneOf
  <2>4. Field!json_to_bind(g, v)[2] = v BY <1>1, <1>6, <2>3, BindsAs
  <2>5. Field!json_to_sea_value(g, v) = v BY <1>1, <1>6, <2>3, SeaAs
  <2>6. Field!json_to_bson(g, v) = <<"bool", v>> BY <1>1, <1>6, <2>3, BsonAs
  <2>7. QED BY <1>6, <2>2, <2>4, <2>5, <2>6, BsonTypeIs
<1>7. CASE g.type = "json"
  <2>1. v = "object" BY <1>7, ConformsKind
  <2>2. Field!query_type(g, v) BY <1>7, QueryTypeIs
  <2>3. Field!json_to_bind(g, v)[2] = v BY <1>1, <1>7, BindsAs
  <2>4. Field!json_to_sea_value(g, v) = v BY <1>1, <1>7, SeaAs
  <2>5. Field!json_to_bson(g, v) = <<"object", v>> BY <1>1, <1>7, <2>1, BsonAs
  <2>6. QED BY <1>7, <2>2, <2>3, <2>4, <2>5, BsonTypeIs
<1>8. CASE g.type = "array"
  <2>1. v \in Field!Lists BY <1>8, ConformsKind
  <2>2. Field!query_type(g, v)
    <3>1. v = "odd_list" => \A i \in g.items : i.type \in Field!TextTypes
      BY <1>8, ConformsKind DEF Field!OddConforms
    <3>2. QED BY <1>8, <2>1, <3>1, QueryTypeIs
  <2>3. Field!json_to_bind(g, v)[2] = v BY <1>1, <1>8, BindsAs
  <2>4. Field!json_to_sea_value(g, v) = v BY <1>1, <1>8, SeaAs
  <2>5. Field!json_to_bson(g, v) = <<"array", v>> BY <1>1, <1>8, <2>1, BsonAs
  <2>6. QED BY <1>8, <2>2, <2>3, <2>4, <2>5, BsonTypeIs
<1>9. QED BY <1>1, <1>2, <1>3, <1>4, <1>5, <1>6, <1>7, <1>8, TypesAre

\* The TypeScript types made of the contract.
LEMMA InterfaceIs ==
    ASSUME NEW g
    PROVE  /\ g.type \in {"uuid", "timestamp", "date", "enum", "string", "file"} =>
                 Field!openapi_type_to_ts(g) = Field!Texts
           /\ g.type \in {"integer", "number"} =>
                 Field!openapi_type_to_ts(g) = Field!Ints \union {"fraction"}
           /\ g.type = "boolean" => Field!openapi_type_to_ts(g) = {"bool"}
           /\ g.type = "array" => Field!openapi_type_to_ts(g) = Field!Lists
<1> USE DEF Field!openapi_type_to_ts, Field!TextTypes, Field!TimeTypes
<1>1. g.type \in {"uuid", "timestamp", "date", "enum", "string", "file"} =>
                 Field!openapi_type_to_ts(g) = Field!Texts OBVIOUS
<1>2. g.type \in {"integer", "number"} => Field!openapi_type_to_ts(g) = Field!Ints \union {"fraction"}
  OBVIOUS
<1>3. g.type = "boolean" => Field!openapi_type_to_ts(g) = {"bool"} OBVIOUS
<1>4. g.type = "array" => Field!openapi_type_to_ts(g) = Field!Lists OBVIOUS
<1>5. QED BY <1>1, <1>2, <1>3, <1>4

\* What the validator passes and serde makes a value of, the contract allows.
LEMMA CheckedConforms ==
    ASSUME NEW g, Valid(g), g.type # "json", NEW v,
           Field!check_field_rules(g, v) = {}, Field!query_type(g, v)
    PROVE  v \in Field!field_schema_to_openapi(g) /\ v \in Field!openapi_type_to_ts(g)
<1>1. g.type \in Field!FieldTypes BY FieldRules DEF Field!FieldSchemas
<1>2. /\ ~(g.type \in {"string", "enum"} /\ g.max /\ v = "long_text")
      /\ ~(g.type \in {"integer", "number"} /\ g.max /\ v = "big_int")
      /\ ~(g.type = "enum" /\ g.values /\ v \in Field!Texts \ {"text"})
      /\ ~(g.type = "uuid" /\ v \in Field!Texts \ {"text"})
      /\ ~(g.format /\ v = "odd_text")
      /\ g.type = "array" /\ v = "odd_list" =>
            \A i \in g.items : Field!check_item_rules(i, "odd_text") = {}
  BY FieldChecked, ItemChecked
<1>3. (g.type = "enum") = g.values /\ (g.format => g.type = "string") BY FieldRules
<1> USE DEF Field!Texts, Field!Ints, Field!Lists, Field!TextTypes
<1>4. CASE g.type \in {"uuid", "timestamp", "date", "enum"}
  <2>1. v = "text"
    <3>1. CASE g.type = "enum" BY <1>2, <1>3, <3>1, QueryTypeIs
    <3>2. CASE g.type # "enum" BY <1>4, <3>2, QueryTypeIs
    <3>3. QED BY <3>1, <3>2
  <2>2. QED BY <1>4, <2>1, OpenapiIs, InterfaceIs
<1>5. CASE g.type \in {"string", "file"}
  <2>1. v \in Field!Texts BY <1>5, QueryTypeIs
  <2>2. ~(g.format /\ v = "odd_text") /\ ~(g.max /\ g.type = "string" /\ v = "long_text") BY <1>2
  <2>3. v \in Field!Texts \ ((IF g.format THEN {"odd_text"} ELSE {})
                               \union (IF g.max /\ g.type = "string" THEN {"long_text"} ELSE {}))
    BY <2>1, <2>2
  <2>4. QED BY <1>5, <2>1, <2>3, OpenapiIs, InterfaceIs
<1>6. CASE g.type = "integer"
  <2>1. v \in Field!Ints BY <1>6, QueryTypeIs
  <2>2. QED BY <1>2, <1>6, <2>1, OpenapiIs, InterfaceIs
<1>7. CASE g.type = "number"
  <2>1. v \in Field!Ints \union {"fraction"} BY <1>7, QueryTypeIs
  <2>2. QED BY <1>2, <1>7, <2>1, OpenapiIs, InterfaceIs
<1>8. CASE g.type = "boolean" BY <1>8, QueryTypeIs, OpenapiIs, InterfaceIs
<1>9. CASE g.type = "array"
  <2>1. v \in (IF \A i \in g.items : i.type \in Field!TextTypes THEN Field!Lists ELSE {"list"})
    BY <1>9, QueryTypeIs
  <2>2. v \in Field!Lists BY <2>1
  <2>3. ASSUME v = "odd_list" PROVE \A i \in g.items : Field!OddConforms(i)
    <3>1. TAKE i \in g.items
    <3>2. i.type \in Field!TextTypes BY <2>1, <2>3
    <3>3. Field!check_item_rules(i, "odd_text") = {} BY <1>2, <1>9, <2>3
    <3>4. ~(i.type = "enum" /\ i.values) /\ ~i.format BY <3>3, ItemChecked
    <3>5. i.type = "enum" => i.values BY FieldRules
    <3>6. QED BY <3>2, <3>4, <3>5 DEF Field!OddConforms
  <2>4. v \in IF \A i \in g.items : Field!OddConforms(i) THEN Field!Lists ELSE {"list"}
    BY <2>2, <2>3
  <2>5. QED BY <1>9, <2>2, <2>4, OpenapiIs, InterfaceIs
<1>10. QED BY <1>1, <1>4, <1>5, <1>6, <1>7, <1>8, <1>9, TypesAre

-----------------------------------------------------------------------------
(* What an INSERT leaves in the column.                                      *)

\* The two parts of an outcome.
LEMMA OutIs == \A s, r : Field!Out(s, r).status = s /\ Field!Out(s, r).row = r
  BY DEF Field!Out

\* Whatever is bound is the value or a stand-in.
StandIns == {"null", "default", "made", "zero", "as_text"}

\* ... by any of the three.
LEMMA BindIs ==
    \A g, v : /\ Field!json_to_bind(g, v)[2] \in {v} \union StandIns
              /\ Field!json_to_sea_value(g, v) \in {v} \union StandIns
              /\ Field!json_to_bson(g, v)[2] \in {v} \union StandIns
<1>1. \A v : Field!AsText(v) \in {v, "as_text"} BY DEF Field!AsText
<1>2. \A S, v, w : Field!Or(S, v, w) \in {v, w} BY DEF Field!Or
<1>3. \A g, v : Field!json_to_bind(g, v)[2] \in {v, "as_text", "zero", "made"}
  BY <1>1, <1>2 DEF Field!json_to_bind
<1>4. \A g, v : Field!json_to_sea_value(g, v) \in {v, "as_text", "zero"}
  BY <1>1, <1>2 DEF Field!json_to_sea_value
<1>5. \A g, v : Field!json_to_bson(g, v)[2] \in {v, "as_text", "zero", "null"}
  BY <1>1, <1>2 DEF Field!json_to_bson
<1>6. QED BY <1>3, <1>4, <1>5 DEF StandIns

\* A column refuses null if it is NOT NULL.
LEMMA NullRefused ==
    ASSUME NEW g, NEW k
    PROVE  /\ Field!build_create_table_sql_postgres(g, "null", k) => ~Field!NotNull(g)
           /\ Field!build_create_table_sql_sqlite(g, "null", k) => ~Field!NotNull(g)
  BY DEF Field!build_create_table_sql_postgres, Field!build_create_table_sql_sqlite, Field!Constraints

\* What an INSERT or an UPDATE of v leaves in the column, and says.
Left(out, v) ==
    /\ out.status \in {"ok", "validation", "internal"}
    /\ out.row \in ({v} \ {"absent"}) \union StandIns \union {"none", "no_column"}
    /\ out.row \in {"none", "no_column"} \/ ~f.transient
    /\ out.row = "no_column" => f.transient
    /\ out.row = "null" /\ store # "mongo" => ~Field!NotNull(f)
    /\ store = "generated" => /\ out.row \in Field!Values \ {"null"} => Field!query_type(f, out.row)
                              /\ ~f.generated => out.row \notin {"made", "zero", "as_text"}

\* ... an INSERT that fails leaves no row, but for ResourceQuery reading back what it cannot.
Inserted(out, v) ==
    /\ Left(out, v)
    /\ out.status = "ok" => out.row # "none"
    /\ out.status # "ok" /\ out.row # "none" => store = "query" /\ f.type \in {"number", "array"}

\* What the generated store inserts.
GeneratedValue(v) ==
    IF f.generated THEN Field!generated_value_expression(f)
    ELSE IF v \notin Field!Missing THEN v ELSE IF f.default THEN "default" ELSE "null"

\* The INSERT of the generated store by that value.
LEMMA GeneratedInsertIs ==
    ASSUME NEW v, NEW known
    PROVE  Field!generated_insert(v, known) =
             IF f.transient THEN Field!Out("ok", "no_column")
             ELSE IF GeneratedValue(v) \in Field!Values \ {"null"}
                /\ ~Field!query_type(f, GeneratedValue(v))
             THEN Field!Out("validation", "none")
             ELSE IF GeneratedValue(v) = "null" /\ ~Field!model_field_is_optional(f)
             THEN Field!Out("validation", "none")
             ELSE IF ~Field!build_create_table_sql_postgres(f, GeneratedValue(v), known)
             THEN Field!Out("internal", "none")
             ELSE Field!Out("ok", GeneratedValue(v))
  BY DEF Field!generated_insert, GeneratedValue

\* The generated store inserts what is left to the table,
LEMMA GeneratedInserts ==
    ASSUME store = "generated", NEW v \in Field!Values \union {"absent"}, NEW known
    PROVE  Inserted(Field!generated_insert(v, known), v)
<1> DEFINE val == GeneratedValue(v)
           out == Field!generated_insert(v, known)
           misfit == val \in Field!Values \ {"null"} /\ ~Field!query_type(f, val)
           void == val = "null" /\ ~Field!model_field_is_optional(f)
           held == Field!build_create_table_sql_postgres(f, val, known)
<1>1. out = IF f.transient THEN Field!Out("ok", "no_column")
            ELSE IF misfit THEN Field!Out("validation", "none")
            ELSE IF void THEN Field!Out("validation", "none")
            ELSE IF ~held THEN Field!Out("internal", "none")
            ELSE Field!Out("ok", val)
  BY GeneratedInsertIs
<1>2. val \in ({v} \ {"absent"}) \union StandIns /\ (~f.generated =>
         val \notin {"made", "zero", "as_text"})
  BY DEF GeneratedValue, Field!generated_value_expression, StandIns, Field!Missing, Field!Values,
          Field!Texts,
         Field!Ints, Field!Lists
<1>3. val \notin {"none", "no_column"}
  BY <1>2 DEF StandIns, Field!Values, Field!Texts, Field!Ints, Field!Lists
<1>4. val = "null" /\ held => ~Field!NotNull(f) BY NullRefused
<1>5. SUFFICES Inserted(out, v) OBVIOUS
<1> HIDE DEF val, out, held, void
<1>6. CASE f.transient
  <2>1. out.status = "ok" /\ out.row = "no_column" BY <1>1, <1>6, OutIs
  <2>2. "no_column" \notin Field!Values BY DEF Field!Values, Field!Texts, Field!Ints, Field!Lists
  <2>3. out.row \in ({v} \ {"absent"}) \union StandIns \union {"none", "no_column"} BY <2>1
  <2>4. out.row # "null" /\ out.row \notin {"made", "zero", "as_text"} BY <2>1
  <2>5. Left(out, v) BY <1>6, <2>1, <2>2, <2>3, <2>4 DEF Left
  <2>6. QED BY <2>1, <2>5 DEF Inserted
<1>7. CASE ~f.transient /\ ~misfit /\ ~void /\ held
  <2>1. out.status = "ok" /\ out.row = val BY <1>1, <1>7, OutIs
  <2>2. QED BY <1>2, <1>3, <1>4, <1>7, <2>1 DEF Inserted, Left
<1>8. CASE ~f.transient /\ ~(~misfit /\ ~void /\ held)
  <2>1. out.status \in {"validation", "internal"} /\ out.row = "none" BY <1>1, <1>8, OutIs
  <2>2. "none" \notin Field!Values BY DEF Field!Values, Field!Texts, Field!Ints, Field!Lists
  <2>3. QED BY <1>8, <2>1, <2>2 DEF Inserted, Left
<1>9. QED BY <1>6, <1>7, <1>8

\* The absence of a value is no value.
LEMMA NoRow == {"none", "no_column", "absent"} \cap (Field!Values \union StandIns) = {}
  BY DEF StandIns, Field!Values, Field!Texts, Field!Ints, Field!Lists

\* sqlx reads every column but those of numbers and arrays.
LEMMA DecodableIs ==
    \A g \in Field!FieldSchemas : Field!Decodable(Field!field_type_to_sql(g))
       \/ g.type \in {"number", "array"}
<1> SUFFICES ASSUME NEW g \in Field!FieldSchemas, g.type \notin {"number", "array"}
             PROVE  Field!Decodable(Field!field_type_to_sql(g))
  OBVIOUS
<1>1. g.type \in Field!FieldTypes BY DEF Field!FieldSchemas
<1>2. Field!field_type_to_sql(g) \notin {"numeric", "array"}
  BY <1>1, ColumnIs DEF Field!FieldTypes
<1>3. QED BY <1>2 DEF Field!Decodable

\* What is bound where the request has nothing is the default.
LEMMA SuppliedIs ==
    \A v : Field!Supplied(v) # "absent" /\ Field!Supplied(v) \in ({v} \ {"absent"}) \union StandIns
           /\ (v # "absent" => Field!Supplied(v) = v)
  BY DEF Field!Supplied, StandIns

\* What the column holds by itself is a stand-in.
LEMMA DefaultIs == \A g : Field!ColumnDefault(g) \in StandIns
  BY DEF Field!ColumnDefault, StandIns

\* What the three stores that read the schema bind.
QueryBind(v) ==
    IF Field!Omitted(v) THEN <<Field!field_type_to_sql(f), Field!ColumnDefault(f)>>
    ELSE IF f.generated THEN <<Field!field_type_to_sql(f), "made">>
    ELSE Field!json_to_bind(f, Field!Supplied(v))

\* ... the store through sea-orm
OrmValue(v) ==
    IF Field!Omitted(v) THEN Field!ColumnDefault(f)
    ELSE IF f.generated THEN "made" ELSE Field!json_to_sea_value(f, Field!Supplied(v))

\* ... and the one in MongoDB.
MongoPair(v) ==
    IF f.generated THEN <<"string", "made">> ELSE Field!json_to_bson(f, Field!Supplied(v))

\* Each of them is what was sent, or a stand-in.
LEMMA ValuesAre ==
    \A v : /\ QueryBind(v)[2] \in ({v} \ {"absent"}) \union StandIns
           /\ OrmValue(v) \in ({v} \ {"absent"}) \union StandIns
           /\ MongoPair(v)[2] \in ({v} \ {"absent"}) \union StandIns
<1> TAKE v
<1> DEFINE w == Field!Supplied(v)
<1>1. w \in ({v} \ {"absent"}) \union StandIns BY SuppliedIs
<1>2. "made" \in StandIns BY DEF StandIns
<1> HIDE DEF w
<1>3. QueryBind(v)[2] \in ({v} \ {"absent"}) \union StandIns
  <2>1. CASE Field!Omitted(v) BY <2>1, DefaultIs DEF QueryBind
  <2>2. CASE ~Field!Omitted(v) /\ f.generated BY <1>2, <2>2 DEF QueryBind
  <2>3. CASE ~Field!Omitted(v) /\ ~f.generated
    <3>1. QueryBind(v) = Field!json_to_bind(f, w) BY <2>3 DEF QueryBind, w
    <3>2. QED BY <1>1, <3>1, BindIs
  <2>4. QED BY <2>1, <2>2, <2>3
<1>4. OrmValue(v) \in ({v} \ {"absent"}) \union StandIns
  <2>1. CASE Field!Omitted(v) BY <2>1, DefaultIs DEF OrmValue
  <2>2. CASE ~Field!Omitted(v) /\ f.generated BY <1>2, <2>2 DEF OrmValue
  <2>3. CASE ~Field!Omitted(v) /\ ~f.generated
    <3>1. OrmValue(v) = Field!json_to_sea_value(f, w) BY <2>3 DEF OrmValue, w
    <3>2. QED BY <1>1, <3>1, BindIs
  <2>4. QED BY <2>1, <2>2, <2>3
<1>5. MongoPair(v)[2] \in ({v} \ {"absent"}) \union StandIns
  <2>1. CASE f.generated BY <1>2, <2>1 DEF MongoPair
  <2>2. CASE ~f.generated
    <3>1. MongoPair(v) = Field!json_to_bson(f, w) BY <2>2 DEF MongoPair, w
    <3>2. QED BY <1>1, <3>1, BindIs
  <2>3. QED BY <2>1, <2>2
<1>6. QED BY <1>3, <1>4, <1>5

\* The INSERTs of these stores by what they bind.
LEMMA QueryInsertIs ==
    ASSUME NEW v, NEW known
    PROVE  Field!query_insert(v, known) =
             IF \/ f.transient
                \/ ~Field!Assignable(QueryBind(v)[1], Field!field_type_to_sql(f))
                \/ ~Field!build_create_table_sql_postgres(f, QueryBind(v)[2], known)
             THEN Field!Out("internal", "none")
             ELSE Field!Out(IF QueryBind(v)[2] # "null" /\ ~Field!Decodable(Field!field_type_to_sql(f))
                            THEN "internal" ELSE "ok", QueryBind(v)[2])
  BY DEF Field!query_insert, QueryBind

\* ... the store through sea-orm
LEMMA OrmInsertIs ==
    ASSUME NEW v, NEW known
    PROVE  Field!orm_insert(v, known) =
             IF f.transient \/ ~Field!build_create_table_sql_sqlite(f, OrmValue(v), known)
             THEN Field!Out("internal", "none") ELSE Field!Out("ok", OrmValue(v))
  BY DEF Field!orm_insert, OrmValue

\* ... and the one in MongoDB.
LEMMA MongoInsertIs ==
    ASSUME NEW v
    PROVE  Field!mongo_insert(v) =
             IF f.transient THEN Field!Out("ok", "no_column")
             ELSE IF Field!Omitted(v) THEN IF f.required /\ ~f.generated
                THEN Field!Out("internal", "none")
                                           ELSE Field!Out("ok", "null")
             ELSE IF Field!build_json_schema(f, MongoPair(v)) THEN Field!Out("ok", MongoPair(v)[2])
             ELSE Field!Out("internal", "none")
  BY DEF Field!mongo_insert, MongoPair

\* What is left behind, as a row or not, in a store that reads the schema at run time.
LEMMA LeftAtRunTime ==
    ASSUME store # "generated", NEW out, NEW v \in Field!Values \union {"absent"},
           out.status \in {"ok", "internal"},
           \/ out.row = "none" /\ out.status = "internal"
           \/ out.row = "no_column" /\ f.transient /\ out.status = "ok"
           \/ /\ out.row \in ({v} \ {"absent"}) \union StandIns /\ ~f.transient
              /\ out.row = "null" /\ store # "mongo" => ~Field!NotNull(f)
              /\ out.status = "ok" \/ (store = "query" /\ f.type \in {"number", "array"})
    PROVE  Inserted(out, v)
<1>1. CASE out.row = "none" /\ out.status = "internal" BY <1>1 DEF Inserted, Left
<1>2. CASE out.row = "no_column" /\ f.transient /\ out.status = "ok" BY <1>2 DEF Inserted, Left
<1>3. CASE /\ out.row \in ({v} \ {"absent"}) \union StandIns /\ ~f.transient
           /\ out.row = "null" /\ store # "mongo" => ~Field!NotNull(f)
           /\ out.status = "ok" \/ (store = "query" /\ f.type \in {"number", "array"})
  <2>1. out.row \notin {"none", "no_column"} BY <1>3, NoRow
  <2>2. QED BY <1>3, <2>1 DEF Inserted, Left
<1>4. QED BY <1>1, <1>2, <1>3

\* ... ResourceQuery,
LEMMA QueryInserts ==
    ASSUME store = "query", Valid(f), NEW v \in Field!Values \union {"absent"}, NEW known
    PROVE  Inserted(Field!query_insert(v, known), v)
<1> DEFINE val == QueryBind(v)[2]
           out == Field!query_insert(v, known)
           held == Field!build_create_table_sql_postgres(f, val, known)
           fits == Field!Assignable(QueryBind(v)[1], Field!field_type_to_sql(f))
           read == Field!Decodable(Field!field_type_to_sql(f))
<1>1. out = IF f.transient \/ ~fits \/ ~held THEN Field!Out("internal", "none")
            ELSE Field!Out(IF val # "null" /\ ~read THEN "internal" ELSE "ok", val)
  BY QueryInsertIs
<1>2. val \in ({v} \ {"absent"}) \union StandIns BY ValuesAre
<1>3. val = "null" /\ held => ~Field!NotNull(f) BY NullRefused
<1>4. read \/ f.type \in {"number", "array"} BY FieldRules, DecodableIs
<1>5. SUFFICES Inserted(out, v) OBVIOUS
<1> HIDE DEF val, out, held, fits, read
<1>6. CASE f.transient \/ ~fits \/ ~held
  <2>1. out.status = "internal" /\ out.row = "none" BY <1>1, <1>6, OutIs
  <2>2. QED BY <2>1, LeftAtRunTime
<1>7. CASE ~f.transient /\ fits /\ held
  <2>1. out.row = val BY <1>1, <1>7, OutIs
  <2>2. out.status = IF val # "null" /\ ~read THEN "internal" ELSE "ok" BY <1>1, <1>7, OutIs
  <2>3. QED BY <1>2, <1>3, <1>4, <1>7, <2>1, <2>2, LeftAtRunTime
<1>8. QED BY <1>6, <1>7

\* ... the store through sea-orm
LEMMA OrmInserts ==
    ASSUME store = "orm", NEW v \in Field!Values \union {"absent"}, NEW known
    PROVE  Inserted(Field!orm_insert(v, known), v)
<1> DEFINE val == OrmValue(v)
           out == Field!orm_insert(v, known)
           held == Field!build_create_table_sql_sqlite(f, val, known)
<1>1. out = IF f.transient \/ ~held THEN Field!Out("internal", "none") ELSE Field!Out("ok", val)
  BY OrmInsertIs
<1>2. val \in ({v} \ {"absent"}) \union StandIns BY ValuesAre
<1>3. val = "null" /\ held => ~Field!NotNull(f) BY NullRefused
<1>4. SUFFICES Inserted(out, v) OBVIOUS
<1> HIDE DEF val, out, held
<1>5. CASE f.transient \/ ~held
  <2>1. out.status = "internal" /\ out.row = "none" BY <1>1, <1>5, OutIs
  <2>2. QED BY <2>1, LeftAtRunTime
<1>6. CASE ~f.transient /\ held
  <2>1. out.row = val /\ out.status = "ok" BY <1>1, <1>6, OutIs
  <2>2. QED BY <1>2, <1>3, <1>6, <2>1, LeftAtRunTime
<1>7. QED BY <1>5, <1>6

\* ... and the one in MongoDB.
LEMMA MongoInserts ==
    ASSUME store = "mongo", NEW v \in Field!Values \union {"absent"}
    PROVE  Inserted(Field!mongo_insert(v), v)
<1> DEFINE val == MongoPair(v)[2]
           out == Field!mongo_insert(v)
           held == Field!build_json_schema(f, MongoPair(v))
           left == Field!Omitted(v)
           void == f.required /\ ~f.generated
<1>1. out = IF f.transient THEN Field!Out("ok", "no_column")
            ELSE IF left THEN IF void THEN Field!Out("internal", "none") ELSE Field!Out("ok", "null")
            ELSE IF held THEN Field!Out("ok", val) ELSE Field!Out("internal", "none")
  BY MongoInsertIs
<1>2. val \in ({v} \ {"absent"}) \union StandIns /\ "null" \in StandIns BY ValuesAre DEF StandIns
<1>3. SUFFICES Inserted(out, v) OBVIOUS
<1> HIDE DEF val, out, held, left, void
<1>4. CASE f.transient
  <2>1. out.status = "ok" /\ out.row = "no_column" BY <1>1, <1>4, OutIs
  <2>2. QED BY <1>4, <2>1, LeftAtRunTime
<1>5. CASE ~f.transient /\ (IF left THEN void ELSE ~held)
  <2>1. out.status = "internal" /\ out.row = "none" BY <1>1, <1>5, OutIs
  <2>2. QED BY <2>1, LeftAtRunTime
<1>6. CASE ~f.transient /\ ~(IF left THEN void ELSE ~held)
  <2>1. out.status = "ok" /\ out.row \in {"null", val} BY <1>1, <1>6, OutIs
  <2>2. QED BY <1>2, <1>6, <2>1, LeftAtRunTime
<1>7. QED BY <1>4, <1>5, <1>6

\* So each store inserts as it may.
LEMMA Inserts ==
    ASSUME store \in Field!StoreNames, Valid(f), NEW v \in Field!Values \union {"absent"}, NEW known
    PROVE  Inserted(Field!Insert(v, known), v)
<1>1. store \in {"generated", "query", "orm", "mongo"} BY DEF Field!StoreNames, Field!PgStores
<1>2. CASE store = "generated"
  <2>1. Field!Insert(v, known) = Field!generated_insert(v, known) BY <1>2 DEF Field!Insert
  <2>2. QED BY <1>2, <2>1, GeneratedInserts
<1>3. CASE store = "query"
  <2>1. Field!Insert(v, known) = Field!query_insert(v, known) BY <1>3 DEF Field!Insert
  <2>2. QED BY <1>3, <2>1, QueryInserts
<1>4. CASE store = "orm"
  <2>1. Field!Insert(v, known) = Field!orm_insert(v, known) BY <1>4 DEF Field!Insert
  <2>2. QED BY <1>4, <2>1, OrmInserts
<1>5. CASE store = "mongo"
  <2>1. Field!Insert(v, known) = Field!mongo_insert(v) BY <1>5 DEF Field!Insert
  <2>2. QED BY <1>5, <2>1, MongoInserts
<1>6. QED BY <1>1, <1>2, <1>3, <1>4, <1>5

-----------------------------------------------------------------------------
(* What an UPDATE leaves in the column.                                      *)

\* What an UPDATE makes of the row.
Updated(out, v) ==
    /\ out.status \in {"ok", "validation", "internal"}
    /\ out.row # row =>
          /\ out.status = "ok" /\ v # "absent" /\ ~f.generated /\ ~f.transient
          /\ out.row \in {v} \union StandIns
          /\ out.row = "null" /\ store # "mongo" => ~Field!NotNull(f)
          /\ store = "generated" => out.row = v /\ (v # "null" => Field!query_type(f, v))

\* The generated store updates as it may,
LEMMA GeneratedUpdates ==
    ASSUME store = "generated", NEW v, NEW known
    PROVE  Updated(Field!generated_update(v, known), v)
<1> DEFINE out == Field!generated_update(v, known)
           misfit == v # "null" /\ ~Field!query_type(f, v)
           held == Field!build_create_table_sql_postgres(f, v, known)
           still == f.generated \/ f.transient \/ v = "absent"
<1>1. out = IF still THEN Field!Out("ok", row)
            ELSE IF misfit THEN Field!Out("validation", row)
            ELSE IF held THEN Field!Out("ok", v) ELSE Field!Out("internal", row)
  BY DEF Field!generated_update
<1>2. v = "null" /\ held => ~Field!NotNull(f) BY NullRefused
<1>3. SUFFICES Updated(out, v) OBVIOUS
<1> HIDE DEF out, held
<1>4. CASE still \/ misfit \/ ~held
  <2>1. out.status \in {"ok", "validation", "internal"} /\ out.row = row BY <1>1, <1>4, OutIs
  <2>2. QED BY <2>1 DEF Updated
<1>5. CASE ~still /\ ~misfit /\ held
  <2>1. out.status = "ok" /\ out.row = v BY <1>1, <1>5, OutIs
  <2>2. QED BY <1>2, <1>5, <2>1 DEF Updated
<1>6. QED BY <1>4, <1>5

\* ... ResourceQuery,
LEMMA QueryUpdates ==
    ASSUME store = "query", NEW v, NEW known
    PROVE  Updated(Field!query_update(v, known), v)
<1> DEFINE out == Field!query_update(v, known)
           val == Field!json_to_bind(f, v)[2]
           held == /\ Field!Assignable(Field!json_to_bind(f, v)[1], Field!field_type_to_sql(f))
                   /\ Field!build_create_table_sql_postgres(f, val, known)
           still == f.generated \/ v = "absent"
<1>1. out = IF f.transient THEN Field!Out("internal", row)
            ELSE IF still THEN Field!Out("ok", row)
            ELSE IF held THEN Field!Out("ok", val) ELSE Field!Out("internal", row)
  BY DEF Field!query_update
<1>2. val = "null" /\ held => ~Field!NotNull(f) BY NullRefused
<1>3. val \in {v} \union StandIns BY BindIs
<1>4. SUFFICES Updated(out, v) OBVIOUS
<1> HIDE DEF out, held, val
<1>5. CASE f.transient \/ still \/ ~held
  <2>1. out.status \in {"ok", "internal"} /\ out.row = row BY <1>1, <1>5, OutIs
  <2>2. QED BY <2>1 DEF Updated
<1>6. CASE ~f.transient /\ ~still /\ held
  <2>1. out.status = "ok" /\ out.row = val BY <1>1, <1>6, OutIs
  <2>2. QED BY <1>2, <1>3, <1>6, <2>1 DEF Updated
<1>7. QED BY <1>5, <1>6

\* ... the store through sea-orm
LEMMA OrmUpdates ==
    ASSUME store = "orm", NEW v, NEW known
    PROVE  Updated(Field!orm_update(v, known), v)
<1> DEFINE out == Field!orm_update(v, known)
           val == Field!json_to_sea_value(f, v)
           held == Field!build_create_table_sql_sqlite(f, val, known)
           still == f.generated \/ v = "absent"
<1>1. out = IF f.transient THEN Field!Out("internal", row)
            ELSE IF still THEN Field!Out("ok", row)
            ELSE IF held THEN Field!Out("ok", val) ELSE Field!Out("internal", row)
  BY DEF Field!orm_update
<1>2. val = "null" /\ held => ~Field!NotNull(f) BY NullRefused
<1>3. val \in {v} \union StandIns BY BindIs
<1>4. SUFFICES Updated(out, v) OBVIOUS
<1> HIDE DEF out, held, val
<1>5. CASE f.transient \/ still \/ ~held
  <2>1. out.status \in {"ok", "internal"} /\ out.row = row BY <1>1, <1>5, OutIs
  <2>2. QED BY <2>1 DEF Updated
<1>6. CASE ~f.transient /\ ~still /\ held
  <2>1. out.status = "ok" /\ out.row = val BY <1>1, <1>6, OutIs
  <2>2. QED BY <1>2, <1>3, <1>6, <2>1 DEF Updated
<1>7. QED BY <1>5, <1>6

\* ... and the one in MongoDB, to which nothing transient comes.
LEMMA MongoUpdates ==
    ASSUME store = "mongo", NEW v, f.transient => v = "absent"
    PROVE  Updated(Field!mongo_update(v), v)
<1> DEFINE out == Field!mongo_update(v)
           val == Field!json_to_bson(f, v)[2]
           held == Field!build_json_schema(f, Field!json_to_bson(f, v))
           still == f.generated \/ v = "absent"
<1>1. out = IF still THEN Field!Out("ok", row)
            ELSE IF held THEN Field!Out("ok", val) ELSE Field!Out("internal", row)
  BY DEF Field!mongo_update
<1>2. val \in {v} \union StandIns BY BindIs
<1>3. SUFFICES Updated(out, v) OBVIOUS
<1> HIDE DEF out, held, val
<1>4. CASE still \/ ~held
  <2>1. out.status \in {"ok", "internal"} /\ out.row = row BY <1>1, <1>4, OutIs
  <2>2. QED BY <2>1 DEF Updated
<1>5. CASE ~still /\ held
  <2>1. out.status = "ok" /\ out.row = val BY <1>1, <1>5, OutIs
  <2>2. QED BY <1>2, <1>5, <2>1 DEF Updated
<1>6. QED BY <1>4, <1>5

\* So each store updates as it may.
LEMMA Updates ==
    ASSUME store \in Field!StoreNames, NEW v, f.transient => v = "absent", NEW known, NEW other
    PROVE  Updated(Field!Update(v, known, other), v)
<1>1. store \in {"generated", "query", "orm", "mongo"} BY DEF Field!StoreNames, Field!PgStores
<1>2. CASE ~other /\ (f.generated \/ v = "absent")
  <2>1. Field!Update(v, known, other) = Field!Out("validation", row) BY <1>2 DEF Field!Update
  <2>2. QED BY <2>1, OutIs DEF Updated
<1> DEFINE some == ~(~other /\ (f.generated \/ v = "absent"))
<1>3. CASE some /\ store = "generated"
  <2>1. Field!Update(v, known, other) = Field!generated_update(v, known) BY <1>3 DEF Field!Update
  <2>2. QED BY <1>3, <2>1, GeneratedUpdates
<1>4. CASE some /\ store = "query"
  <2>1. Field!Update(v, known, other) = Field!query_update(v, known) BY <1>4 DEF Field!Update
  <2>2. QED BY <1>4, <2>1, QueryUpdates
<1>5. CASE some /\ store = "orm"
  <2>1. Field!Update(v, known, other) = Field!orm_update(v, known) BY <1>5 DEF Field!Update
  <2>2. QED BY <1>5, <2>1, OrmUpdates
<1>6. CASE some /\ store = "mongo"
  <2>1. Field!Update(v, known, other) = Field!mongo_update(v) BY <1>6 DEF Field!Update
  <2>2. QED BY <1>6, <2>1, MongoUpdates
<1>7. QED BY <1>1, <1>2, <1>3, <1>4, <1>5, <1>6

-----------------------------------------------------------------------------
(* What a field is and what its row can be. *)

\* The field, the store and the request: the types, and the declaration that was validated.
FieldState ==
    /\ f \in FieldDecls /\ Valid(f)
    /\ store \in Field!StoreNames /\ key \in {"uuid", "string"}
    /\ input \in {"listed", "left_out", "no_list"}
    /\ key = "string" => store = "query" /\ input = "listed"
    /\ f.transient => input = "listed"
    /\ row \in Field!Rows /\ unchecked \in BOOLEAN
    /\ answer.status \in Field!Statuses
    /\ answer.value \in Field!Stored \union {"absent"} /\ answer.plain \in BOOLEAN

\* The row: no null in a NOT NULL column, a checked value of the type, nothing transient.
RowState ==
    /\ row = "null" /\ store # "mongo" => ~Field!NotNull(f)
    /\ Field!RowsObeyRules
    /\ Field!TransientNeverStored
    /\ row = "no_column" => f.transient
    /\ store = "generated" /\ ~f.generated => row \notin {"made", "zero", "as_text"}

\* The answer of a REST request that succeeded is the row.
AnswerState ==
    answer.op \in {"create", "update", "get"} /\ answer.status = "ok" =>
        row # "none" /\ answer.value = Field!Read(row)

\* The parts of an answer.
LEMMA AnswerIs ==
    ASSUME NEW op, NEW sent, NEW plain, NEW status, NEW value, Field!Answer(op, sent, plain, status,
              value)
    PROVE  /\ answer'.op = op /\ answer'.sent = sent /\ answer'.plain = plain
           /\ answer'.status = status /\ answer'.value = value
  BY DEF Field!Answer

\* A field starts with no row and no answer.
LEMMA FieldInitState == Field!Init => FieldState /\ RowState /\ AnswerState
<1> SUFFICES ASSUME Field!Init PROVE FieldState /\ RowState /\ AnswerState OBVIOUS
<1>1. \A d \in FieldDecls : d \in Field!FieldSchemas /\ ~d.primary BY FieldAssumption DEF Field!Described
<1>2. /\ answer.op = "none" /\ answer.sent = "absent" /\ answer.plain = TRUE
      /\ answer.status = "none" /\ answer.value = "absent"
  BY DEF Field!Init
<1>3. FieldState
  BY <1>1, <1>2 DEF Field!Init, FieldState, Valid, Field!Rows, Field!Statuses
<1>4. row = "none" /\ "none" \notin Field!Values BY NoRow DEF Field!Init
<1>5. RowState BY <1>4 DEF RowState, Field!RowsObeyRules, Field!TransientNeverStored
<1>6. QED BY <1>2, <1>3, <1>5 DEF AnswerState

\* A step that leaves the declaration keeps the types.
LEMMA StateNext ==
    ASSUME FieldState, UNCHANGED Field!declared, row' \in Field!Rows, unchecked' \in BOOLEAN,
           answer'.status \in Field!Statuses, answer'.value \in Field!Stored \union {"absent"},
           answer'.plain \in BOOLEAN
    PROVE  FieldState'
<1>1. f' = f /\ store' = store /\ key' = key /\ input' = input BY DEF Field!declared
<1>2. Valid(f)' BY <1>1 DEF FieldState, Valid
<1>3. QED BY <1>1, <1>2 DEF FieldState

\* What RowState says of a value in the column.
RowFits(r, un) ==
    /\ r = "null" /\ store # "mongo" => ~Field!NotNull(f)
    /\ r \in Field!Values \ {"null"} => un \/ Field!validate_input_shape(f, r) = {}
    /\ r \in Field!Values \ {"null"} /\ store = "generated" => Field!query_type(f, r)
    /\ f.transient => r \in {"none", "no_column"}
    /\ r = "no_column" => f.transient
    /\ store = "generated" /\ ~f.generated => r \notin {"made", "zero", "as_text"}

\* The row is such a value,
LEMMA RowNow == RowState => RowFits(row, unchecked)
  BY DEF RowState, RowFits, Field!RowsObeyRules, Field!TransientNeverStored

\* ... and a step that leaves the declaration and such a value keeps RowState.
LEMMA RowNext ==
    ASSUME UNCHANGED Field!declared, RowFits(row', unchecked')
    PROVE  RowState'
<1>1. f' = f /\ store' = store BY DEF Field!declared
<1>2. Field!RowsObeyRules'
  BY <1>1 DEF RowFits, Field!RowsObeyRules
<1>3. Field!TransientNeverStored' BY <1>1 DEF RowFits, Field!TransientNeverStored
<1>4. QED BY <1>1, <1>2, <1>3 DEF RowState, RowFits

\* What is read is a value, or nothing.
LEMMA ReadIs ==
   \A r \in Field!Stored \union {"no_column"} : Field!Read(r) \in Field!Stored \union {"absent"}
  BY DEF Field!Read

\* What a request brings is a value or nothing, and so is what a controller makes of it.
LEMMA Brought ==
    ASSUME FieldState, NEW v \in Field!Values \union {"absent"},
              NEW w \in ControllerSets \union {"absent"}
    PROVE  /\ Field!extract_input_from_value(v) \in {v, "absent"}
           /\ Field!Controlled(Field!extract_input_from_value(v), w) \in Field!Values \union {"absent"}
           /\ Field!strip_transient_fields(f, Field!Controlled(Field!extract_input_from_value(v), w))
                 \in Field!Values \union {"absent"}
           /\ \A x : Field!strip_transient_fields(f, x) \in {x, "absent"}
                     /\ (f.transient => Field!strip_transient_fields(f, x) = "absent")
                     /\ (~f.transient => Field!strip_transient_fields(f, x) = x)
           /\ \A x : Field!Controlled(x, w) = IF w = "absent" THEN x ELSE w
<1>1. ControllerSets \subseteq Field!Values BY FieldAssumption DEF Field!Described
<1>2. QED BY <1>1 DEF Field!extract_input_from_value, Field!Controlled, Field!strip_transient_fields

\* A create keeps all that, and one that fails leaves no row.
LEMMA CreateKeeps ==
    ASSUME FieldState, RowState, Field!handle_create
    PROVE  FieldState' /\ RowState' /\ AnswerState'
           /\ (answer'.status # "ok" /\ ~Field!Unsupported => row' = row)
<1>1. UNCHANGED Field!declared /\ row = "none" BY DEF Field!handle_create
<1>2. PICK v \in Field!Values \union {"absent"}, w \in ControllerSets \union {"absent"},
              known \in Field!Known :
          LET data == Field!extract_input_from_value(v)
              after == Field!Controlled(data, w)
              plain == w = "absent" /\ known
              refused == \/ Field!validate_input_shape(f, data) # {}
                         \/ Field!validate_required_present(f, after, data) # {}
                         \/ Field!validate_item_references(f, after, known) # {}
              out == Field!Insert(Field!strip_transient_fields(f, after), known)
          IN IF refused
             THEN /\ Field!Answer("create", v, plain, "validation", "absent")
                  /\ UNCHANGED <<row, unchecked>>
             ELSE /\ row' = out.row
                  /\ unchecked' = (data # "absent" /\ w # "absent")
                  /\ Field!Answer("create", v, plain, out.status,
                                  IF out.status = "ok" THEN Field!Read(out.row) ELSE "absent")
  BY DEF Field!handle_create
<1> DEFINE data == Field!extract_input_from_value(v)
           after == Field!Controlled(data, w)
           plain == w = "absent" /\ known
           refused == \/ Field!validate_input_shape(f, data) # {}
                      \/ Field!validate_required_present(f, after, data) # {}
                      \/ Field!validate_item_references(f, after, known) # {}
           x == Field!strip_transient_fields(f, after)
           out == Field!Insert(x, known)
<1>3. CASE refused
  <2>1. Field!Answer("create", v, plain, "validation", "absent") /\ row' = row /\ unchecked' = unchecked
    BY <1>2, <1>3
  <2>2. answer'.status = "validation" /\ answer'.value = "absent" /\ answer'.plain = plain
        /\ answer'.op = "create"
    <3> HIDE DEF plain
    <3>1. QED BY <2>1, AnswerIs
  <2>3. plain \in BOOLEAN BY DEF Field!Known
  <2>4. FieldState'
    BY <1>1, <2>1, <2>2, <2>3, StateNext DEF FieldState, Field!Statuses
  <2>5. RowState' BY <1>1, <2>1, RowNow, RowNext
  <2>6. QED BY <2>1, <2>2, <2>4, <2>5 DEF AnswerState
<1>4. CASE ~refused
  <2>1. /\ row' = out.row /\ unchecked' = (data # "absent" /\ w # "absent")
        /\ Field!Answer("create", v, plain, out.status,
                        IF out.status = "ok" THEN Field!Read(out.row) ELSE "absent")
    BY <1>2, <1>4
  <2>2. plain \in BOOLEAN /\ (data # "absent" /\ w # "absent") \in BOOLEAN BY DEF Field!Known
  <2>3. x \in Field!Values \union {"absent"} /\ (x # "absent" => x = after /\ ~f.transient) BY Brought
  <2>4. Inserted(out, x) BY <2>3, Inserts DEF FieldState
  <2>5. w = "absent" => after = data BY Brought
  <2>6. \/ Field!validate_input_shape(f, after) = {} \/ (data # "absent" /\ w # "absent")
    <3>1. CASE w = "absent" BY <1>4, <2>5, <3>1
    <3>2. CASE data = "absent"
      BY <1>4, <3>2 DEF Field!validate_required_present, Field!validate_input_shape
    <3>3. QED BY <3>1, <3>2
  <2> DEFINE un == data # "absent" /\ w # "absent"
             read == IF out.status = "ok" THEN Field!Read(out.row) ELSE "absent"
  <2> HIDE DEF data, after, plain, refused, x, out, read, un
  <2>7. /\ answer'.op = "create" /\ answer'.plain = plain /\ answer'.status = out.status
        /\ answer'.value = read
    BY <2>1, AnswerIs DEF read
  <2>8. row' = out.row /\ unchecked' = un BY <2>1 DEF un
  <2>9. /\ out.status \in {"ok", "validation", "internal"}
        /\ out.row \in ({x} \ {"absent"}) \union StandIns \union {"none", "no_column"}
        /\ out.status = "ok" => out.row # "none"
    BY <2>4 DEF Inserted, Left
  <2>10. out.row \in Field!Stored \union {"none", "no_column"}
    BY <2>3, <2>9 DEF StandIns, Field!Stored, Field!Values
  <2>11. FieldState'
    <3>1. read \in Field!Stored \union {"absent"}
      BY <2>9, <2>10, ReadIs DEF read
    <3>2. out.status \in Field!Statuses /\ out.row \in Field!Rows
      BY <2>9, <2>10 DEF Field!Statuses, Field!Rows
    <3>3. un \in BOOLEAN BY <2>2 DEF un
    <3>4. QED BY <1>1, <2>2, <2>7, <2>8, <3>1, <3>2, <3>3, StateNext
  <2>12. RowFits(out.row, un)
    <3>1. out.row \in Field!Values \ {"null"} => out.row = after
      <4>1. (StandIns \union {"none", "no_column"}) \cap (Field!Values \ {"null"}) = {}
        BY DEF StandIns, Field!Values, Field!Texts, Field!Ints, Field!Lists
      <4>2. QED BY <2>3, <2>9, <4>1
    <3>2. out.row \in Field!Values \ {"null"} => un \/ Field!validate_input_shape(f, out.row) = {}
      BY <2>6, <3>1 DEF un
    <3>3. f.transient => out.row \in {"none", "no_column"} BY <2>4 DEF Inserted, Left
    <3>4. QED BY <2>4, <3>2, <3>3 DEF Inserted, Left, RowFits
  <2>13. RowState' BY <1>1, <2>8, <2>12, RowNext
  <2>14. AnswerState'
    BY <2>7, <2>8, <2>9 DEF AnswerState, read, Field!Read
  <2>15. ASSUME out.status # "ok", ~Field!Unsupported PROVE out.row = "none"
    <3>1. ASSUME store = "query", f.type \in {"number", "array"} PROVE Field!Unsupported
      BY <3>1 DEF Field!Unsupported
    <3>2. QED BY <2>4, <2>15, <3>1 DEF Inserted
  <2>16. QED BY <1>1, <2>7, <2>8, <2>11, <2>13, <2>14, <2>15
<1>5. QED BY <1>3, <1>4

\* A row that fits can be read.
LEMMA FitsReadable ==
    ASSUME FieldState, NEW r, NEW un, RowFits(r, un), ~Field!Unsupported, ~Field!NullInTableOnly
    PROVE  Field!Readable(r)
<1>1. store \in {"generated", "query", "orm", "mongo"}
  BY DEF FieldState, Field!StoreNames, Field!PgStores
<1>2. CASE store = "generated"
  <2>1. ASSUME r = "null" PROVE Field!model_field_is_optional(f)
    <3>1. ~Field!NotNull(f) BY <1>2, <2>1 DEF RowFits
    <3>2. QED BY <1>2, <3>1
         DEF Field!NotNull, Field!NullInTableOnly, Field!model_field_is_optional, FieldState, Valid
  <2>2. QED BY <1>2, <2>1 DEF Field!Readable
<1>3. CASE store = "query"
  <2>1. ~f.transient /\ f.type \notin {"number", "array"} BY <1>3 DEF Field!Unsupported
  <2>2. Field!Decodable(Field!field_type_to_sql(f)) BY <2>1, DecodableIs, FieldRules DEF FieldState
  <2>3. QED BY <1>3, <2>1, <2>2 DEF Field!Readable
<1>4. CASE store = "orm"
  <2>1. ~f.transient BY <1>4 DEF Field!Unsupported
  <2>2. QED BY <1>4, <2>1 DEF Field!Readable
<1>5. CASE store = "mongo" BY <1>5 DEF Field!Readable
<1>6. QED BY <1>1, <1>2, <1>3, <1>4, <1>5

\* An update keeps it, and one that fails leaves the row.
LEMMA UpdateKeeps ==
    ASSUME FieldState, RowState, Field!handle_update
    PROVE  FieldState' /\ RowState' /\ AnswerState'
           /\ (answer'.status # "ok" /\ ~Field!Unsupported /\ ~Field!NullInTableOnly => row' = row)
<1>1. UNCHANGED Field!declared /\ row # "none" BY DEF Field!handle_update
<1>2. PICK v \in Field!Values \union {"absent"}, w \in ControllerSets \union {"absent"},
              known \in Field!Known :
       \E other \in Field!Others(v) :
          LET data == Field!extract_input_from_value(v)
              after == Field!Controlled(data, w)
              plain == w = "absent" /\ known
              refused == \/ Field!validate_input_shape(f, data) # {}
                         \/ Field!validate_input_shape(f, after) # {}
                         \/ Field!validate_item_references(f, after, known) # {}
              out == Field!Update(Field!strip_transient_fields(f, after), known, other)
              status == IF out.status = "ok" /\ ~Field!Readable(out.row) THEN "internal" ELSE out.status
          IN IF refused
             THEN /\ Field!Answer("update", v, plain, "validation", "absent")
                  /\ UNCHANGED <<row, unchecked>>
             ELSE /\ row' = out.row
                  /\ unchecked' = (unchecked /\ out.row = row)
                  /\ Field!Answer("update", v, plain, status,
                                  IF status = "ok" THEN Field!Read(out.row) ELSE "absent")
  BY DEF Field!handle_update
<1> DEFINE data == Field!extract_input_from_value(v)
           after == Field!Controlled(data, w)
           plain == w = "absent" /\ known
           refused == \/ Field!validate_input_shape(f, data) # {}
                      \/ Field!validate_input_shape(f, after) # {}
                      \/ Field!validate_item_references(f, after, known) # {}
           x == Field!strip_transient_fields(f, after)
<1>3. CASE refused
  <2>1. Field!Answer("update", v, plain, "validation", "absent") /\ row' = row /\ unchecked' = unchecked
    BY <1>2, <1>3
  <2>2. answer'.status = "validation" /\ answer'.value = "absent" /\ answer'.plain = plain
        /\ answer'.op = "update"
    <3> HIDE DEF plain
    <3>1. QED BY <2>1, AnswerIs
  <2>3. plain \in BOOLEAN BY DEF Field!Known
  <2>4. FieldState'
    BY <1>1, <2>1, <2>2, <2>3, StateNext DEF FieldState, Field!Statuses
  <2>5. RowState' BY <1>1, <2>1, RowNow, RowNext
  <2>6. QED BY <2>1, <2>2, <2>4, <2>5 DEF AnswerState
<1>4. CASE ~refused
  <2>1. PICK other \in Field!Others(v) :
          LET out == Field!Update(x, known, other)
              status == IF out.status = "ok" /\ ~Field!Readable(out.row) THEN "internal" ELSE out.status
          IN /\ row' = out.row
             /\ unchecked' = (unchecked /\ out.row = row)
             /\ Field!Answer("update", v, plain, status,
                             IF status = "ok" THEN Field!Read(out.row) ELSE "absent")
    BY <1>2, <1>4
  <2> DEFINE out == Field!Update(x, known, other)
             status == IF out.status = "ok" /\ ~Field!Readable(out.row) THEN "internal" ELSE out.status
             read == IF status = "ok" THEN Field!Read(out.row) ELSE "absent"
             un == unchecked /\ out.row = row
  <2>2. plain \in BOOLEAN BY DEF Field!Known
  <2>3. x \in Field!Values \union {"absent"} /\ (x # "absent" => x = after /\ ~f.transient)
        /\ (f.transient => x = "absent")
    BY Brought
  <2>4. Updated(out, x) BY <2>3, Updates DEF FieldState
  <2>5. Field!validate_input_shape(f, after) = {} BY <1>4
  <2> HIDE DEF data, after, plain, refused, x, out
  <2>6. row' = out.row /\ unchecked' = un /\ Field!Answer("update", v, plain, status, read)
    BY <2>1 DEF out
  <2>7. status \in {"ok", "validation", "internal"} /\ un \in BOOLEAN
    BY <2>4 DEF Updated, FieldState
  <2>8. status = "ok" => out.status = "ok" OBVIOUS
  <2>9. out.row = row \/ out.row \in {x} \union StandIns BY <2>4 DEF Updated
  <2>10. out.row \in Field!Stored \union {"no_column"}
    <3>1. out.row # row => x # "absent" BY <2>4 DEF Updated
    <3>2. row \in Field!Stored \union {"no_column"} BY <1>1 DEF FieldState, Field!Rows
    <3>3. QED BY <2>3, <2>9, <3>1, <3>2 DEF StandIns, Field!Stored, Field!Values
  <2>11. RowFits(out.row, un)
    <3>1. CASE out.row = row BY <3>1, RowNow DEF RowFits, RowState
    <3>2. CASE out.row # row
      <4>1. ~f.generated /\ ~f.transient /\ x = after BY <2>3, <2>4, <3>2 DEF Updated
      <4>2. out.row \in Field!Values \ {"null"} => out.row = after
        <5>1. (StandIns \union {"none", "no_column"}) \cap (Field!Values \ {"null"}) = {}
          BY DEF StandIns, Field!Values, Field!Texts, Field!Ints, Field!Lists
        <5>2. QED BY <2>4, <3>2, <4>1, <5>1 DEF Updated
      <4>3. out.row \in Field!Values \ {"null"} => Field!validate_input_shape(f, out.row) = {}
        BY <2>5, <4>2
      <4>4. store = "generated" => out.row = x /\ (x # "null" => Field!query_type(f, x))
        BY <2>4, <3>2 DEF Updated
      <4>5. x \in Field!Values BY <2>3, <2>4, <3>2 DEF Updated
      <4>6. Field!Values \cap {"made", "zero", "as_text", "none", "no_column"} = {}
        BY DEF Field!Values, Field!Texts, Field!Ints, Field!Lists
      <4>7. out.row # "no_column"
        BY <4>5, <4>6, <2>4, <3>2 DEF Updated, StandIns
      <4>8. store = "generated" => out.row \notin {"made", "zero", "as_text"} BY <4>4, <4>5, <4>6
      <4>9. out.row = "null" /\ store # "mongo" => ~Field!NotNull(f) BY <2>4, <3>2 DEF Updated
      <4> HIDE DEF un
      <4>10. out.row \in Field!Values \ {"null"} /\ store = "generated" => Field!query_type(f, out.row)
        BY <4>4
      <4>11. QED BY <4>1, <4>3, <4>7, <4>8, <4>9, <4>10 DEF RowFits
    <3>3. QED BY <3>1, <3>2
  <2>12. status # "ok" /\ ~Field!Unsupported /\ ~Field!NullInTableOnly => out.row = row
    <3>1. ASSUME out.status = "ok", ~Field!Readable(out.row), ~Field!Unsupported, ~Field!NullInTableOnly
          PROVE  FALSE
      BY <2>11, <3>1, FitsReadable
    <3>2. ASSUME out.status # "ok" PROVE out.row = row BY <2>4, <3>2 DEF Updated
    <3>3. QED BY <3>1, <3>2
  <2>13. read \in Field!Stored \union {"absent"} BY <2>10, ReadIs
  <2>14. out.row # "none"
    BY <2>10 DEF Field!Stored, Field!Values, Field!Texts, Field!Ints, Field!Lists
  <2>15. status = "ok" => read = Field!Read(out.row) OBVIOUS
  <2> HIDE DEF status, read, un
  <2>16. /\ answer'.op = "update" /\ answer'.plain = plain /\ answer'.status = status
         /\ answer'.value = read
    BY <2>6, AnswerIs
  <2>17. FieldState'
    <3>1. status \in Field!Statuses /\ out.row \in Field!Rows
      BY <2>7, <2>10 DEF Field!Statuses, Field!Rows
    <3>2. QED BY <1>1, <2>2, <2>6, <2>7, <2>13, <2>16, <3>1, StateNext
  <2>18. RowState' BY <1>1, <2>6, <2>11, RowNext
  <2>19. AnswerState' BY <2>6, <2>14, <2>15, <2>16 DEF AnswerState, Field!Read
  <2>20. QED BY <2>6, <2>12, <2>16, <2>17, <2>18, <2>19
<1>5. QED BY <1>3, <1>4

\* find_by_id keeps it, and the row.
LEMMA GetKeeps ==
    ASSUME FieldState, RowState, Field!handle_get
    PROVE  FieldState' /\ RowState' /\ AnswerState' /\ row' = row
<1>1. UNCHANGED Field!declared /\ row # "none" /\ row' = row /\ unchecked' = unchecked
  BY DEF Field!handle_get
<1>2. /\ answer'.plain = TRUE
      /\ \/ answer'.status = "ok" /\ answer'.value = Field!Read(row)
         \/ answer'.status = "internal" /\ answer'.value = "absent"
  BY AnswerIs DEF Field!handle_get
<1>3. row \in Field!Stored \union {"no_column"} BY <1>1 DEF FieldState, Field!Rows
<1>4. FieldState'
  <2>1. answer'.status \in Field!Statuses /\ answer'.value \in Field!Stored \union {"absent"}
    BY <1>2, <1>3, ReadIs DEF Field!Statuses
  <2>2. row' \in Field!Rows /\ unchecked' \in BOOLEAN /\ answer'.plain \in BOOLEAN
    BY <1>1, <1>2 DEF FieldState
  <2>3. QED BY <1>1, <2>1, <2>2, StateNext
<1>5. RowState' BY <1>1, RowNow, RowNext
<1>6. AnswerState' BY <1>1, <1>2 DEF AnswerState, Field!Read
<1>7. QED BY <1>1, <1>4, <1>5, <1>6

-----------------------------------------------------------------------------
(* gRPC                                                                      *)

\* A text is assigned to the columns of the text types alone, and such a field travels as it is.
LEMMA GrpcBinds ==
    ASSUME Valid(f), Field!Assignable("text", Field!field_type_to_sql(f)), NEW v \in Field!ClientSends(f)
    PROVE  f.type \in Field!TextTypes /\ Field!GrpcBind(v) \in Field!Texts \union {"null"}
<1>1. f.type \in Field!FieldTypes BY FieldRules DEF Field!FieldSchemas
<1>2. Field!field_type_to_sql(f) \in {"text", "varchar"} BY DEF Field!Assignable
<1>3. f.type \in {"string", "enum", "file"} BY <1>1, <1>2, ColumnIs DEF Field!FieldTypes
<1>4. Field!field_type_to_proto(f.type) = "string" BY <1>3, ProtoIs
<1>5. v \in Field!Texts \union {"absent"} BY <1>4 DEF Field!ClientSends
<1>6. Field!ClientWrites(f, v) = IF v = "absent" THEN <<"none", v>> ELSE <<"len", v>>
  BY <1>4, <1>5 DEF Field!ClientWrites, Field!Missing, Field!Texts
<1>7. Field!decode_resource_message(Field!ClientWrites(f, v)) = v
  BY <1>5, <1>6 DEF Field!decode_resource_message, Field!Texts
<1>8. QED BY <1>3, <1>5, <1>7 DEF Field!GrpcBind, Field!TextTypes

\* What gRPC leaves in the column fits it, unchecked.
LEMMA GrpcFits ==
    ASSUME FieldState, NEW v \in Field!ClientSends(f), NEW known, Field!GrpcStores(Field!GrpcBind(v),
              known)
    PROVE  /\ Field!GrpcBind(v) \in Field!Texts \union {"null"} /\ ~f.transient
           /\ RowFits(Field!GrpcBind(v), TRUE)
<1> DEFINE val == Field!GrpcBind(v)
<1>1. f.type \in Field!TextTypes /\ val \in Field!Texts \union {"null"}
  BY GrpcBinds DEF FieldState, Field!GrpcStores
<1>2. ~f.transient /\ (val = "null" => ~Field!NotNull(f)) BY NullRefused DEF Field!GrpcStores
<1> HIDE DEF val
<1>3. val \in Field!Values \ {"null"} => Field!query_type(f, val)
  BY <1>1, QueryTypeIs
<1>4. val \notin {"none", "no_column", "made", "zero", "as_text"} BY <1>1 DEF Field!Texts
<1>5. RowFits(val, TRUE) BY <1>2, <1>3, <1>4 DEF RowFits
<1>6. QED BY <1>1, <1>2, <1>5 DEF val

\* ... and so does what the column holds when the INSERT leaves it out.
LEMMA DefaultFits ==
    ASSUME FieldState, NEW known, ~f.transient,
           Field!build_create_table_sql_postgres(f, Field!ColumnDefault(f), known)
    PROVE  RowFits(Field!ColumnDefault(f), TRUE)
              /\ Field!ColumnDefault(f) \in {"made", "default", "null"}
<1> DEFINE val == Field!ColumnDefault(f)
<1>1. val \in {"made", "default", "null"} /\ (~f.generated => val # "made") BY DEF Field!ColumnDefault
<1>2. val = "null" => ~Field!NotNull(f) BY NullRefused
<1> HIDE DEF val
<1>3. val \notin Field!Values \ {"null"} BY <1>1 DEF Field!Values, Field!Texts, Field!Ints, Field!Lists
<1>4. RowFits(val, TRUE) BY <1>1, <1>2, <1>3 DEF RowFits
<1>5. QED BY <1>1, <1>4 DEF val

\* A value that fits does so unchecked; no row always fits.
LEMMA FitsUnchecked == \A r, un : RowFits(r, un) => RowFits(r, TRUE) /\ RowFits("none", FALSE)
<1>1. "none" \notin Field!Values BY NoRow
<1>2. QED BY <1>1 DEF RowFits

\* What a row can be.
LEMMA RowKinds == Field!Stored \union {"none", "no_column"} = Field!Rows
                  /\ Field!Texts \union {"null", "made", "default", "none"} \subseteq Field!Rows
  BY DEF Field!Rows, Field!Stored, Field!Values

\* A create through gRPC keeps the types and the row fit, and one that fails leaves no row.
LEMMA GrpcCreateKeeps ==
    ASSUME FieldState, RowState, Field!grpc_create
    PROVE  FieldState' /\ RowState' /\ answer'.op = "grpc_create" /\ (answer'.status # "ok" =>
              row' = row)
<1>1. UNCHANGED Field!declared /\ row = "none" BY DEF Field!grpc_create
<1>2. PICK v \in Field!ClientSends(f), known \in Field!Known :
          LET val == IF input = "listed" THEN Field!GrpcBind(v) ELSE Field!ColumnDefault(f)
              stored == /\ input # "no_list"
                        /\ input = "listed" => Field!GrpcStores(val, known)
                        /\ Field!build_create_table_sql_postgres(f, val, known)
          IN /\ row' = IF stored THEN Field!Column(val) ELSE row
             /\ unchecked' = stored
             /\ Field!Answer("grpc_create", v, known, IF stored THEN "ok" ELSE "internal", "absent")
  BY DEF Field!grpc_create
<1> DEFINE val == IF input = "listed" THEN Field!GrpcBind(v) ELSE Field!ColumnDefault(f)
           stored == /\ input # "no_list"
                     /\ input = "listed" => Field!GrpcStores(val, known)
                     /\ Field!build_create_table_sql_postgres(f, val, known)
           status == IF stored THEN "ok" ELSE "internal"
<1>3. /\ row' = IF stored THEN Field!Column(val) ELSE row
      /\ unchecked' = stored /\ Field!Answer("grpc_create", v, known, status, "absent")
  BY <1>2
<1>4. known \in BOOLEAN /\ status \in Field!Statuses /\ stored \in BOOLEAN
  BY DEF Field!Known, Field!Statuses
<1>5. ASSUME stored
      PROVE ~f.transient /\ RowFits(val, TRUE) /\ val \in Field!Texts \union {"null", "made", "default"}
  <2>1. CASE input = "listed" BY <1>5, <2>1, GrpcFits
  <2>2. CASE input # "listed"
    <3>1. ~f.transient BY <2>2 DEF FieldState
    <3>2. QED BY <1>5, <2>2, <3>1, DefaultFits
  <2>3. QED BY <2>1, <2>2
<1>6. Field!Column(val) = val \/ f.transient BY DEF Field!Column
<1>7. answer'.op = "grpc_create" /\ answer'.plain = known /\ answer'.value = "absent"
      /\ answer'.status = status
  <2> HIDE DEF status
  <2>1. QED BY <1>3, AnswerIs
<1> HIDE DEF val, stored
<1>8. RowFits(row', unchecked')
  <2>1. CASE stored BY <1>3, <1>5, <1>6, <2>1
  <2>2. CASE ~stored
    <3>1. row' = "none" /\ unchecked' = FALSE BY <1>1, <1>3, <1>4, <2>2
    <3>2. QED BY <3>1, FitsUnchecked, RowNow
  <2>3. QED BY <2>1, <2>2
<1>9. row' \in Field!Rows
  BY <1>1, <1>3, <1>5, <1>6, RowKinds
<1>10. FieldState' BY <1>1, <1>3, <1>4, <1>7, <1>9, StateNext
<1>11. RowState' BY <1>1, <1>8, RowNext
<1>12. QED BY <1>3, <1>7, <1>10, <1>11

\* ... so does an update,
LEMMA GrpcUpdateKeeps ==
    ASSUME FieldState, RowState, Field!grpc_update
    PROVE  FieldState' /\ RowState' /\ answer'.op = "grpc_update" /\ (answer'.status # "ok" =>
              row' = row)
<1>1. UNCHANGED Field!declared /\ row # "none" BY DEF Field!grpc_update
<1>2. PICK v \in Field!ClientSends(f), known \in Field!Known :
          LET stored == /\ Field!KeyCompares
                        /\ input = "listed" => Field!GrpcStores(Field!GrpcBind(v), known)
          IN IF input = "no_list"
             THEN /\ Field!Answer("grpc_update", v, known, "validation", "absent")
                  /\ UNCHANGED <<row, unchecked>>
             ELSE /\ row' = IF stored /\ input = "listed" THEN Field!GrpcBind(v) ELSE row
                  /\ unchecked' = (unchecked \/ stored)
                  /\ Field!Answer("grpc_update", v, known, IF stored THEN "ok" ELSE "internal", "absent")
  BY DEF Field!grpc_update
<1> DEFINE stored == /\ Field!KeyCompares
                     /\ input = "listed" => Field!GrpcStores(Field!GrpcBind(v), known)
           status == IF input = "no_list" THEN "validation" ELSE IF stored THEN "ok" ELSE "internal"
<1>3. Field!Answer("grpc_update", v, known, status, "absent") BY <1>2
<1>4. known \in BOOLEAN /\ status \in Field!Statuses /\ unchecked \in BOOLEAN
  BY DEF Field!Known, Field!Statuses, FieldState
<1>5. answer'.op = "grpc_update" /\ answer'.plain = known /\ answer'.value = "absent"
      /\ answer'.status = status
  <2> HIDE DEF status
  <2>1. QED BY <1>3, AnswerIs
<1>6. /\ RowFits(row', unchecked') /\ row' \in Field!Rows /\ unchecked' \in BOOLEAN
      /\ status # "ok" => row' = row
  <2>1. RowFits(row, unchecked) /\ RowFits(row, TRUE) /\ row \in Field!Rows
    BY RowNow, FitsUnchecked DEF FieldState
  <2>2. CASE input = "no_list" BY <1>2, <1>4, <2>1, <2>2
  <2>3. CASE input # "no_list" /\ stored /\ input = "listed"
    <3>1. row' = Field!GrpcBind(v) /\ unchecked' = (unchecked \/ stored) BY <1>2, <2>3
    <3>2. unchecked' = TRUE BY <2>3, <3>1
    <3>3. RowFits(Field!GrpcBind(v), TRUE) /\ Field!GrpcBind(v) \in Field!Texts \union {"null"}
      BY <2>3, GrpcFits
    <3>4. QED BY <2>3, <3>1, <3>2, <3>3, RowKinds
  <2>4. CASE input # "no_list" /\ ~(stored /\ input = "listed")
    <3>1. row' = row /\ unchecked' = (unchecked \/ stored) BY <1>2, <2>4
    <3>2. unchecked' \in BOOLEAN /\ unchecked' \in {unchecked, TRUE}
      <4>1. CASE stored BY <3>1, <4>1
      <4>2. CASE ~stored BY <1>4, <3>1, <4>2
      <4>3. QED BY <4>1, <4>2
    <3>3. QED BY <2>1, <3>1, <3>2
  <2>5. QED BY <2>2, <2>3, <2>4
<1> HIDE DEF status
<1>7. FieldState' BY <1>1, <1>4, <1>5, <1>6, StateNext
<1>8. RowState' BY <1>1, <1>6, RowNext
<1>9. QED BY <1>5, <1>6, <1>7, <1>8

\* ... a delete
LEMMA GrpcDeleteKeeps ==
    ASSUME FieldState, RowState, Field!grpc_delete
    PROVE  FieldState' /\ RowState' /\ answer'.op = "grpc_delete" /\ (answer'.status # "ok" =>
              row' = row)
<1>1. UNCHANGED Field!declared BY DEF Field!grpc_delete
<1> DEFINE status == IF Field!KeyCompares THEN "ok" ELSE "internal"
<1>2. /\ row' = IF Field!KeyCompares THEN "none" ELSE row
      /\ unchecked' = (unchecked /\ ~Field!KeyCompares)
      /\ Field!Answer("grpc_delete", "absent", TRUE, status, "absent")
  BY DEF Field!grpc_delete
<1>3. status \in Field!Statuses /\ unchecked \in BOOLEAN /\ row \in Field!Rows
  BY DEF Field!Statuses, FieldState
<1>4. answer'.op = "grpc_delete" /\ answer'.plain = TRUE /\ answer'.value = "absent"
      /\ answer'.status = status
  <2> HIDE DEF status
  <2>1. QED BY <1>2, AnswerIs
<1>5. RowFits(row, unchecked) /\ RowFits("none", FALSE) /\ "none" \in Field!Rows
  BY RowNow, FitsUnchecked, RowKinds
<1>6. /\ RowFits(row', unchecked') /\ row' \in Field!Rows /\ unchecked' \in BOOLEAN
      /\ status # "ok" => row' = row
  <2>1. CASE Field!KeyCompares
    <3>1. row' = "none" /\ unchecked' = FALSE BY <1>2, <2>1
    <3>2. QED BY <1>5, <2>1, <3>1
  <2>2. CASE ~Field!KeyCompares
    <3>1. row' = row /\ unchecked' = unchecked BY <1>2, <1>3, <2>2
    <3>2. QED BY <1>3, <1>5, <2>2, <3>1
  <2>3. QED BY <2>1, <2>2
<1> HIDE DEF status
<1>7. FieldState' BY <1>1, <1>3, <1>4, <1>6, StateNext
<1>8. RowState' BY <1>1, <1>6, RowNext
<1>9. QED BY <1>4, <1>6, <1>7, <1>8

\* A client reads the value that it was sent, or nothing.
LEMMA GrpcReplies == Field!GrpcReply \in {row, "absent"}
<1>1. Field!encode_field(f, row)[2] = row BY DEF Field!encode_field
<1>2. QED BY <1>1 DEF Field!GrpcReply, Field!ClientReads

\* ... and a list, which answers what a client reads of the row.
LEMMA GrpcListKeeps ==
    ASSUME FieldState, RowState, Field!grpc_list
    PROVE  FieldState' /\ RowState' /\ answer'.op = "grpc_list" /\ row' = row
           /\ (row # "no_column" => answer'.value = Field!GrpcReply)
<1>1. UNCHANGED Field!declared /\ row # "none" /\ row' = row /\ unchecked' = unchecked
  BY DEF Field!grpc_list
<1> DEFINE read == IF row = "no_column" THEN "absent" ELSE Field!GrpcReply
<1>2. Field!Answer("grpc_list", "absent", TRUE, "ok", read) BY DEF Field!grpc_list
<1>3. read \in Field!Stored \union {"absent"}
  BY <1>1, GrpcReplies DEF FieldState, Field!Rows
<1>4. row # "no_column" => read = Field!GrpcReply OBVIOUS
<1> HIDE DEF read
<1>5. answer'.op = "grpc_list" /\ answer'.plain = TRUE /\ answer'.value = read /\ answer'.status = "ok"
  BY <1>2, AnswerIs
<1>6. FieldState' BY <1>1, <1>3, <1>5, StateNext DEF FieldState, Field!Statuses
<1>7. RowState' BY <1>1, RowNow, RowNext
<1>8. QED BY <1>1, <1>4, <1>5, <1>6, <1>7

-----------------------------------------------------------------------------
(* What the contract asks for is taken, and stored as it is.                 *)

\* A declared default is bound as it is, too.
LEMMA DefaultBinds ==
    ASSUME NEW g, Valid(g)
    PROVE  /\ Field!json_to_bind(g, "default")[2] = "default"
           /\ Field!json_to_sea_value(g, "default") = "default"
           /\ Field!json_to_bson(g, "default") = <<Field!field_type_to_bson_type(g.type), "default">>
<1>1. g.type \in Field!FieldTypes BY FieldRules DEF Field!FieldSchemas
<1> USE DEF Field!TextTypes, Field!TimeTypes
<1>2. CASE g.type \in {"uuid", "timestamp", "date", "enum", "string", "file"}
  <2>1. Field!json_to_bind(g, "default")[2] = "default" BY <1>2, BindsAs, OneOf
  <2>2. Field!json_to_sea_value(g, "default") = "default" BY <1>2, SeaAs, OneOf
  <2>3. Field!json_to_bson(g, "default") = <<"string", "default">> BY <1>2, BsonAs, OneOf
  <2>4. QED BY <1>2, <2>1, <2>2, <2>3, BsonTypeIs
<1>3. CASE g.type \in {"integer", "number", "boolean"}
  <2>1. Field!json_to_bind(g, "default")[2] = "default" BY <1>3, BindsAs, OneOf
  <2>2. Field!json_to_sea_value(g, "default") = "default" BY <1>3, SeaAs, OneOf
  <2>3. Field!json_to_bson(g, "default") = <<Field!field_type_to_bson_type(g.type), "default">>
    BY <1>3, BsonAs, OneOf, BsonTypeIs
  <2>4. QED BY <2>1, <2>2, <2>3
<1>4. CASE g.type \in {"json", "array"}
  <2>1. Field!json_to_bind(g, "default")[2] = "default" BY <1>4, BindsAs
  <2>2. Field!json_to_sea_value(g, "default") = "default" BY <1>4, SeaAs
  <2>3. Field!json_to_bson(g, "default") = <<Field!field_type_to_bson_type(g.type), "default">>
    BY <1>4, BsonAs, BsonTypeIs
  <2>4. QED BY <2>1, <2>2, <2>3
<1>5. QED BY <1>1, <1>2, <1>3, <1>4 DEF Field!FieldTypes

\* ... with a type that the column is assigned from, but for the columns that sqlx cannot read.
LEMMA BindsToColumn ==
    ASSUME NEW g, Valid(g), g.type \notin {"number", "array"},
           NEW v \in Field!field_schema_to_openapi(g) \union {"default"}
    PROVE  Field!Assignable(Field!json_to_bind(g, v)[1], Field!field_type_to_sql(g))
<1>1. g.type \in Field!FieldTypes BY FieldRules DEF Field!FieldSchemas
<1>2. v # "null" /\ (g.type = "uuid" => v \in {"text", "default"})
  BY ConformsKind
<1> USE DEF Field!Assignable
<1>3. CASE g.type \in {"string", "enum", "file"}
  <2>1. Field!json_to_bind(g, v)[1] = "text" BY <1>2, <1>3, BindsAs DEF Field!TextTypes
  <2>2. Field!field_type_to_sql(g) \in {"text", "varchar"} BY <1>3, ColumnIs
  <2>3. QED BY <2>1, <2>2
<1>4. CASE g.type \in {"uuid", "integer", "boolean", "timestamp", "date", "json"}
  <2>1. Field!json_to_bind(g, v)[1] = Field!field_type_to_sql(g)
    BY <1>2, <1>4, BindsAs, ColumnIs
  <2>2. QED BY <2>1
<1>5. QED BY <1>1, <1>3, <1>4 DEF Field!FieldTypes

\* What a column of the field takes when every row it refers to exists.
Fine(g, w) ==
    \/ w \in Field!field_schema_to_openapi(g)
    \/ w = "default"
    \/ w = "null" /\ ~Field!NotNull(g)
    \/ w \in {"made", "zero"} /\ g.type # "enum"

\* It is held by the tables of PostgreSQL and SQLite.
LEMMA FineHeld ==
    ASSUME NEW g, Valid(g), NEW w, Fine(g, w)
    PROVE  /\ Field!build_create_table_sql_postgres(g, w, TRUE)
           /\ Field!build_create_table_sql_sqlite(g, w, TRUE)
<1>1. g.type \in Field!FieldTypes BY FieldRules DEF Field!FieldSchemas
<1>2. w \in Field!field_schema_to_openapi(g) =>
         w # "null" /\ (g.type = "enum" => w = "text") /\ (g.type = "string" /\ g.max => w # "long_text")
  BY ConformsKind DEF Field!Values
<1>3. Field!Constraints(g, w, TRUE)
  <2>1. w = "null" => ~Field!NotNull(g) BY <1>2 DEF Fine
  <2>2. g.type = "enum" => w \in {"text", "default", "null"} BY <1>2 DEF Fine
  <2>3. QED BY <2>1, <2>2 DEF Field!Constraints
<1>4. Field!field_type_to_sql(g) = "varchar" => g.type = "string" /\ g.max
  BY <1>1, ColumnIs DEF Field!FieldTypes
<1>5. Field!field_type_to_sql(g) = "varchar" => w # "long_text" BY <1>2, <1>4 DEF Fine
<1>6. QED BY <1>3, <1>5 DEF Field!build_create_table_sql_postgres, Field!build_create_table_sql_sqlite

\* What a create has to put in the column: what the contract asks for.
Asked(v) == v \in Field!field_schema_to_openapi(f) \/ (v = "absent" /\ ~f.required)

\* What is asked for is a value of the contract, or nothing where NULL will do.
LEMMA AskedIs ==
    ASSUME Valid(f), NEW v, Asked(v)
    PROVE  /\ v # "null" /\ (v # "absent" => v \in Field!field_schema_to_openapi(f))
           /\ (v = "absent" => ~Field!NotNull(f))
<1>1. "absent" \notin Field!Values BY NoRow
<1>2. QED BY <1>1, ConformsKind DEF Asked, Field!NotNull

\* The generated store takes it,
LEMMA GeneratedAccepts ==
    ASSUME Valid(f), store = "generated", ~Field!Unsupported, NEW v, Asked(v)
    PROVE  Field!generated_insert(v, TRUE).status = "ok"
<1> DEFINE val == GeneratedValue(v)
           out == Field!generated_insert(v, TRUE)
           misfit == val \in Field!Values \ {"null"} /\ ~Field!query_type(f, val)
           void == val = "null" /\ ~Field!model_field_is_optional(f)
           held == Field!build_create_table_sql_postgres(f, val, TRUE)
<1>1. out = IF f.transient THEN Field!Out("ok", "no_column")
            ELSE IF misfit THEN Field!Out("validation", "none")
            ELSE IF void THEN Field!Out("validation", "none")
            ELSE IF ~held THEN Field!Out("internal", "none")
            ELSE Field!Out("ok", val)
  BY GeneratedInsertIs
<1>2. ~(f.generated /\ f.type = "enum") BY DEF Field!Unsupported
<1>3. f \in Field!FieldSchemas /\ ~f.primary BY FieldRules
<1>4. /\ val \in {"made", "zero"} => f.generated
      /\ \/ f.generated /\ val \in {"made", "zero"}
         \/ ~f.generated /\ v \in Field!field_schema_to_openapi(f) /\ val = v
         \/ ~f.generated /\ v = "absent" /\ val = "default"
         \/ ~f.generated /\ v = "absent" /\ ~f.default /\ val = "null"
  <2>1. v \notin Field!Missing => v \in Field!field_schema_to_openapi(f) BY AskedIs DEF Field!Missing
  <2>2. v \in Field!Missing => v = "absent" BY AskedIs DEF Field!Missing
  <2>3. v \in Field!field_schema_to_openapi(f) => v \notin {"made", "zero"}
    BY ConformsKind DEF Field!Values, Field!Texts, Field!Ints, Field!Lists
  <2>4. QED BY <2>1, <2>2, <2>3 DEF GeneratedValue, Field!generated_value_expression
<1>5. Fine(f, val) BY <1>2, <1>4, AskedIs DEF Fine
<1>6. held BY <1>5, FineHeld
<1>7. ~misfit
  <2>1. val \in Field!Values \ {"null"} => val \in Field!field_schema_to_openapi(f)
    BY <1>4 DEF Field!Values, Field!Texts, Field!Ints, Field!Lists
  <2>2. QED BY <2>1, ConformsBinds
<1>8. ~void
  <2>1. ASSUME val = "null" PROVE Field!model_field_is_optional(f)
    <3>1. ~f.generated /\ ~f.default /\ v = "absent" BY <1>4, <2>1, AskedIs
    <3>2. "absent" \notin Field!field_schema_to_openapi(f) BY NoRow, ConformsKind
    <3>3. ~f.required BY <3>1, <3>2 DEF Asked
    <3>4. QED BY <1>3, <3>1, <3>3 DEF Field!model_field_is_optional
  <2>2. QED BY <2>1
<1>9. SUFFICES out.status = "ok" OBVIOUS
<1> HIDE DEF val, out, held, misfit, void
<1>10. QED BY <1>1, <1>6, <1>7, <1>8, OutIs

\* The stores that read the schema leave out what has no value, and bind the rest as it is.
LEMMA RunTimeValues ==
    ASSUME Valid(f), NEW v, Asked(v),
           f.generated /\ Field!NotNull(f) => f.type \in Field!TimeTypes \union {"uuid"}
    PROVE  /\ Fine(f, QueryBind(v)[2]) /\ Fine(f, OrmValue(v))
           /\ f.type \notin {"number", "array"} =>
                 Field!Assignable(QueryBind(v)[1], Field!field_type_to_sql(f))
<1>1. f \in Field!FieldSchemas BY FieldRules
<1>2. CASE Field!Omitted(v)
  <2>1. Fine(f, Field!ColumnDefault(f))
    <3>1. CASE f.generated BY <3>1 DEF Field!ColumnDefault, Fine, Field!TimeTypes
    <3>2. CASE ~f.generated
      <4>1. v = "absent" /\ ~f.default BY <1>2, <3>2 DEF Field!Omitted
      <4>2. Field!ColumnDefault(f) = "null" BY <3>2, <4>1 DEF Field!ColumnDefault
      <4>3. QED BY <4>1, <4>2, AskedIs DEF Fine
    <3>3. QED BY <3>1, <3>2
  <2>2. QED BY <1>2, <2>1 DEF QueryBind, OrmValue, Field!Assignable
<1>3. CASE ~Field!Omitted(v) /\ f.generated
  <2>1. f.type \in {"uuid", "timestamp"} BY <1>3 DEF Field!Omitted
  <2>2. QED BY <1>3, <2>1 DEF QueryBind, OrmValue, Fine, Field!Assignable
<1>4. CASE ~Field!Omitted(v) /\ ~f.generated
  <2> DEFINE w == Field!Supplied(v)
  <2>1. w \in Field!field_schema_to_openapi(f) \union {"default"} BY AskedIs DEF Field!Supplied
  <2>2. QueryBind(v) = Field!json_to_bind(f, w) /\ OrmValue(v) = Field!json_to_sea_value(f, w)
    BY <1>4 DEF QueryBind, OrmValue
  <2> HIDE DEF w
  <2>3. QueryBind(v)[2] = w /\ OrmValue(v) = w BY <2>1, <2>2, ConformsBinds, DefaultBinds
  <2>4. f.type \notin {"number", "array"} =>
           Field!Assignable(QueryBind(v)[1], Field!field_type_to_sql(f))
    BY <2>1, <2>2, BindsToColumn
  <2>5. QED BY <2>1, <2>3, <2>4 DEF Fine
<1>5. QED BY <1>2, <1>3, <1>4

\* ... ResourceQuery takes it,
LEMMA QueryAccepts ==
    ASSUME Valid(f), store = "query", ~Field!Unsupported, NEW v, Asked(v)
    PROVE  Field!query_insert(v, TRUE).status = "ok"
<1>1. ~f.transient /\ f.type \notin {"number", "array"}
      /\ (f.generated /\ Field!NotNull(f) => f.type \in Field!TimeTypes \union {"uuid"})
  BY DEF Field!Unsupported
<1>2. Field!build_create_table_sql_postgres(f, QueryBind(v)[2], TRUE)
  BY <1>1, RunTimeValues, FineHeld
<1>3. Field!Assignable(QueryBind(v)[1], Field!field_type_to_sql(f)) BY <1>1, RunTimeValues
<1>4. Field!Decodable(Field!field_type_to_sql(f)) BY <1>1, FieldRules, DecodableIs
<1>5. Field!query_insert(v, TRUE) = Field!Out("ok", QueryBind(v)[2])
  BY <1>1, <1>2, <1>3, <1>4, QueryInsertIs
<1>6. QED BY <1>5, OutIs

\* ... so does the store through sea-orm,
LEMMA OrmAccepts ==
    ASSUME Valid(f), store = "orm", ~Field!Unsupported, NEW v, Asked(v)
    PROVE  Field!orm_insert(v, TRUE).status = "ok"
<1>1. ~f.transient /\ (f.generated /\ Field!NotNull(f) => f.type \in Field!TimeTypes \union {"uuid"})
  BY DEF Field!Unsupported
<1>2. Field!build_create_table_sql_sqlite(f, OrmValue(v), TRUE) BY <1>1, RunTimeValues, FineHeld
<1>3. Field!orm_insert(v, TRUE) = Field!Out("ok", OrmValue(v)) BY <1>1, <1>2, OrmInsertIs
<1>4. QED BY <1>3, OutIs

\* ... and the one in MongoDB.
LEMMA MongoAccepts ==
    ASSUME Valid(f), store = "mongo", ~Field!Unsupported, NEW v, Asked(v)
    PROVE  Field!mongo_insert(v).status = "ok"
<1>1. ~(f.type = "file" /\ f.max) BY DEF Field!Unsupported
<1>2. f.type \in Field!FieldTypes /\ (f.type = "enum") = f.values /\ f.values \in BOOLEAN
  BY FieldRules DEF Field!FieldSchemas
<1>3. CASE f.transient
  <2>1. Field!mongo_insert(v) = Field!Out("ok", "no_column") BY <1>3, MongoInsertIs
  <2>2. QED BY <2>1, OutIs
<1>4. CASE ~f.transient /\ Field!Omitted(v)
  <2>1. ~(f.required /\ ~f.generated)
    <3>1. ASSUME ~f.generated PROVE ~f.required
      <4>1. v = "absent" BY <1>4, <3>1 DEF Field!Omitted
      <4>2. "absent" \notin Field!field_schema_to_openapi(f) BY NoRow, ConformsKind
      <4>3. QED BY <4>1, <4>2 DEF Asked
    <3>2. QED BY <3>1
  <2>2. Field!mongo_insert(v) = Field!Out("ok", "null") BY <1>4, <2>1, MongoInsertIs
  <2>3. QED BY <2>2, OutIs
<1>5. CASE ~f.transient /\ ~Field!Omitted(v)
  <2>1. Field!build_json_schema(f, MongoPair(v))
    <3>1. CASE f.generated
      <4>1. f.type \in {"uuid", "timestamp"} BY <1>5, <3>1 DEF Field!Omitted
      <4>2. MongoPair(v) = <<"string", "made">> BY <3>1 DEF MongoPair
      <4>3. Field!field_type_to_bson_type(f.type) = "string" BY <4>1, BsonTypeIs
      <4>4. QED BY <1>2, <4>1, <4>2, <4>3 DEF Field!build_json_schema
    <3>2. CASE ~f.generated
      <4> DEFINE w == Field!Supplied(v)
      <4>1. w \in Field!field_schema_to_openapi(f) \union {"default"} BY AskedIs DEF Field!Supplied
      <4>2. MongoPair(v) = Field!json_to_bson(f, w) BY <3>2 DEF MongoPair
      <4> HIDE DEF w
      <4>3. MongoPair(v) = <<Field!field_type_to_bson_type(f.type), w>>
        BY <4>1, <4>2, ConformsBinds, DefaultBinds
      <4>4. f.values => w \in {"text", "default"} BY <1>2, <4>1, ConformsKind
      <4>5. f.max => IF f.type \in Field!TextTypes THEN w # "long_text" ELSE w # "big_int"
        <5>1. CASE w = "default" BY <5>1
        <5>2. CASE w \in Field!field_schema_to_openapi(f)
          <6>1. CASE f.type \in {"string", "enum", "file"}
            BY <1>1, <5>2, <6>1, ConformsKind DEF Field!TextTypes
          <6>2. CASE f.type \in {"integer", "number"}
            BY <5>2, <6>2, ConformsKind DEF Field!TextTypes
          <6>3. CASE f.type \in {"uuid", "timestamp", "date", "boolean", "json", "array"}
            BY <5>2, <6>3, ConformsKind DEF Field!TextTypes, Field!Lists
          <6>4. QED BY <1>2, <6>1, <6>2, <6>3 DEF Field!FieldTypes
        <5>3. QED BY <4>1, <5>1, <5>2
      <4>6. QED BY <4>3, <4>4, <4>5 DEF Field!build_json_schema
    <3>3. QED BY <3>1, <3>2
  <2>2. Field!mongo_insert(v) = Field!Out("ok", MongoPair(v)[2]) BY <1>5, <2>1, MongoInsertIs
  <2>3. QED BY <2>2, OutIs
<1>6. QED BY <1>3, <1>4, <1>5

\* A store that can hold the field takes what the contract asks for.
LEMMA Accepts ==
    ASSUME store \in Field!StoreNames, Valid(f), ~Field!Unsupported, NEW v, Asked(v)
    PROVE  Field!Insert(v, TRUE).status = "ok"
<1>1. store \in {"generated", "query", "orm", "mongo"} BY DEF Field!StoreNames, Field!PgStores
<1>2. CASE store = "generated"
  <2>1. Field!Insert(v, TRUE) = Field!generated_insert(v, TRUE) BY <1>2 DEF Field!Insert
  <2>2. QED BY <1>2, <2>1, GeneratedAccepts
<1>3. CASE store = "query"
  <2>1. Field!Insert(v, TRUE) = Field!query_insert(v, TRUE) BY <1>3 DEF Field!Insert
  <2>2. QED BY <1>3, <2>1, QueryAccepts
<1>4. CASE store = "orm"
  <2>1. Field!Insert(v, TRUE) = Field!orm_insert(v, TRUE) BY <1>4 DEF Field!Insert
  <2>2. QED BY <1>4, <2>1, OrmAccepts
<1>5. CASE store = "mongo"
  <2>1. Field!Insert(v, TRUE) = Field!mongo_insert(v) BY <1>5 DEF Field!Insert
  <2>2. QED BY <1>5, <2>1, MongoAccepts
<1>6. QED BY <1>1, <1>2, <1>3, <1>4, <1>5

-----------------------------------------------------------------------------
\* Neither an INSERT nor an UPDATE replaces a value that the contract allows.
LEMMA InsertStores ==
    ASSUME store \in Field!StoreNames, Valid(f), NEW v \in Field!field_schema_to_openapi(f), NEW known,
           ~f.generated, ~f.transient, Field!Insert(v, known).status = "ok"
    PROVE  Field!Insert(v, known).row = v
<1>1. store \in {"generated", "query", "orm", "mongo"} BY DEF Field!StoreNames, Field!PgStores
<1>2. v \notin {"absent", "null"} BY NoRow, ConformsKind
<1>3. ~Field!Omitted(v) /\ Field!Supplied(v) = v BY <1>2 DEF Field!Omitted, Field!Supplied
<1>4. CASE store = "generated"
  <2>1. Field!Insert(v, known) = Field!generated_insert(v, known) BY <1>4 DEF Field!Insert
  <2>2. GeneratedValue(v) = v BY <1>2 DEF GeneratedValue, Field!Missing
  <2>3. QED BY <2>1, <2>2, GeneratedInsertIs, OutIs
<1>5. CASE store = "query"
  <2>1. Field!Insert(v, known) = Field!query_insert(v, known) BY <1>5 DEF Field!Insert
  <2>2. QueryBind(v)[2] = v BY <1>3, ConformsBinds DEF QueryBind
  <2>3. QED BY <2>1, <2>2, QueryInsertIs, OutIs
<1>6. CASE store = "orm"
  <2>1. Field!Insert(v, known) = Field!orm_insert(v, known) BY <1>6 DEF Field!Insert
  <2>2. OrmValue(v) = v BY <1>3, ConformsBinds DEF OrmValue
  <2>3. QED BY <2>1, <2>2, OrmInsertIs, OutIs
<1>7. CASE store = "mongo"
  <2>1. Field!Insert(v, known) = Field!mongo_insert(v) BY <1>7 DEF Field!Insert
  <2>2. MongoPair(v)[2] = v BY <1>3, ConformsBinds DEF MongoPair
  <2>3. QED BY <1>3, <2>1, <2>2, MongoInsertIs, OutIs
<1>8. QED BY <1>1, <1>4, <1>5, <1>6, <1>7

\* ... nor does an UPDATE.
LEMMA UpdateStores ==
    ASSUME store \in Field!StoreNames, Valid(f), NEW v \in Field!field_schema_to_openapi(f), NEW known,
           NEW other, ~f.generated, ~f.transient, Field!Update(v, known, other).status = "ok"
    PROVE  Field!Update(v, known, other).row = v
<1>1. store \in {"generated", "query", "orm", "mongo"} BY DEF Field!StoreNames, Field!PgStores
<1>2. v \notin {"absent", "null"} BY NoRow, ConformsKind
<1>3. CASE store = "generated"
  <2>1. Field!Update(v, known, other) = Field!generated_update(v, known) BY <1>2, <1>3 DEF Field!Update
  <2>2. QED BY <1>2, <2>1, OutIs DEF Field!generated_update
<1>4. CASE store = "query"
  <2>1. Field!Update(v, known, other) = Field!query_update(v, known) BY <1>2, <1>4 DEF Field!Update
  <2>2. Field!json_to_bind(f, v)[2] = v BY ConformsBinds
  <2>3. QED BY <1>2, <2>1, <2>2, OutIs DEF Field!query_update
<1>5. CASE store = "orm"
  <2>1. Field!Update(v, known, other) = Field!orm_update(v, known) BY <1>2, <1>5 DEF Field!Update
  <2>2. Field!json_to_sea_value(f, v) = v BY ConformsBinds
  <2>3. QED BY <1>2, <2>1, <2>2, OutIs DEF Field!orm_update
<1>6. CASE store = "mongo"
  <2>1. Field!Update(v, known, other) = Field!mongo_update(v) BY <1>2, <1>6 DEF Field!Update
  <2>2. Field!json_to_bson(f, v)[2] = v BY ConformsBinds
  <2>3. QED BY <1>2, <2>1, <2>2, OutIs DEF Field!mongo_update
<1>7. QED BY <1>1, <1>3, <1>4, <1>5, <1>6

-----------------------------------------------------------------------------
(* The promises of the contract, and the theorems.                           *)

\* What the last answer says of a create or an update that no controller changed.
Promised ==
    /\ Field!ContractAccepted
    /\ Field!StoredIsSent

\* Of anything else it says nothing.
LEMMA OtherAnswer == answer.op \notin {"create", "update"} => Promised
  BY DEF Promised, Field!ContractAccepted, Field!StoredIsSent, Field!Wrote

\* Nothing is said against a value that the contract allows.
LEMMA NotRefused ==
    ASSUME FieldState, input = "listed", NEW v, Asked(v)
    PROVE  /\ Field!validate_input_shape(f, v) = {}
           /\ Field!validate_required_present(f, v, v) = {}
           /\ Field!validate_item_references(f, v, TRUE) = {}
<1>1. Valid(f) BY DEF FieldState
<1>2. v = "absent" \/ v \in Field!field_schema_to_openapi(f) BY DEF Asked
<1>3. Field!Given(f, v) => Field!check_field_rules(f, v) = {}
  BY <1>1, <1>2, ConformsChecked DEF Field!Given, Field!Missing
<1>4. f.required => v \notin Field!Missing
  <2>1. v # "null" BY <1>1, AskedIs
  <2>2. f.required => v # "absent"
    BY <1>1, NoRow, ConformsKind DEF Asked
  <2>3. QED BY <2>1, <2>2 DEF Field!Missing
<1>5. Field!validate_item_references(f, v, TRUE) = {}
  <2> DEFINE b == /\ \E i \in f.items : i.type = "uuid" /\ i.ref = "dotted"
                  /\ v \in Field!Lists /\ ~TRUE
  <2>1. Field!validate_item_references(f, v, TRUE) = Field!Broken({<<"invalid_reference", b>>})
    BY DEF Field!validate_item_references
  <2>2. ~b OBVIOUS
  <2> HIDE DEF b
  <2>3. Field!Broken({<<"invalid_reference", b>>}) = {} BY <2>2, FieldBroken, NoRuleBroken
  <2>4. QED BY <2>1, <2>3
<1>6. Field!validate_input_shape(f, v) = {} BY <1>3 DEF Field!validate_input_shape
<1>7. Field!validate_required_present(f, v, v) = {} BY <1>3, <1>4 DEF Field!validate_required_present
<1>8. QED BY <1>5, <1>6, <1>7

\* A create keeps the promises of the contract,
LEMMA CreatePromises ==
    ASSUME FieldState, RowState, Field!handle_create
    PROVE  Promised'
<1>1. f' = f /\ store' = store /\ input' = input /\ Valid(f) /\ store \in Field!StoreNames
  BY DEF Field!handle_create, Field!declared, FieldState
<1>2. PICK v \in Field!Values \union {"absent"}, w \in ControllerSets \union {"absent"},
              known \in Field!Known :
          LET data == Field!extract_input_from_value(v)
              after == Field!Controlled(data, w)
              plain == w = "absent" /\ known
              refused == \/ Field!validate_input_shape(f, data) # {}
                         \/ Field!validate_required_present(f, after, data) # {}
                         \/ Field!validate_item_references(f, after, known) # {}
              out == Field!Insert(Field!strip_transient_fields(f, after), known)
          IN IF refused
             THEN /\ Field!Answer("create", v, plain, "validation", "absent")
                  /\ UNCHANGED <<row, unchecked>>
             ELSE /\ row' = out.row
                  /\ unchecked' = (data # "absent" /\ w # "absent")
                  /\ Field!Answer("create", v, plain, out.status,
                                  IF out.status = "ok" THEN Field!Read(out.row) ELSE "absent")
  BY DEF Field!handle_create
<1> DEFINE data == Field!extract_input_from_value(v)
           after == Field!Controlled(data, w)
           plain == w = "absent" /\ known
           refused == \/ Field!validate_input_shape(f, data) # {}
                      \/ Field!validate_required_present(f, after, data) # {}
                      \/ Field!validate_item_references(f, after, known) # {}
           x == Field!strip_transient_fields(f, after)
           out == Field!Insert(x, known)
           status == IF refused THEN "validation" ELSE out.status
           read == IF refused \/ out.status # "ok" THEN "absent" ELSE Field!Read(out.row)
<1>3. Field!Answer("create", v, plain, status, read) /\ (~refused => row' = out.row)
  <2>1. CASE refused BY <1>2, <2>1
  <2>2. CASE ~refused BY <1>2, <2>2
  <2>3. QED BY <2>1, <2>2
<1>4. /\ answer'.op = "create" /\ answer'.sent = v /\ answer'.plain = plain
      /\ answer'.status = status /\ answer'.value = read
  <2> HIDE DEF status, plain, read
  <2>1. QED BY <1>3, AnswerIs
<1>5. known \in BOOLEAN BY DEF Field!Known
<1>6. ASSUME plain, input = "listed", Asked(v), ~Field!Unsupported PROVE status = "ok"
  <2>1. w = "absent" /\ known = TRUE BY <1>5, <1>6
  <2>2. data = v /\ after = v BY <1>6, <2>1, Brought DEF Field!extract_input_from_value
  <2>3. ~refused BY <1>6, <2>1, <2>2, NotRefused
  <2>4. x = v \/ (f.transient /\ x = "absent") BY <2>2, Brought
  <2>5. out.status = "ok"
    <3>1. CASE ~f.transient
      <4>1. x = v BY <2>4, <3>1
      <4>2. QED BY <1>1, <1>6, <2>1, <4>1, Accepts
    <3>2. CASE f.transient
      <4>1. store \in {"generated", "mongo"}
        BY <1>1, <1>6, <3>2 DEF Field!Unsupported, Field!StoreNames, Field!PgStores
      <4>2. CASE store = "generated"
        <5>1. out = Field!generated_insert(x, known) BY <4>2 DEF Field!Insert
        <5>2. QED BY <3>2, <5>1, GeneratedInsertIs, OutIs
      <4>3. CASE store = "mongo"
        <5>1. out = Field!mongo_insert(x) BY <4>3 DEF Field!Insert
        <5>2. QED BY <3>2, <5>1, MongoInsertIs, OutIs
      <4>4. QED BY <4>1, <4>2, <4>3
    <3>3. QED BY <3>1, <3>2
  <2>6. QED BY <2>3, <2>5
<1>7. ASSUME plain, status = "ok", input # "left_out", Field!Given(f, v), ~f.transient,
             v \in Field!field_schema_to_openapi(f), input \in {"listed", "left_out", "no_list"}
      PROVE  row' = v /\ read = v
  <2>1. w = "absent" /\ ~f.generated /\ ~f.primary BY <1>7 DEF Field!Given
  <2>2. data = v /\ after = v BY <1>7, <2>1, Brought DEF Field!extract_input_from_value
  <2>3. x = v BY <1>7, <2>2, Brought
  <2>4. ~refused /\ out.status = "ok" BY <1>7
  <2>5. out.row = v BY <1>1, <1>7, <2>1, <2>3, <2>4, InsertStores
  <2>6. v # "no_column" BY <1>1, <1>7, NoRow, ConformsKind
  <2>7. QED BY <1>3, <2>4, <2>5, <2>6 DEF Field!Read
<1> HIDE DEF status, plain, read
<1>8. Field!ContractAccepted'
  <2>1. SUFFICES ASSUME plain, input = "listed", Field!build_input_schema(f, v, TRUE), ~Field!Unsupported
                 PROVE  status = "ok"
    <3>1. Field!Unsupported' <=> Field!Unsupported BY <1>1 DEF Field!Unsupported
    <3>2. QED BY <1>1, <1>4, <3>1 DEF Field!ContractAccepted
  <2>2. Asked(v) BY <2>1 DEF Asked, Field!build_input_schema
  <2>3. QED BY <1>6, <2>1, <2>2
<1>9. Field!StoredIsSent'
  <2>1. input \in {"listed", "left_out", "no_list"} BY DEF FieldState
  <2>2. QED BY <1>1, <1>4, <1>7, <2>1 DEF Field!StoredIsSent, Field!Wrote
<1>10. QED BY <1>8, <1>9 DEF Promised

\* ... and so does an update.
LEMMA UpdatePromises ==
    ASSUME FieldState, RowState, Field!handle_update
    PROVE  Promised'
<1>1. f' = f /\ store' = store /\ input' = input /\ Valid(f) /\ store \in Field!StoreNames
      /\ input \in {"listed", "left_out", "no_list"}
  BY DEF Field!handle_update, Field!declared, FieldState
<1>2. PICK v \in Field!Values \union {"absent"}, w \in ControllerSets \union {"absent"},
              known \in Field!Known :
       \E other \in Field!Others(v) :
          LET data == Field!extract_input_from_value(v)
              after == Field!Controlled(data, w)
              plain == w = "absent" /\ known
              refused == \/ Field!validate_input_shape(f, data) # {}
                         \/ Field!validate_input_shape(f, after) # {}
                         \/ Field!validate_item_references(f, after, known) # {}
              out == Field!Update(Field!strip_transient_fields(f, after), known, other)
              status == IF out.status = "ok" /\ ~Field!Readable(out.row) THEN "internal" ELSE out.status
          IN IF refused
             THEN /\ Field!Answer("update", v, plain, "validation", "absent")
                  /\ UNCHANGED <<row, unchecked>>
             ELSE /\ row' = out.row
                  /\ unchecked' = (unchecked /\ out.row = row)
                  /\ Field!Answer("update", v, plain, status,
                                  IF status = "ok" THEN Field!Read(out.row) ELSE "absent")
  BY DEF Field!handle_update
<1> DEFINE data == Field!extract_input_from_value(v)
           after == Field!Controlled(data, w)
           plain == w = "absent" /\ known
           refused == \/ Field!validate_input_shape(f, data) # {}
                      \/ Field!validate_input_shape(f, after) # {}
                      \/ Field!validate_item_references(f, after, known) # {}
           x == Field!strip_transient_fields(f, after)
<1>3. CASE refused
  <2>1. Field!Answer("update", v, plain, "validation", "absent") BY <1>2, <1>3
  <2>2. answer'.status = "validation" /\ answer'.op = "update"
    <3> HIDE DEF plain
    <3>1. QED BY <2>1, AnswerIs
  <2>3. QED BY <2>2 DEF Promised, Field!ContractAccepted, Field!StoredIsSent
<1>4. CASE ~refused
  <2>1. PICK other \in Field!Others(v) :
          LET out == Field!Update(x, known, other)
              status == IF out.status = "ok" /\ ~Field!Readable(out.row) THEN "internal" ELSE out.status
          IN /\ row' = out.row
             /\ unchecked' = (unchecked /\ out.row = row)
             /\ Field!Answer("update", v, plain, status,
                             IF status = "ok" THEN Field!Read(out.row) ELSE "absent")
    BY <1>2, <1>4
  <2> DEFINE out == Field!Update(x, known, other)
             status == IF out.status = "ok" /\ ~Field!Readable(out.row) THEN "internal" ELSE out.status
             read == IF status = "ok" THEN Field!Read(out.row) ELSE "absent"
  <2>2. row' = out.row /\ Field!Answer("update", v, plain, status, read) BY <2>1
  <2>3. /\ answer'.op = "update" /\ answer'.sent = v /\ answer'.plain = plain
        /\ answer'.status = status /\ answer'.value = read
    <3> HIDE DEF status, plain, read
    <3>1. QED BY <2>2, AnswerIs
  <2>4. ASSUME plain, status = "ok", input # "left_out", Field!Given(f, v), ~f.transient,
               v \in Field!field_schema_to_openapi(f)
        PROVE  row' = v /\ read = v
    <3>1. w = "absent" /\ ~f.generated /\ ~f.primary BY <2>4 DEF Field!Given
    <3>2. data = v /\ after = v BY <1>1, <2>4, <3>1, Brought DEF Field!extract_input_from_value
    <3>3. x = v BY <2>4, <3>2, Brought
    <3>4. out.status = "ok" BY <2>4
    <3>5. out.row = v BY <1>1, <2>4, <3>1, <3>3, <3>4, UpdateStores
    <3>6. v # "no_column" BY <1>1, <2>4, NoRow, ConformsKind
    <3>7. QED BY <2>2, <2>4, <3>5, <3>6 DEF Field!Read
  <2> HIDE DEF status, plain, read
  <2>5. Field!ContractAccepted' BY <2>3 DEF Field!ContractAccepted
  <2>6. Field!StoredIsSent'
    BY <1>1, <2>3, <2>4 DEF Field!StoredIsSent, Field!Wrote
  <2>7. QED BY <2>5, <2>6 DEF Promised
<1>5. QED BY <1>3, <1>4

\* What the row holds unchanged from a checked request conforms to the published response.
LEMMA RowConforms ==
    FieldState /\ RowState /\ AnswerState => Field!AnswersConform
<1> SUFFICES ASSUME FieldState, RowState, AnswerState,
                    answer.op \in {"create", "update", "get"}, answer.status = "ok",
                    store = "generated", ~unchecked, ~f.transient, ~f.nullable, f.type # "json",
                    Field!build_resource_schema(f).required
             PROVE  \/ answer.value = "default"
                    \/ answer.value \in Field!build_resource_schema(f).allowed
                                          \intersect Field!openapi_type_to_ts(f)
  BY DEF Field!AnswersConform
<1>1. f.required /\ ~f.generated
         /\ Field!build_resource_schema(f).allowed = Field!field_schema_to_openapi(f)
  BY DEF Field!build_resource_schema
<1>2. Valid(f) /\ ~f.primary BY FieldRules DEF FieldState
<1>3. row # "none" /\ answer.value = Field!Read(row) BY DEF AnswerState
<1>4. row # "no_column" /\ row # "null" /\ row \notin {"made", "zero", "as_text"}
  BY <1>1, <1>2 DEF RowState, Field!NotNull
<1>5. row = "default" \/ row \in Field!Values \ {"null"}
  BY <1>3, <1>4 DEF FieldState, Field!Rows, Field!Stored
<1>6. answer.value = row BY <1>3, <1>4 DEF Field!Read
<1>7. CASE row \in Field!Values \ {"null"}
  <2>1. Field!validate_input_shape(f, row) = {} /\ Field!query_type(f, row)
    BY <1>7 DEF RowState, Field!RowsObeyRules
  <2>2. row # "absent" BY <1>7, NoRow
  <2>3. Field!Given(f, row) BY <1>1, <1>2, <1>7, <2>2 DEF Field!Given, Field!Missing
  <2>4. Field!check_field_rules(f, row) = {} BY <2>1, <2>3 DEF Field!validate_input_shape
  <2>5. QED BY <1>1, <1>2, <1>6, <2>1, <2>4, CheckedConforms
<1>8. QED BY <1>5, <1>6, <1>7

\* What encode_field writes, a client reads, but for the types that are messages of their own.
LEMMA WireCarries ==
    ASSUME Valid(f), row \in Field!Values \ {"null"}, Field!query_type(f, row),
           Field!field_type_to_proto(f.type) # "message"
    PROVE  Field!GrpcReply = row
<1>1. f.type \in Field!FieldTypes /\ row # "null" BY FieldRules DEF Field!FieldSchemas
<1> USE DEF Field!GrpcReply, Field!ClientReads
<1>2. CASE f.type = "integer"
  <2>1. row \in Field!Ints BY <1>2, QueryTypeIs
  <2>2. Field!encode_field(f, row) = <<"varint", row>> BY <1>1, <1>2, <2>1 DEF Field!encode_field
  <2>3. QED BY <1>2, <2>2, ProtoIs
<1>3. CASE f.type = "number"
  <2>1. row \in Field!Ints \union {"fraction"} BY <1>3, QueryTypeIs
  <2>2. Field!encode_field(f, row) = <<"64bit", row>> BY <1>1, <1>3, <2>1 DEF Field!encode_field
  <2>3. QED BY <1>3, <2>2, ProtoIs
<1>4. CASE f.type = "boolean"
  <2>1. row = "bool" BY <1>4, QueryTypeIs
  <2>2. Field!encode_field(f, row) = <<"varint", row>> BY <1>1, <1>4, <2>1 DEF Field!encode_field
  <2>3. QED BY <1>4, <2>2, ProtoIs
<1>5. CASE f.type \in {"uuid", "date", "enum", "string", "file"}
  <2>1. Field!encode_field(f, row) = <<"len", row>> BY <1>1, <1>5 DEF Field!encode_field
  <2>2. QED BY <1>5, <2>1, ProtoIs
<1>6. CASE f.type \in {"timestamp", "json", "array"} BY <1>6, ProtoIs
<1>7. QED BY <1>1, <1>2, <1>3, <1>4, <1>5, <1>6 DEF Field!FieldTypes

\* The inductive invariant of a field.
FieldInv == FieldState /\ RowState /\ AnswerState /\ Promised /\ Field!WireFaithful

\* It holds before any request.
LEMMA FieldInitInv == Field!Init => FieldInv
<1> SUFFICES ASSUME Field!Init PROVE FieldInv OBVIOUS
<1>1. answer.op = "none" BY DEF Field!Init
<1>2. Promised /\ Field!WireFaithful BY <1>1, OtherAnswer DEF Field!WireFaithful
<1>3. QED BY <1>2, FieldInitState DEF FieldInv

\* What each request does to the row, and what an error leaves of it.
LEMMA FieldStep ==
    ASSUME FieldInv, Field!Next
    PROVE  FieldInv' /\ (answer'.status # "ok" /\ ~Field!Unsupported /\ ~Field!NullInTableOnly =>
              row' = row)
<1>1. FieldState /\ RowState BY DEF FieldInv
<1>2. CASE Field!handle_create
  <2>1. answer'.op = "create" BY <1>2, AnswerIs DEF Field!handle_create
  <2>2. Field!WireFaithful' BY <2>1 DEF Field!WireFaithful
  <2>3. QED BY <1>1, <1>2, <2>2, CreateKeeps, CreatePromises DEF FieldInv
<1>3. CASE Field!handle_update
  <2>1. answer'.op = "update" BY <1>3, AnswerIs DEF Field!handle_update
  <2>2. Field!WireFaithful' BY <2>1 DEF Field!WireFaithful
  <2>3. QED BY <1>1, <1>3, <2>2, UpdateKeeps, UpdatePromises DEF FieldInv
<1>4. CASE Field!handle_get
  <2>1. answer'.op = "get" BY <1>4, AnswerIs DEF Field!handle_get
  <2>2. Field!WireFaithful' /\ Promised'
    BY <2>1 DEF Field!WireFaithful, Promised, Field!ContractAccepted, Field!StoredIsSent, Field!Wrote
  <2>3. QED BY <1>1, <1>4, <2>2, GetKeeps DEF FieldInv
<1> DEFINE quiet == answer'.op \in {"grpc_create", "grpc_update", "grpc_delete"}
<1>5. ASSUME FieldState', RowState', quiet PROVE FieldInv'
  BY <1>5 DEF FieldInv, AnswerState, Field!WireFaithful, Promised, Field!ContractAccepted,
              Field!StoredIsSent, Field!Wrote
<1>6. CASE Field!grpc_create BY <1>1, <1>5, <1>6, GrpcCreateKeeps
<1>7. CASE Field!grpc_update BY <1>1, <1>5, <1>7, GrpcUpdateKeeps
<1>8. CASE Field!grpc_delete BY <1>1, <1>5, <1>8, GrpcDeleteKeeps
<1>9. CASE Field!grpc_list
  <2>1. /\ FieldState' /\ RowState' /\ answer'.op = "grpc_list" /\ row' = row
        /\ (row # "no_column" => answer'.value = Field!GrpcReply)
    BY <1>1, <1>9, GrpcListKeeps
  <2>2. f' = f BY <1>9 DEF Field!grpc_list, Field!declared
  <2>3. Field!WireFaithful'
    <3>1. Valid(f) /\ "no_column" \notin Field!Values BY <1>1, NoRow DEF FieldState
    <3>2. SUFFICES ASSUME row \in Field!Values \ {"null"}, Field!query_type(f, row),
                          Field!field_type_to_proto(f.type) # "message"
                   PROVE  answer'.value = row
      BY <2>1, <2>2 DEF Field!WireFaithful
    <3>3. QED BY <2>1, <3>1, <3>2, WireCarries
  <2>4. AnswerState' /\ Promised'
    BY <2>1 DEF AnswerState, Promised, Field!ContractAccepted, Field!StoredIsSent, Field!Wrote
  <2>5. QED BY <2>1, <2>3, <2>4 DEF FieldInv
<1>10. QED BY <1>2, <1>3, <1>4, <1>6, <1>7, <1>8, <1>9 DEF Field!Next

\* A field that stands still stays as it is.
LEMMA FieldRests == ASSUME FieldInv, UNCHANGED FieldVars PROVE FieldInv'
<1>1. /\ f' = f /\ store' = store /\ key' = key /\ input' = input
      /\ row' = row /\ unchecked' = unchecked /\ answer' = answer
  BY DEF FieldVars
<1>2. FieldState' BY <1>1 DEF FieldInv, FieldState, Valid
<1>3. UNCHANGED Field!declared BY <1>1 DEF Field!declared
<1>4. RowState' BY <1>1, <1>3, RowNow, RowNext DEF FieldInv
<1>5. AnswerState' BY <1>1 DEF FieldInv, AnswerState
<1>6. Promised'
  <2>1. Field!Unsupported' <=> Field!Unsupported BY <1>1 DEF Field!Unsupported
  <2>2. QED BY <1>1, <2>1 DEF FieldInv, Promised, Field!ContractAccepted, Field!StoredIsSent, Field!Wrote
<1>7. Field!WireFaithful' BY <1>1 DEF FieldInv, Field!WireFaithful
<1>8. QED BY <1>2, <1>4, <1>5, <1>6, <1>7 DEF FieldInv

\* The invariant in the part that follows a field.
FieldHolds == part = "field" => FieldInv

\* It holds, whatever is requested.
LEMMA FieldInvariant == Spec => []FieldHolds
<1>1. Init => FieldHolds BY FieldInitInv DEF Init, FieldHolds
<1>2. FieldHolds /\ [Next]_vars => FieldHolds'
  <2> SUFFICES ASSUME FieldHolds, [Next]_vars, part' = "field" PROVE FieldInv' BY DEF FieldHolds
  <2>1. CASE ProjectNext BY <2>1 DEF ProjectNext
  <2>2. CASE FieldNext BY <2>2, FieldStep DEF FieldNext, FieldHolds
  <2>3. CASE UNCHANGED vars BY <2>3, FieldRests DEF vars, FieldHolds
  <2>4. QED BY <2>1, <2>2, <2>3 DEF Next
<1>3. QED BY <1>1, <1>2, PTL DEF Spec

\* For every declaration that validate_resource passes, in every store, whatever requests and
\* controllers do: a row obeys the rules of the field unless a controller or gRPC put it there
\* unchecked, nothing transient is stored, and find_by_id can read what was written.
THEOREM RowsAlwaysObey == Spec => []RowsObeyRules
<1>1. FieldHolds => RowsObeyRules
  <2> SUFFICES ASSUME part = "field", FieldInv
               PROVE Field!TypeOK /\ Field!RowsObeyRules /\ Field!TransientNeverStored
                        /\ Field!RowsReadable
    BY DEF FieldHolds, RowsObeyRules
  <2>1. Field!TypeOK BY DEF FieldInv, FieldState, Field!TypeOK
  <2>2. Field!RowsObeyRules /\ Field!TransientNeverStored BY DEF FieldInv, RowState
  <2>3. Field!RowsReadable
    <3>1. SUFFICES ASSUME ~Field!Unsupported, ~Field!NullInTableOnly PROVE Field!Readable(row)
      BY DEF Field!RowsReadable
    <3>2. RowFits(row, unchecked) BY RowNow DEF FieldInv
    <3>3. QED BY <3>1, <3>2, FitsReadable DEF FieldInv
  <2>4. QED BY <2>1, <2>2, <2>3
<1>2. QED BY <1>1, FieldInvariant, PTL

\* The contracts that openapi.rs, the TypeScript types and the .proto file publish are kept by
\* the validator, the four stores and the gRPC encoder, for every declaration and value.
THEOREM ContractAlwaysKept == Spec => []ContractKept
<1>1. FieldHolds => ContractKept
  BY RowConforms DEF FieldHolds, ContractKept, FieldInv, Promised
<1>2. QED BY <1>1, FieldInvariant, PTL

\* A request that is told of an error has left the row as it was: no store writes before it
\* refuses, but for the fields it cannot hold.
THEOREM FailuresChangeNothing == Spec => FailureChangesNothing
<1> DEFINE A == part = "field" =>
        (answer'.status # "ok" /\ ~Field!Unsupported /\ ~Field!NullInTableOnly => row' = row)
<1>1. FieldHolds /\ [Next]_vars => [A]_vars
  <2> SUFFICES ASSUME FieldHolds, Next, part = "field"
               PROVE (answer'.status # "ok" /\ ~Field!Unsupported /\ ~Field!NullInTableOnly =>
                        row' = row)
    OBVIOUS
  <2>1. Field!Next /\ FieldInv BY DEF Next, ProjectNext, FieldNext, FieldHolds
  <2>2. QED BY <2>1, FieldStep
<1>2. QED BY <1>1, FieldInvariant, PTL DEF Spec, FailureChangesNothing
=============================================================================
