------------------------------ MODULE Authoring -----------------------------
(***************************************************************************)
(* The command line around a project: resource files are scaffolded and    *)
(* edited, checked, turned into Rust modules and migrations, and built.    *)
(* A command works file by file; it can fail at any write and be           *)
(* interrupted between two of them.                                        *)
(*                                                                         *)
(* generated/ holds a module per resource and mod.rs, the registry, which  *)
(* names every module and every function of the developer's files that it  *)
(* registers.  What is generated from a declaration is represented by the  *)
(* declaration.                                                            *)
(***************************************************************************)
EXTENDS Validator, Diagnostics, Sequences

CONSTANTS
    Names,          \* resources, in the order of their files
    Contained(_, _),\* the second name contains the first
    Trials,         \* declarations that are checked and generated as they are
    Edits,          \* declarations the developer may write
    Archetypes,     \* archetypes that `resource create` is given
    MaxEdits        \* bound: changes by the developer

VARIABLES
    yaml,        \* yaml[n]: the declaration in resources/n.yaml, if any
    modules,     \* modules[n]: the declaration that generated/n.rs was made from
    registry,    \* the declarations generated/mod.rs was made from, if it exists
    code,        \* code[n]: the functions of the controller and handler files, if any
    jobs,        \* job files
    migrations,  \* migrations/: [num, of, decl]
    tables,      \* tables[n]: the declaration the table was created from
    applied,     \* versions recorded by sqlx
    cmd,         \* the command that runs: its name, its step, what it loaded
    exit,        \* how the last command ended
    checked,     \* what check said of the files as they are
    edits        \* changes so far, and whether one removed a migration

vars == <<yaml, modules, registry, code, jobs, migrations, tables, applied, cmd, exit, checked, edits>>

disk == <<modules, registry, code, jobs, migrations, tables, applied>>

Name(k) == Names[k]
Resources == {Names[k] : k \in DOMAIN Names}

\* the constants have the types of the code's, and a name contains itself
Described ==
    /\ Names \in Seq(STRING) /\ Names # <<>> /\ MaxEdits \in Nat
    /\ \A n \in Resources : Contained(n, n)
    /\ \A d \in Trials \union Edits : IsResource(d)
    /\ Archetypes \subseteq DOMAIN scaffold_resource_yaml

Nothing == [n \in Resources |-> {}]

Idle == [run |-> "none", at |-> "none", load |-> Nothing, next |-> 1]

Loaded(load) == {n \in Resources : load[n] # {}}

\* the functions that mod.rs registers, by file
Referenced(load, n) ==
    UNION {collect_controller_hooks(d) \union collect_custom_handlers(d) : d \in load[n]}

AllJobs(load) == UNION {UNION {collect_job_names(d) : d \in load[n]} : n \in Resources}

Compiles ==
    \E load \in registry :
        /\ \A n \in Loaded(load) : modules[n] # {}
        /\ \A n \in Resources : Referenced(load, n) \subseteq UNION code[n]
        /\ AllJobs(load) \subseteq jobs

-----------------------------------------------------------------------------
(* The developer *)

Changes(e) ==
    /\ cmd = Idle
    /\ edits.count < MaxEdits
    /\ edits' = [edits EXCEPT !.count = @ + 1, !.removed = @ \/ e = "removed"]
    /\ exit' = "stale"

EditYaml(n, d) ==
    /\ Changes("yaml")
    /\ {d} # yaml[n]
    /\ yaml' = [yaml EXCEPT ![n] = {d}]
    /\ checked' = "none"
    /\ UNCHANGED <<disk, cmd>>

RemoveYaml(n) ==
    /\ Changes("yaml")
    /\ yaml[n] # {}
    /\ yaml' = [yaml EXCEPT ![n] = {}]
    /\ checked' = "none"
    /\ UNCHANGED <<disk, cmd>>

\* the developer completes the files of a resource
WriteCode(n) ==
    /\ Changes("code")
    /\ ~ Referenced(yaml, n) \subseteq UNION code[n]
    /\ code' = [code EXCEPT ![n] = {(UNION @) \union Referenced(yaml, n)}]
    /\ UNCHANGED <<yaml, modules, registry, jobs, migrations, tables, applied, cmd, checked>>

RemoveMigration(m) ==
    /\ Changes("removed")
    /\ migrations' = migrations \ {m}
    /\ UNCHANGED <<yaml, modules, registry, code, jobs, tables, applied, cmd, checked>>

Numbers == {m.num : m \in migrations}

compute_next_version == IF Numbers = {} THEN 1 ELSE 1 + CHOOSE x \in Numbers : \A y \in Numbers : y <= x

generate_initial_migration(n, d) == [num |-> Cardinality(migrations) + 1, of |-> n, decl |-> d]

\* `shaperail resource create`: parsed, but not validated, before it is written
run_create(n, archetype) ==
    LET d == scaffold_resource_yaml[archetype] IN
    /\ Changes("yaml")
    /\ yaml[n] = {}
    /\ yaml' = [yaml EXCEPT ![n] = {d}]
    /\ migrations' = migrations \union {generate_initial_migration(n, apply_endpoint_defaults(d))}
    /\ checked' = "none"
    /\ UNCHANGED <<modules, registry, code, jobs, tables, applied, cmd>>

-----------------------------------------------------------------------------
(* check *)

check ==
    /\ cmd = Idle /\ checked = "none"
    /\ \E n \in Resources : yaml[n] # {}
    /\ checked' = IF \E n \in Resources : \E d \in yaml[n] : Panics(d) THEN "panicked"
                  ELSE IF \E n \in Resources : \E d \in yaml[n] : diagnose_resource(d) # {}
                  THEN "errors" ELSE "clean"
    /\ UNCHANGED <<yaml, disk, cmd, exit, edits>>

-----------------------------------------------------------------------------
(* generate and serve *)

Parsed == [n \in Resources |-> {apply_endpoint_defaults(d) : d \in yaml[n]}]

load_all_resources ==
    /\ Parsed # Nothing
    /\ \A n \in Resources : \A d \in Parsed[n] : validate_resource(d) = {}

Ends(code_) == cmd' = Idle /\ exit' = code_

\* a command is run again only after a change or a failure
Starts(run, first) ==
    /\ cmd = Idle /\ exit # run
    /\ IF load_all_resources
       THEN cmd' = [run |-> run, at |-> first, load |-> Parsed, next |-> 1] /\ exit' = "running"
       ELSE exit # "refused" /\ Ends("refused")
    /\ UNCHANGED <<yaml, disk, checked, edits>>

NothingClearedMutant ==
    /\ cmd.at = "clear"
    /\ cmd' = [cmd EXCEPT !.at = "modules"]
    /\ UNCHANGED <<yaml, disk, exit, checked, edits>>

\* clear_generated_rust_files: in the order in which the directory is read
clear_generated_rust_files ==
    /\ cmd.at = "clear"
    /\ \/ \E n \in Resources :
             /\ modules[n] # {}
             /\ modules' = [modules EXCEPT ![n] = {}]
             /\ UNCHANGED <<registry, cmd>>
       \/ registry # {} /\ registry' = {} /\ UNCHANGED <<modules, cmd>>
       \/ /\ modules = Nothing /\ registry = {}
          /\ cmd' = [cmd EXCEPT !.at = "modules"]
          /\ UNCHANGED <<modules, registry>>
    /\ UNCHANGED <<yaml, code, jobs, migrations, tables, applied, exit, checked, edits>>

WriteModule ==
    /\ cmd.at = "modules"
    /\ IF cmd.next > Len(Names) THEN cmd' = [cmd EXCEPT !.at = "registry"] /\ UNCHANGED modules
       ELSE /\ modules' = [modules EXCEPT ![Name(cmd.next)] = cmd.load[Name(cmd.next)]]
            /\ cmd' = [cmd EXCEPT !.next = @ + 1]
    /\ UNCHANGED <<yaml, registry, code, jobs, migrations, tables, applied, exit, checked, edits>>

\* serve writes no stubs
WriteRegistry ==
    /\ cmd.at = "registry"
    /\ registry' = {cmd.load}
    /\ IF cmd.run = "serve" THEN Ends("serve")
       ELSE cmd' = [cmd EXCEPT !.at = "stubs"] /\ UNCHANGED exit
    /\ UNCHANGED <<yaml, modules, code, jobs, migrations, tables, applied, checked, edits>>

\* a file that exists is left as it is
write_stubs(load) ==
    code' = [n \in Resources |->
                IF Referenced(load, n) = {} \/ code[n] # {} THEN code[n] ELSE {Referenced(load, n)}]

\* a stub that cannot be written is a warning; the exit code is 0 all the same
WriteStubs ==
    /\ cmd.at = "stubs"
    /\ \/ write_stubs(cmd.load) /\ jobs' = jobs \union AllJobs(cmd.load) /\ Ends("generate")
       \/ UNCHANGED <<code, jobs>> /\ Ends("warned")
    /\ UNCHANGED <<yaml, modules, registry, migrations, tables, applied, checked, edits>>

\* a write fails, or the developer interrupts the command
Interrupted ==
    /\ cmd # Idle
    /\ Ends("interrupted")
    /\ UNCHANGED <<yaml, disk, checked, edits>>

-----------------------------------------------------------------------------
(* migrate *)

AnyMigrationMutant(n) == migrations # {}

\* the name of a file contains create_ and the name of the resource
migration_exists(n) == \E m \in migrations : Contained(n, m.of)

\* a file for each resource that has none yet
MigrationFile ==
    /\ cmd.run = "migrate" /\ cmd.at = "files"
    /\ IF cmd.next > Len(Names) THEN cmd' = [cmd EXCEPT !.at = "apply"] /\ UNCHANGED migrations
       ELSE LET n == Name(cmd.next) IN
            /\ migrations' = migrations \union
                  {[num |-> compute_next_version, of |-> n, decl |-> d] :
                      d \in {x \in cmd.load[n] : ~migration_exists(n)}}
            /\ cmd' = [cmd EXCEPT !.next = @ + 1]
    /\ UNCHANGED <<yaml, modules, registry, code, jobs, tables, applied, exit, checked, edits>>

Pending == {m \in migrations : m.num \notin applied}

\* sqlx migrate run: the pending migrations in the order of their numbers, one
\* transaction each.  A recorded version must still have its file, and two
\* files with one number cannot both be recorded.
SqlxApply ==
    /\ cmd.run = "migrate" /\ cmd.at = "apply"
    /\ IF Pending = {} /\ applied \subseteq Numbers
          /\ \A m, l \in migrations : m.num = l.num => m = l
       THEN Ends("migrate") /\ UNCHANGED <<tables, applied>>
       ELSE IF applied \subseteq Numbers /\ Pending # {}
               /\ \E m \in Pending : \A l \in Pending : m.num < l.num \/ m = l
       THEN LET m == CHOOSE m \in Pending : \A l \in Pending : m.num < l.num \/ m = l
            IN  /\ applied' = applied \union {m.num}
                /\ IF tables[m.of] = {} THEN tables' = [tables EXCEPT ![m.of] = {m.decl}] /\ UNCHANGED <<cmd, exit>>
                   ELSE UNCHANGED <<tables, cmd, exit>>   \* CREATE TABLE IF NOT EXISTS
       ELSE Ends("failed") /\ UNCHANGED <<tables, applied>>
    /\ UNCHANGED <<yaml, modules, registry, code, jobs, migrations, checked, edits>>

-----------------------------------------------------------------------------

Init ==
    /\ modules = Nothing /\ registry = {} /\ code = Nothing /\ jobs = {}
    /\ migrations = {} /\ tables = Nothing /\ applied = {}
    /\ cmd = Idle /\ exit = "none" /\ checked = "none"
    /\ \/ /\ yaml = Nothing
          /\ edits = [count |-> 0, removed |-> FALSE]
       \/ /\ \E d \in Trials : yaml = [Nothing EXCEPT ![Name(1)] = {d}]
          /\ edits = [count |-> MaxEdits, removed |-> FALSE]

Next ==
    \/ \E n \in Resources : \E d \in Edits : EditYaml(n, d)
    \/ \E n \in Resources, archetype \in Archetypes : run_create(n, archetype)
    \/ \E n \in Resources : RemoveYaml(n) \/ WriteCode(n)
    \/ \E m \in migrations : RemoveMigration(m)
    \/ check
    \/ Starts("generate", "clear") \/ Starts("serve", "clear") \/ Starts("migrate", "files")
    \/ clear_generated_rust_files \/ WriteModule \/ WriteRegistry \/ WriteStubs
    \/ MigrationFile \/ SqlxApply
    \/ Interrupted

Spec == Init /\ [][Next]_vars

-----------------------------------------------------------------------------
(* Properties *)

\* Every variable has its type.
TypeOK ==
    /\ DOMAIN yaml = Resources /\ DOMAIN modules = Resources /\ DOMAIN tables = Resources
    /\ \A n \in Resources : Cardinality(yaml[n]) <= 1 /\ Cardinality(modules[n]) <= 1
                            /\ Cardinality(code[n]) <= 1 /\ Cardinality(tables[n]) <= 1
    /\ Cardinality(registry) <= 1
    /\ applied \subseteq Nat /\ edits.count \in 0..MaxEdits
    /\ cmd.run \in {"none", "generate", "serve", "migrate"}
    /\ cmd.at \in {"none", "clear", "modules", "registry", "stubs", "files", "apply"}
    /\ checked \in {"none", "clean", "errors", "panicked"}

\* write_generated_modules removes mod.rs with the old modules and writes it
\* last: at whatever file a generate is stopped, a tree that compiles was
\* generated from the declarations of one single load.
CompiledOfOneLoad ==
    Compiles => \A load \in registry : \A n \in Loaded(load) : modules[n] = load[n]

\* generate_project and write_*_stubs: when generate ends with 0 the modules
\* are those of the files as they are, no module of a removed resource is
\* left, and the project compiles, unless a function is missing in a file
\* that was there before (stubs are never added to an existing file).
GenerateDelivers ==
    exit = "generate" =>
        /\ modules = Parsed
        /\ Compiles \/ \E n \in Resources : code[n] # {} /\ ~ Referenced(modules, n) \subseteq UNION code[n]

\* What only one of the two validators asks for.
OnlyValidated ==
    {"transient_primary", "transient_generated", "transient_ref", "transient_unique",
     "transient_default", "transient_unreachable", "handler_on_convention", "after_on_custom",
     "no_method", "no_path", "companion_type"}
OnlyDiagnosed == {"SR073", "SR074", "SR075"}

\* diagnose_resource against validate_resource: files that check finds clean
\* are refused by generate for nothing but the rules that only the validator
\* has, and a declaration that generate takes has no diagnostic but those
\* that only check has.  (A check that panicked says nothing.)
CheckForetellsGenerate ==
    /\ checked = "clean" =>
          \A n \in Resources : \A d \in Parsed[n] : validate_resource(d) \subseteq OnlyValidated
    /\ checked = "errors" /\ load_all_resources =>
          \A n \in Resources : \A d \in yaml[n] : diagnose_resource(d) \subseteq OnlyDiagnosed

\* resource.rs: the scaffolds that were not edited, and that generate refuses,
\* are refused for one reason: they delete softly and have no deleted_at.
ScaffoldsGenerate ==
    exit = "refused" /\ yaml # Nothing /\ UNION {yaml[n] : n \in Resources} \subseteq Scaffolds =>
        UNION {UNION {validate_resource(d) : d \in Parsed[n]} : n \in Resources} = {"SR041"}

\* compute_next_version, generate_initial_migration: two migrations never get
\* the same number, as long as no migration is removed (resource create counts
\* the files where migrate takes the highest number).
NumbersDistinct ==
    ~edits.removed => \A m, l \in migrations : m.num = l.num => m = l

\* When migrate ends with 0 every resource has its table, but for one whose
\* name is part of the name of a resource that already has a migration; and
\* the table is that of the first declaration, whatever was edited since.
MigrateDelivers ==
    exit = "migrate" =>
        \A n \in Loaded(yaml) :
            \/ \E m \in migrations : m.of = n /\ tables[n] = {m.decl}
            \/ edits.removed
            \/ \E m \in migrations : m.of # n /\ Contained(n, m.of)

\* d without what the editor's schema has never heard of: transient fields, what
\* constrains the items of arrays, handlers and subscribers.
WithoutNews(d) ==
    [d EXCEPT !.schema = [n \in DOMAIN @ |-> [@[n] EXCEPT !.transient = FALSE, !.items = {}]],
              !.endpoints = [a \in DOMAIN @ |-> [@[a] EXCEPT !.handler = {}, !.subscribers = {}]]]

\* json_schema.rs, written out by hand, against validate_resource: but for those
\* the editor's schema accepts what generate accepts.
SchemaKeepsUp ==
    exit = "generate" => \A n \in Resources : \A d \in yaml[n] :
        generate_resource_json_schema(WithoutNews(d))
=============================================================================
