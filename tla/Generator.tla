----------------------------- MODULE Generator ------------------------------
(***************************************************************************)
(* What is made of declarations: a project directory under the commands    *)
(* (Authoring), and a field under the requests that the generated code and *)
(* the run-time stores serve (Fields).  The two share no state; each       *)
(* behaviour follows one of them (`part'), the variables of the other stay *)
(* "-".                                                                    *)
(***************************************************************************)
EXTENDS Declarations

CONSTANTS
    Names, Contained(_, _), Trials, Edits, Archetypes, MaxEdits,           \* Authoring
    FieldDecls, ControllerSets                                             \* Fields

VARIABLES
    part,
    yaml, modules, registry, code, jobs, migrations, tables, applied, cmd, \* Authoring
    exit, checked, edits,
    f, store, key, input, row, unchecked, answer                           \* Fields

Project == INSTANCE Authoring
Field == INSTANCE Fields

ASSUME ProjectAssumption == Project!Described

ASSUME FieldAssumption == Field!Described

-----------------------------------------------------------------------------
ProjectVars == <<yaml, modules, registry, code, jobs, migrations, tables, applied, cmd, exit,
                 checked, edits>>
FieldVars == <<f, store, key, input, row, unchecked, answer>>
vars == <<part, ProjectVars, FieldVars>>

FieldParked ==
    /\ f = "-" /\ store = "-" /\ key = "-" /\ input = "-" /\ row = "-"
    /\ unchecked = "-" /\ answer = "-"

ProjectParked ==
    /\ yaml = "-" /\ modules = "-" /\ registry = "-" /\ code = "-" /\ jobs = "-"
    /\ migrations = "-" /\ tables = "-" /\ applied = "-" /\ cmd = "-" /\ exit = "-"
    /\ checked = "-" /\ edits = "-"

Init ==
    \/ part = "project" /\ Project!Init /\ FieldParked
    \/ part = "field" /\ ProjectParked /\ Field!Init

ProjectNext == part = "project" /\ Project!Next /\ UNCHANGED <<part, FieldVars>>
FieldNext == part = "field" /\ Field!Next /\ UNCHANGED <<part, ProjectVars>>

Next == ProjectNext \/ FieldNext

Spec == Init /\ [][Next]_vars

-----------------------------------------------------------------------------
(* What is checked of each part, as its own module states it.               *)
\* The four lists of rules are kept in step: check (diagnose_resource) and
\* generate (validate_resource) judge alike but for the rules only one has, the
\* editor's JSON schema accepts what generate accepts but for what it does not
\* know, and a fresh scaffold is refused for its missing deleted_at at most.
RulesAgree == part = "project" =>
    Project!CheckForetellsGenerate /\ Project!SchemaKeepsUp /\ Project!ScaffoldsGenerate

\* Whatever stops write_generated_modules, a tree that compiles is of one load;
\* and when generate ends with 0 the modules are those of the files as they are.
TreeOfOneLoad == part = "project" =>
    Project!TypeOK /\ Project!CompiledOfOneLoad /\ Project!GenerateDelivers

\* When migrate ends with 0 every resource has the table it was first declared
\* with; two migrations get one number only after one was removed.
MigrationsDeliver == part = "project" => Project!MigrateDelivers /\ Project!NumbersDistinct

\* What validated requests and controllers leave in the table obeys the field's
\* rules, is never a transient input, and can be read by find_by_id again.
RowsObeyRules == part = "field" =>
    Field!TypeOK /\ Field!RowsObeyRules /\ Field!TransientNeverStored /\ Field!RowsReadable

\* The published contracts are kept: a create that fits the input schema
\* succeeds, no store's binding replaces a value the contract allows, answers
\* fit the OpenAPI response schema and the TypeScript interface, and a client
\* made from the .proto file reads what the row holds.
ContractKept == part = "field" =>
    /\ Field!ContractAccepted /\ Field!StoredIsSent
    /\ Field!AnswersConform /\ Field!WireFaithful

\* A request that is told of an error has changed nothing.
FailureChangesNothing == [][part = "field" =>
    (answer'.status # "ok" /\ ~Field!Unsupported /\ ~Field!NullInTableOnly => row' = row)]_vars
=============================================================================
