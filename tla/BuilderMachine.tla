---------------------------- MODULE BuilderMachine ----------------------------
(***************************************************************************)
(* The part picker of the frontend: the XState machine of builderMachine.ts*)
(* and the BuilderShell component that feeds it, with the market region    *)
(* that lives outside of the machine and is copied into its preferences by *)
(* a React effect.  The machine drops an event its state does not name.    *)
(***************************************************************************)
EXTENDS Integers

CONSTANTS
    Selections,     \* the component selections a user can put together
    NoSelection,    \* nothing selected
    Regions,
    DefaultRegion,
    Targets,        \* the rest of the preferences
    DefaultTarget,
    None            \* null

ASSUME DefaultsAssumption ==
    NoSelection \notin Selections /\ DefaultRegion \in Regions /\ DefaultTarget \in Targets

VARIABLES
    state,        \* state.value
    selected,     \* context.selected
    preferences,  \* context.preferences
    validation,   \* context.validation, with the input it answers
    builds,       \* context.generatedBuilds
    error,        \* context.error is not null
    region,       \* the market region of the RegionProvider
    effect        \* the effect of BuilderShell that compares the two is due

vars == <<state, selected, preferences, validation, builds, error, region, effect>>

-----------------------------------------------------------------------------
States == {"idle", "selecting_cpu", "validating", "valid_configuration",
           "invalid_configuration", "generating_build", "build_generated", "build_error"}

Preferences == [region : Regions, target : Targets]

DefaultPreferences == [region |-> DefaultRegion, target |-> DefaultTarget]

\* The states that name each event.  Nothing leads to selecting_motherboard.
Selecting == {"idle", "selecting_cpu", "valid_configuration", "invalid_configuration",
              "build_generated"}
Applying == {"selecting_cpu", "valid_configuration", "invalid_configuration",
             "build_generated", "build_error"}
Generating == States \ {"validating", "generating_build"}
Resetting == Generating \ {"idle"}

SettingWithoutError == States \ {"validating", "generating_build", "build_error"}

Setting == States \ {"validating", "generating_build"}

OnlyInvalidRevalidates == {"invalid_configuration"}

Revalidating == {"valid_configuration", "invalid_configuration"}

Init ==
    /\ state = "idle"
    /\ selected = NoSelection
    /\ preferences = DefaultPreferences
    /\ validation = None
    /\ builds = {}
    /\ error = FALSE
    /\ region \in Regions
    /\ effect = TRUE

-----------------------------------------------------------------------------
(* Events.                                                                 *)

Start ==
    /\ state = "idle"
    /\ state' = "selecting_cpu"
    /\ UNCHANGED <<selected, preferences, validation, builds, error, region, effect>>

\* SELECT_COMPONENT, or APPLY_GENERATED_BUILD with a build that is shown.
Select ==
    /\ \/ state \in Selecting /\ selected' \in Selections
       \/ state \in Applying /\ selected' \in builds
    /\ state' = "validating"
    /\ error' = FALSE
    /\ UNCHANGED <<preferences, validation, builds, region, effect>>

\* SET_PREFERENCES as the machine takes it; a result is validated again.
TakePreferences(p) ==
    /\ state \in Setting
    /\ preferences' = p
    /\ state' = IF state \in Revalidating THEN "validating" ELSE state
    /\ error' = FALSE

\* updatePreferences: the panel's preferences, with the region of the machine or
\* one chosen there, become the market region too; the effect will run.
ChangePreferences ==
    /\ \E p \in Preferences :
         /\ region' = p.region
         /\ \/ TakePreferences(p)
            \/ state \notin Setting /\ UNCHANGED <<preferences, state, error>>
    /\ effect' = TRUE
    /\ UNCHANGED <<selected, validation, builds>>

\* The region selector of the page.
ChangeRegion ==
    /\ region' \in Regions \ {region}
    /\ effect' = TRUE
    /\ UNCHANGED <<state, selected, preferences, validation, builds, error>>

\* The effect runs when the region or the preferences have changed, once; what
\* it sends is an event like any other.
SyncRegion ==
    /\ effect
    /\ LET p == [preferences EXCEPT !.region = region] IN
       \/ p = preferences /\ effect' = FALSE /\ UNCHANGED <<state, preferences, error>>
       \/ p # preferences /\ TakePreferences(p) /\ effect' = TRUE
       \/ p # preferences /\ state \notin Setting /\ effect' = FALSE
          /\ UNCHANGED <<state, preferences, error>>
    /\ UNCHANGED <<selected, validation, builds, region>>

Generate ==
    /\ state \in Generating
    /\ state' = "generating_build"
    /\ UNCHANGED <<selected, preferences, validation, builds, error, region, effect>>

Retry ==
    /\ state = "invalid_configuration"
    /\ state' = "validating"
    /\ UNCHANGED <<selected, preferences, validation, builds, error, region, effect>>

ResetKeepsValidation ==
    /\ state \in Resetting
    /\ state' = "idle"
    /\ selected' = NoSelection
    /\ preferences' = DefaultPreferences
    /\ builds' = {}
    /\ error' = FALSE
    /\ effect' = (effect \/ preferences # DefaultPreferences)
    /\ UNCHANGED <<validation, region>>

Reset ==
    /\ state \in Resetting
    /\ state' = "idle"
    /\ selected' = NoSelection
    /\ preferences' = DefaultPreferences
    /\ validation' = None
    /\ builds' = {}
    /\ error' = FALSE
    /\ effect' = (effect \/ preferences # DefaultPreferences)
    /\ UNCHANGED region

-----------------------------------------------------------------------------
(* Answers of the backend to the promise the state has invoked.            *)

Validated ==
    /\ state = "validating"
    /\ \E accepted \in BOOLEAN :
         /\ validation' = [selected |-> selected, preferences |-> preferences, valid |-> accepted]
         /\ state' = IF accepted THEN "valid_configuration" ELSE "invalid_configuration"
    /\ error' = FALSE
    /\ UNCHANGED <<selected, preferences, builds, region, effect>>

ValidationFails ==
    /\ state = "validating"
    /\ state' = "invalid_configuration"
    /\ error' = TRUE
    /\ UNCHANGED <<selected, preferences, validation, builds, region, effect>>

Generated ==
    /\ state = "generating_build"
    /\ builds' \in SUBSET Selections
    /\ state' = "build_generated"
    /\ UNCHANGED <<selected, preferences, validation, error, region, effect>>

GenerationFails ==
    /\ state = "generating_build"
    /\ state' = "build_error"
    /\ UNCHANGED <<selected, preferences, validation, builds, error, region, effect>>

Backend == Validated \/ ValidationFails \/ Generated \/ GenerationFails

User == Start \/ Select \/ ChangePreferences \/ ChangeRegion \/ Generate \/ Retry \/ Reset

Next == User \/ SyncRegion \/ Backend

\* React runs a due effect and a request is answered or fails; nobody owes a click.
Spec == Init /\ [][Next]_vars /\ WF_vars(SyncRegion) /\ WF_vars(Backend)

-----------------------------------------------------------------------------
Validation == [selected : Selections \cup {NoSelection}, preferences : Preferences,
               valid : BOOLEAN]

(* The ranges, and an idle machine holds nothing of an earlier build.       *)
TypeOK ==
    /\ state \in States
    /\ selected \in Selections \cup {NoSelection}
    /\ preferences \in Preferences
    /\ validation \in Validation \cup {None}
    /\ builds \subseteq Selections
    /\ error \in BOOLEAN /\ effect \in BOOLEAN /\ region \in Regions
    /\ state = "idle" => selected = NoSelection /\ validation = None /\ builds = {} /\ ~error

(* PHASES.md, "Guards": the machine says valid only when the backend        *)
(* accepted exactly what is selected, under the preferences that stand now; *)
(* it says invalid without an error only when the backend refused that.     *)
VerdictIsCurrent ==
    /\ TypeOK
    /\ state = "valid_configuration" =>
         validation = [selected |-> selected, preferences |-> preferences, valid |-> TRUE]
    /\ state = "invalid_configuration" /\ ~error =>
         validation = [selected |-> selected, preferences |-> preferences, valid |-> FALSE]

(* PHASES.md:206: validation is invoked on every preference change.  The    *)
(* region is one, but only a region chosen while no request is under way is *)
(* sure to reach the preferences, unless the user starts a request before   *)
(* the effect has run; one chosen later is dropped and not sent again.      *)
RegionArrives ==
    effect /\ state \in Generating ~> region = preferences.region \/ state \notin Generating
=============================================================================
