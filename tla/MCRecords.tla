------------------------------ MODULE MCRecords ------------------------------
(***************************************************************************)
(* Model-checking instance of what the system stores: the rows of a run,   *)
(* its notes and plan steps, the sites of the dataset, the memory of sites *)
(* and the settings of the operators.                                      *)
(*                                                                         *)
(* The parts share no state, so one of them, the focus, takes steps in a   *)
(* behaviour and the others keep an initial state: the states are the sum  *)
(* and not the product of theirs.                                          *)
(***************************************************************************)
EXTENDS RunStore, RunNotes, RunPlanSteps, DatasetSites, SiteMemory, OperatorSettings, TLC

CONSTANTS one, two, three   \* requests, writers or agents that are alike

VARIABLE focus
recordVars == <<focus, storeVars, noteVars, planVars, siteVars, memoryVars, settingsVars>>

RecordsSymmetry == Permutations({one, two})

\* RunStore
MCKinds    == {"workflow", "agent"}
MCVerdicts == {"success", "partial", "no_streams"}

\* DatasetSites: the file names one of two sites.
MCUrls  == {"a", "b"}
MCSeeds == {"a"}
MCMaxBirths == [u \in MCUrls |-> IF u \in MCSeeds THEN 2 ELSE 1]

\* OperatorSettings: the environment holds a key, the base file a browser.
MCBodies ==
  {[f \in {"browser"} |-> "x"], [f \in {"catalog"} |-> "x"], [f \in {"key"} |-> "x"], [f \in {"key"} |-> Blank]}
MCEnvironment == [f \in Fields |-> IF f = "key" THEN "y" ELSE Blank]
MCShipped     == [f \in Fields |-> IF f = "browser" THEN "y" ELSE Blank]

-----------------------------------------------------------------------------
RecordsInit ==
  /\ focus \in {"store", "notes", "plan", "sites", "memory", "settings"}
  /\ StoreInit /\ NotesInit /\ PlanInit /\ SitesInit /\ MemoryInit /\ SettingsInit
  /\ focus # "store" => kind = "workflow"
  /\ focus # "memory" => page = [r \in MemoryRuns |-> "landing_page"] /\ tooled = [r \in MemoryRuns |-> TRUE]
  /\ focus # "settings" => ~readOnly

StoreStep == focus = "store" /\ StoreNext
             /\ UNCHANGED <<focus, noteVars, planVars, siteVars, memoryVars, settingsVars>>
NotesStep == focus = "notes" /\ NotesNext
             /\ UNCHANGED <<focus, storeVars, planVars, siteVars, memoryVars, settingsVars>>
PlanStep == focus = "plan" /\ PlanNext
             /\ UNCHANGED <<focus, storeVars, noteVars, siteVars, memoryVars, settingsVars>>
SitesStep == focus = "sites" /\ SitesNext
             /\ UNCHANGED <<focus, storeVars, noteVars, planVars, memoryVars, settingsVars>>
MemoryStep == focus = "memory" /\ MemoryNext
             /\ UNCHANGED <<focus, storeVars, noteVars, planVars, siteVars, settingsVars>>
SettingsStep == focus = "settings" /\ SettingsNext
             /\ UNCHANGED <<focus, storeVars, noteVars, planVars, siteVars, memoryVars>>

RecordsNext == StoreStep \/ NotesStep \/ PlanStep \/ SitesStep \/ MemoryStep \/ SettingsStep

RecordsSpec == RecordsInit /\ [][RecordsNext]_recordVars
=============================================================================
