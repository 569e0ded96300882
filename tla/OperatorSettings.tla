-------------------------- MODULE OperatorSettings --------------------------
(***************************************************************************)
(* The settings of the system: layers of defaults (the environment), of    *)
(* configs/settings.yaml and of data/settings.runtime.yaml, loaded into    *)
(* one object that all requests share (api/app.py, utils/config.py), the   *)
(* updates operators send, the catalogues of models that are kept in the   *)
(* settings (api/provider_config.py), and the file the browser tools read  *)
(* theirs from.  Requests run on worker threads.                           *)
(*                                                                         *)
(* A layer gives each field a value or Blank, which counts as absent.  A   *)
(* secret is encrypted on its way to the file and decrypted on its way     *)
(* back; only its value matters here.  What is written at once by two      *)
(* threads is taken to be the text of the later one.                       *)
(***************************************************************************)
EXTENDS Naturals, FiniteSets

CONSTANTS
  Editors,       \* requests in progress at a time
  SecretFields,  \* BYOK keys, which the base file must not hold
  PlainFields,   \* "browser", "catalog" and others
  Values,
  Bodies,        \* updates: functions from some fields to values or Blank;
                 \* those of "catalog" alone are fetched catalogues
  MaxUpdates,    \* bounds the updates and refreshed catalogues
  Environment,   \* the weakest layer
  Shipped        \* configs/settings.yaml at first

Blank == "blank"
Fields == SecretFields \cup PlainFields
Layer == [Fields -> Values \cup {Blank}]

ASSUME SettingsAssumption ==
  /\ MaxUpdates \in Nat /\ Blank \notin Values /\ {"browser", "catalog"} \subseteq PlainFields
  /\ SecretFields \cap PlainFields = {} /\ Environment \in Layer /\ Shipped \in Layer
  /\ \A f \in SecretFields : Shipped[f] = Blank
  /\ \A b \in Bodies : DOMAIN b \subseteq Fields /\ \A f \in DOMAIN b : b[f] \in Values \cup {Blank}
  \* normalize_browser_runtime fills in what is missing
  /\ \A b \in Bodies : "browser" \in DOMAIN b => b["browser"] # Blank
  /\ IsFiniteSet(Editors)

\* Objects are numbered as long as a request or _settings refers to them.
NoObject == 0
Objects == 1..(Cardinality(Editors) + 1)

VARIABLES
  runtimeFile, baseFile,  \* what the two files say
  readOnly,               \* the runtime file cannot be opened for writing
  updates,                \* counts changes, for the bound
  bridge,                 \* the browser settings the tools read
  objects,                \* the Settings objects
  inForce,                \* _settings
  request,                \* what each editor is asked to do
  editStage, inHand,      \* how far it is, with which object
  text,                   \* what it is about to write
  \* for the properties
  accepted,               \* the last value a request set
  unsure,                 \* fields whose last value may have been lost
  spoiled,                \* objects that are not what was accepted
  bridgeSpoiled           \* the bridge was written from such an object

files == <<runtimeFile, baseFile>>
editing == <<request, editStage, inHand, text>>
ghosts == <<accepted, unsure, spoiled, bridgeSpoiled>>
settingsVars == <<files, readOnly, updates, bridge, objects, inForce, editing, ghosts>>

-----------------------------------------------------------------------------
\* load_settings_layers and from_yaml: the runtime file over the base file over
\* the environment, blank values counting as absent.
Over(strong, weak) == [f \in Fields |-> IF strong[f] # Blank THEN strong[f] ELSE weak[f]]
Weaker == Over(baseFile, Environment)
Loaded == Over(runtimeFile, Weaker)

Empty == [f \in Fields |-> Blank]
Get == [kind |-> "get", set |-> <<>>, bad |-> FALSE]
Catalogs == {b \in Bodies : DOMAIN b = {"catalog"}}
SettingsRequests ==
  {Get}
  \cup [kind : {"put"}, set : Bodies \ Catalogs, bad : BOOLEAN]
  \cup [kind : {"catalog"}, set : Catalogs, bad : {FALSE}]

Idle == [request |-> [q \in Editors |-> Get], stage |-> [q \in Editors |-> "idle"],
         hand |-> [q \in Editors |-> NoObject], text |-> [q \in Editors |-> Empty]]

\* lifespan: settings are loaded and the bridge is refreshed.
SettingsInit ==
  /\ runtimeFile = Empty /\ baseFile = Shipped /\ readOnly \in BOOLEAN /\ updates = 0
  /\ objects = [o \in Objects |-> IF o = 1 THEN Loaded ELSE Empty] /\ inForce = 1
  /\ bridge = Loaded["browser"]
  /\ request = Idle.request /\ editStage = Idle.stage /\ inHand = Idle.hand /\ text = Idle.text
  /\ accepted = Loaded /\ unsure = {} /\ spoiled = {} /\ bridgeSpoiled = FALSE

-----------------------------------------------------------------------------
\* get_settings: look whether settings are loaded, load them, return what is in
\* force by then, which another request may have reset.
InUse == {inForce} \cup {inHand[q] : q \in Editors}
BeingWritten == \E q \in Editors : editStage[q] = "write"
Saving == \E q \in Editors : editStage[q] \in {"save", "write"}

AskSettings(q, r) ==
  /\ editStage[q] = "idle" /\ (r # Get => updates < MaxUpdates)
  /\ updates' = IF r = Get THEN updates ELSE updates + 1
  /\ request' = [request EXCEPT ![q] = r]
  /\ IF inForce # NoObject
     THEN editStage' = [editStage EXCEPT ![q] = "take"] /\ UNCHANGED <<objects, inHand, spoiled>>
     ELSE LET o == CHOOSE i \in Objects \ InUse : TRUE
          IN  /\ objects' = [objects EXCEPT ![o] = Loaded]
              /\ inHand' = [inHand EXCEPT ![q] = o]
              /\ spoiled' = IF Saving \/ unsure # {} THEN spoiled \cup {o} ELSE spoiled
              /\ editStage' = [editStage EXCEPT ![q] = "assign"]
  /\ UNCHANGED <<files, readOnly, bridge, inForce, text, accepted, unsure, bridgeSpoiled>>

\* An object nobody refers to any more is gone.
Dropped(gone) ==
  /\ objects' = [o \in Objects |-> IF o \in gone THEN Empty ELSE objects[o]]
  /\ spoiled' = spoiled \ gone
OnlyHeldBy(q) == {inHand[q]} \ ({NoObject, inForce} \cup {inHand[e] : e \in Editors \ {q}})

AssignSettings(q) ==
  /\ editStage[q] = "assign"
  /\ inForce' = inHand[q] /\ Dropped({inForce} \ ({inHand[e] : e \in Editors} \cup {NoObject}))
  /\ editStage' = [editStage EXCEPT ![q] = "take"]
  /\ UNCHANGED <<files, readOnly, updates, bridge, request, inHand, text, accepted, unsure, bridgeSpoiled>>

\* The answer is sent.
Answer(q) ==
  /\ editStage' = [editStage EXCEPT ![q] = "idle"]
  /\ inHand' = [inHand EXCEPT ![q] = NoObject]
  /\ request' = [request EXCEPT ![q] = Get] /\ text' = [text EXCEPT ![q] = Empty]

TakeSettings(q) ==
  /\ editStage[q] = "take"
  /\ Dropped(OnlyHeldBy(q))
  /\ IF inForce = NoObject \/ request[q].kind = "get"
     THEN Answer(q)
     ELSE /\ inHand' = [inHand EXCEPT ![q] = inForce]
          /\ editStage' = [editStage EXCEPT ![q] = "edit"]
          /\ UNCHANGED <<request, text>>
  /\ UNCHANGED <<files, readOnly, updates, bridge, inForce, accepted, unsure, bridgeSpoiled>>

-----------------------------------------------------------------------------
\* apply_ui_config_update and get_ui_provider_models change the shared object.
\* A provider nobody knows is refused only after other fields were changed.
With(layer, set) == [f \in Fields |-> IF f \in DOMAIN set THEN set[f] ELSE layer[f]]

Edit(q) ==
  /\ editStage[q] = "edit" /\ ~request[q].bad
  /\ objects' = [objects EXCEPT ![inHand[q]] = With(@, request[q].set)]
  /\ accepted' = With(accepted, request[q].set)
  /\ spoiled' = spoiled \cup (InUse \ {NoObject, inHand[q]})
  /\ editStage' = [editStage EXCEPT ![q] = "save"]
  /\ UNCHANGED <<files, readOnly, updates, bridge, inForce, request, inHand, text, unsure, bridgeSpoiled>>

Refuse(q) ==
  /\ editStage[q] = "edit" /\ request[q].bad
  /\ LET o == inHand[q]
     IN  IF o \in OnlyHeldBy(q)
         THEN Dropped({o})
         ELSE /\ objects' = [objects EXCEPT ![o] = With(@, request[q].set)]
              /\ spoiled' = spoiled \cup {o}
  /\ Answer(q)
  /\ UNCHANGED <<files, readOnly, updates, bridge, inForce, accepted, unsure, bridgeSpoiled>>

\* get_provider_model_catalog: no key, or the provider does not answer.
NoCatalog(q) ==
  /\ editStage[q] = "edit" /\ request[q].kind = "catalog"
  /\ Answer(q) /\ Dropped(OnlyHeldBy(q))
  /\ UNCHANGED <<files, readOnly, updates, bridge, inForce, accepted, unsure, bridgeSpoiled>>

-----------------------------------------------------------------------------
\* save_yaml: the file is emptied, then written.  When the runtime file cannot
\* be opened it is the base file, which gets what is no secret.
EverySetting(layer) == layer   \* mutant of NoSecrets
NoSecrets(layer) == [f \in Fields |-> IF f \in SecretFields THEN Blank ELSE layer[f]]
Saved(layer) ==
  IF readOnly THEN baseFile' = NoSecrets(layer) /\ UNCHANGED runtimeFile
              ELSE runtimeFile' = layer /\ UNCHANGED baseFile

OpenFile(q) ==
  /\ editStage[q] = "save"
  /\ text' = [text EXCEPT ![q] = objects[inHand[q]]]
  /\ Saved(Empty)
  /\ editStage' = [editStage EXCEPT ![q] = "write"]
  /\ UNCHANGED <<readOnly, updates, bridge, objects, inForce, request, inHand, ghosts>>

\* What the base file may not hold or the runtime file shadows is not stored.
Storable == {f \in Fields : ~readOnly \/ (f \notin SecretFields /\ runtimeFile[f] = Blank)}

WriteFile(q) ==
  /\ editStage[q] = "write"
  /\ Saved(text[q])
  /\ unsure' = IF inHand[q] \notin spoiled /\ text[q] = objects[inHand[q]]
               THEN (unsure \cup DOMAIN request[q].set) \ Storable ELSE Fields
  /\ editStage' = [editStage EXCEPT ![q] = IF request[q].kind = "put" THEN "reset" ELSE "over"]
  /\ UNCHANGED <<readOnly, updates, bridge, objects, inForce, request, inHand, text, accepted, spoiled, bridgeSpoiled>>

\* Neither file can be written: the answer says so, the object stays as it is.
SaveFails(q) ==
  /\ editStage[q] = "save"
  /\ unsure' = unsure \cup DOMAIN request[q].set
  /\ editStage' = [editStage EXCEPT ![q] = IF request[q].kind = "put" THEN "bridge" ELSE "over"]
  /\ UNCHANGED <<files, readOnly, updates, bridge, objects, inForce, request, inHand, text, accepted, spoiled, bridgeSpoiled>>

\* reset_settings_cache, then save_browser_runtime_bridge
ResetSettings(q) ==
  /\ editStage[q] = "reset"
  /\ inForce' = NoObject /\ Dropped({inForce} \ ({inHand[e] : e \in Editors} \cup {NoObject}))
  /\ editStage' = [editStage EXCEPT ![q] = "bridge"]
  /\ UNCHANGED <<files, readOnly, updates, bridge, request, inHand, text, accepted, unsure, bridgeSpoiled>>

WriteBridge(q) ==
  /\ editStage[q] = "bridge"
  /\ bridge' = objects[inHand[q]]["browser"] /\ bridgeSpoiled' = (inHand[q] \in spoiled)
  /\ Answer(q) /\ Dropped(OnlyHeldBy(q))
  /\ UNCHANGED <<files, readOnly, updates, inForce, accepted, unsure>>

CatalogSaved(q) ==
  /\ editStage[q] = "over" /\ Answer(q) /\ Dropped(OnlyHeldBy(q))
  /\ UNCHANGED <<files, readOnly, updates, bridge, inForce, accepted, unsure, bridgeSpoiled>>

\* The process dies and starts again; what was being changed may be lost, and
\* everything when the file was open.
Changing == UNION {DOMAIN request[q].set : q \in {e \in Editors : editStage[e] = "save"}}

SettingsRestart ==
  /\ LET lost == IF BeingWritten THEN Fields ELSE unsure \cup Changing
     IN  accepted' = [f \in Fields |-> IF f \in lost THEN Loaded[f] ELSE accepted[f]]
  /\ objects' = [o \in Objects |-> IF o = 1 THEN Loaded ELSE Empty] /\ inForce' = 1
  /\ bridge' = Loaded["browser"] /\ readOnly' \in BOOLEAN
  /\ request' = Idle.request /\ editStage' = Idle.stage /\ inHand' = Idle.hand /\ text' = Idle.text
  /\ unsure' = {} /\ spoiled' = {} /\ bridgeSpoiled' = FALSE
  /\ UNCHANGED <<files, updates>>

SettingsNext ==
  \/ SettingsRestart
  \/ \E q \in Editors :
       \/ \E r \in SettingsRequests : AskSettings(q, r)
       \/ AssignSettings(q) \/ TakeSettings(q) \/ Edit(q) \/ Refuse(q) \/ NoCatalog(q)
       \/ OpenFile(q) \/ WriteFile(q) \/ SaveFails(q)
       \/ ResetSettings(q) \/ WriteBridge(q) \/ CatalogSaved(q)

SettingsSpec == SettingsInit /\ [][SettingsNext]_settingsVars

-----------------------------------------------------------------------------
SettingsQuiet == \A q \in Editors : editStage[q] = "idle"

(* Types; whoever edits, saves or writes the bridge holds an object.        *)
SettingsTypeOK ==
  /\ runtimeFile \in Layer /\ baseFile \in Layer /\ objects \in [Objects -> Layer]
  /\ inForce \in Objects \cup {NoObject} /\ updates \in 0..MaxUpdates
  /\ readOnly \in BOOLEAN /\ bridgeSpoiled \in BOOLEAN
  /\ \A q \in Editors :
       /\ request[q] \in SettingsRequests /\ text[q] \in Layer
       /\ editStage[q] \in {"edit", "save", "write", "reset", "bridge", "over"} => inHand[q] \in Objects
  /\ unsure \subseteq Fields /\ spoiled \subseteq Objects

(* "A stronger layer always wins" (config.py:16): what an operator last set *)
(* is what the next load gives, and what he cleared is what the weaker      *)
(* layers say, through later updates, refreshed catalogues, restarts and    *)
(* saves that fall back to the base file.  The exceptions are a save from   *)
(* an object that is left behind, was changed by a refused request or was   *)
(* loaded from a file being written, a crash while a file is open, a save   *)
(* that fails, and what a fallback cannot store.                            *)
AcceptedLoads ==
  SettingsQuiet =>
    \A f \in Fields \ unsure :
      Loaded[f] = IF accepted[f] = Blank THEN Weaker[f] ELSE accepted[f]

(* What is in force, and what the browser tools read, is then what a        *)
(* restart would load, but for fields that were cleared and not reset, and  *)
(* unless it comes from an object that is left behind.                      *)
InForceIsStored ==
  SettingsQuiet /\ unsure = {} =>
    /\ inForce # NoObject /\ inForce \notin spoiled => Over(objects[inForce], Weaker) = Loaded
    /\ ~bridgeSpoiled => bridge = Loaded["browser"]

(* "Without writing secrets to the base config" (config.py:704).            *)
SecretsKept == \A f \in SecretFields : baseFile[f] = Blank

(* The settings are what operators made them.                               *)
SettingsTrue == SettingsTypeOK /\ AcceptedLoads /\ InForceIsStored /\ SecretsKept
=============================================================================
