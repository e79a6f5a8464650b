--------------------------- MODULE ApprovalSettings ---------------------------
(***************************************************************************)
(* The approval settings an operator changes at runtime                    *)
(* (proxy/approval_settings.go): PUT /approvals/settings rewrites the      *)
(* values that differ from those in force in the configuration file        *)
(* (config/edit.go), reads the whole file back, and either applies what    *)
(* was asked or restores the file.  People edit the file too.              *)
(*                                                                         *)
(* The file is [set, loads]: the values it gives these settings, defaults  *)
(* included, and whether the whole of it loads.  The approval timeout and  *)
(* the wait are two more values treated like min, and left out.            *)
(***************************************************************************)
EXTENDS Naturals

CONSTANTS
  Memory,     \* memory.url is set
  Thresholds, \* min_approvals may be any of these
  Choices,    \* the settings that people ask for, or write by hand
  MaxPuts, MaxByHand

Settings == [auto : BOOLEAN, writes : BOOLEAN, min : Thresholds]

ASSUME SettingsConstants ==
  /\ Memory \in BOOLEAN
  /\ Thresholds \subseteq Nat \ {0}
  /\ Choices \subseteq Settings
  /\ {MaxPuts, MaxByHand} \subseteq Nat

VARIABLES
  settings, \* Store.settings, the reader's min with them
  file,     \* the configuration file
  put,      \* the PUT that holds the lock, NoPut without
  puts, byHand,
  own       \* the last to write the file, or to find it good, was a PUT

filed == <<file, put, puts, byHand, own>>
settingsVars == <<settings, filed>>

File == [set : Settings, loads : BOOLEAN]
NoPut == [at |-> "none"]
Put == [at : {"write", "check"}, next : Settings, src : File, out : File]

SettingsTypeOK ==
  /\ settings \in Settings /\ file \in File /\ put \in Put \cup {NoPut}
  /\ puts \in 0 .. MaxPuts /\ byHand \in 0 .. MaxByHand /\ own \in BOOLEAN

(* What a start puts in force: nothing is approved from precedents without *)
(* a memory to find them in.                                               *)
AtStart(f) == [f.set EXCEPT !.auto = @ /\ Memory]

SettingsInit ==
  /\ file \in [set : Choices, loads : {TRUE}] /\ settings = AtStart(file)
  /\ put = NoPut /\ puts = 0 /\ byHand = 0 /\ own = TRUE

-----------------------------------------------------------------------------
(* SetScalars, of the values that are not already in force. *)
SetScalars(f, before, next) ==
  [f EXCEPT !.set = [key \in DOMAIN before |-> IF next[key] # before[key] THEN next[key] ELSE @[key]]]

(* handlePutApprovalSettings up to the new text.  An edit that changes     *)
(* nothing, or asks for precedents without a memory, ends here; so may any *)
(* whose file cannot be read or edited.                                    *)
PutRead ==
  /\ put = NoPut /\ puts < MaxPuts /\ puts' = puts + 1
  /\ \E next \in Choices :
       /\ next.auto => Memory
       /\ next # settings
       /\ put' = [at |-> "write", next |-> next, src |-> file, out |-> SetScalars(file, settings, next)]
  /\ UNCHANGED <<settings, file, byHand, own>>

(* The backup and writeAtomic: either may fail and leaves the file alone.  *)
PutWrite ==
  /\ put.at = "write"
  /\ \/ file' = put.out /\ put' = [put EXCEPT !.at = "check"]
     \/ put' = NoPut /\ UNCHANGED file
  /\ UNCHANGED <<settings, puts, byHand, own>>

(* Variant: any file that loads will do. *)
PutCheckLoads ==
  /\ put.at = "check" /\ put' = NoPut
  /\ IF file.loads
       THEN settings' = put.next /\ own' = TRUE /\ UNCHANGED file
       ELSE file' \in {put.src, file} /\ UNCHANGED <<settings, own>>
  /\ UNCHANGED <<puts, byHand>>

(* config.Load and the comparison, then Store.Apply, or the old text again *)
(* if that can be written.                                                 *)
PutCheck ==
  /\ put.at = "check" /\ put' = NoPut
  /\ IF file.loads /\ file.set = put.next
       THEN settings' = put.next /\ own' = TRUE /\ UNCHANGED file
       ELSE file' \in {put.src, file} /\ UNCHANGED <<settings, own>>
  /\ UNCHANGED <<puts, byHand>>

(* People save other values, or a file that does not load: nothing reads   *)
(* it before the next start or PUT.                                        *)
HandEdit ==
  /\ byHand < MaxByHand /\ byHand' = byHand + 1
  /\ file' \in {f \in [set : Choices, loads : BOOLEAN] : f # file}
  /\ own' = FALSE
  /\ UNCHANGED <<settings, put, puts>>

SettingsNext == PutRead \/ PutWrite \/ PutCheck \/ HandEdit
SettingsSpec == SettingsInit /\ [][SettingsNext]_settingsVars

-----------------------------------------------------------------------------
(* Properties. *)

(* A change that was accepted survives a restart: from then, and as long   *)
(* as nobody edits the file by hand, the file gives what is in force,      *)
(* hand edits before or during the change included.                        *)
SettingsSurviveRestart ==
  own /\ put = NoPut => file.loads /\ AtStart(file) = settings

(* The settings can be changed: a valid change of a file nobody else wrote *)
(* is accepted, never sent back as one that does not read as requested.    *)
ChangesAreAccepted ==
  own /\ put.at = "check" => file.loads /\ file.set = put.next

-----------------------------------------------------------------------------
(* The inductive invariant behind SettingsSurviveRestart                   *)
(* (PrecedentsProofs): where a PUT stands, as long as nobody but it has    *)
(* written the file.                                                       *)

GivesWhatIsInForce(f) == f.loads /\ AtStart(f) = settings

PutHolds ==
  own /\ put # NoPut =>
    /\ GivesWhatIsInForce(put.src)
    /\ put.out.loads /\ put.out.set = put.next
    /\ file = IF put.at = "write" THEN put.src ELSE put.out

SettingsIInv ==
  /\ SettingsTypeOK
  /\ put # NoPut => (put.next.auto => Memory)
  /\ SettingsSurviveRestart
  /\ PutHolds
=============================================================================
