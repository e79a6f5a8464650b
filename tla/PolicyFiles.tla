------------------------------ MODULE PolicyFiles ------------------------------
(***************************************************************************)
(* The policy files of policy_dir and the policies in force: edits from    *)
(* the console (proxy/policy_edit.go), edits by hand, and the watcher that *)
(* reloads after a change (policy/watcher.go).                             *)
(*                                                                         *)
(* The console's handler and every reload are goroutines that read all the *)
(* files, then swap the policies, then the limits (applyPolicies in        *)
(* cmd/mesh7/mesh.go).  A set of policies is the text of the files it was  *)
(* read from; the limits are those of such a set.  A text that does not    *)
(* parse, or has no name, is Broken.  People edit MaxByHand times, the     *)
(* console MaxEdits times.                                                 *)
(***************************************************************************)
EXTENDS Decisions, FiniteSets

CONSTANTS
  Tool, Action,
  File,        \* 1 .. n, the files by name
  AgentOf,     \* File -> how well the agent pattern of the policy fits
  Inline,      \* the policies of the configuration file, source 0
  Broken,      \* what a file holds while it does not parse
  Texts,       \* File -> the lists of rules it may start with
  Rewrites,    \* File -> those people put in it later
  Reloader,    \* reload goroutines, a bound on those alive at a time
  Prompt,      \* TRUE: a set read is in force before the next debounce ends
  MaxByHand, MaxEdits

Rule == [tools : SUBSET Tool, cond : BOOLEAN, action : Action, marked : BOOLEAN]
Rules == Seq(Rule)
Fits == {Exact, Partial, CatchAll}
Console == "console" \* the holder of PolicyEditing.mu

ASSUME FileConstants ==
  /\ IsFiniteSet(File) /\ File = 1 .. Cardinality(File)
  /\ Action \subseteq Actions
  /\ AgentOf \in [File -> Fits]
  /\ Inline \in Seq([agent : Fits, source : {0}, rules : Rules])
  /\ \A f \in File : Texts[f] \cup Rewrites[f] \subseteq Rules
  /\ Broken \notin UNION {Texts[f] \cup Rewrites[f] : f \in File}
  /\ Prompt \in BOOLEAN
  /\ Console \notin Reloader
  /\ {MaxByHand, MaxEdits} \subseteq Nat

VARIABLES
  text,    \* File -> its rules, or Broken
  inForce, \* Engine.policies, and
  limits,  \*   Limiter.limits, each as the text they were read from
  due,     \* the watcher's debounce timer runs
  older,   \* the goroutines that read a set before it was last started
  pc,      \* goroutine -> where it is
  held,    \* goroutine -> the text of the set it read
  edit,    \* the console edit under way
  byHand, edits

vars == <<text, inForce, limits, due, older, pc, held, edit, byHand, edits>>

Loader == Reloader \cup {Console}
NoEdit == [file |-> 0, src |-> <<>>, out |-> <<>>]

(* LoadPolicies, in the order of the configuration and then by file name. *)
Loadable(t) == \A f \in File : t[f] # Broken
Policies(t) == Inline \o [f \in File |-> [agent |-> AgentOf[f], source |-> f, rules |-> t[f]]]

Reading == {g \in Loader : pc[g] \in {"apply", "limits"}}
TypeOK ==
  /\ text \in [File -> {Broken} \cup Rules]
  /\ {inForce, limits} \subseteq [File -> Rules]
  /\ due \in BOOLEAN
  /\ older \subseteq Reading
  /\ pc \in [Loader -> {"idle", "write", "load", "apply", "limits"}]
  /\ \A g \in Reloader : pc[g] \notin {"write", "load"}
  /\ held \in [Loader -> [File -> Rules]]
  /\ pc[Console] \in {"write", "load"} =>
       edit.file \in File /\ {edit.src, edit.out} \subseteq Rules
  /\ byHand \in 0 .. MaxByHand /\ edits \in 0 .. MaxEdits

Blank == [f \in File |-> <<>>]
Init ==
  /\ text \in {t \in [File -> UNION {Texts[f] : f \in File}] : \A f \in File : t[f] \in Texts[f]}
  /\ inForce = text /\ limits = text
  /\ due = FALSE /\ older = {}
  /\ pc = [g \in Loader |-> "idle"] /\ held = [g \in Loader |-> Blank]
  /\ edit = NoEdit /\ byHand = 0 /\ edits = 0

-----------------------------------------------------------------------------
(* A file changes: the watcher starts its timer again. *)
Change(f, rules) ==
  /\ text' = [text EXCEPT ![f] = rules]
  /\ due' = TRUE
  /\ older' = Reading

EditByHand(f) ==
  /\ byHand < MaxByHand /\ byHand' = byHand + 1
  /\ \E rules \in Rewrites[f] \cup {Broken} : rules # text[f] /\ Change(f, rules)
  /\ UNCHANGED <<inForce, limits, pc, held, edit, edits>>

-----------------------------------------------------------------------------
(* The watcher. *)

Goto(g, where) == pc' = [pc EXCEPT ![g] = where]

(* A goroutine has applied its set. *)
Idle(g) == /\ Goto(g, "idle") /\ older' = older \ {g} /\ held' = [held EXCEPT ![g] = Blank]

(* The timer fires: reload reads the files, and gives up if it cannot. *)
Fire(g) ==
  /\ due /\ due' = FALSE /\ pc[g] = "idle"
  /\ Prompt => older = {}
  /\ IF Loadable(text)
       THEN Goto(g, "apply") /\ held' = [held EXCEPT ![g] = text]
       ELSE UNCHANGED <<pc, held>>
  /\ UNCHANGED <<text, inForce, limits, older, edit, byHand, edits>>

ApplyPolicies(g) ==
  /\ pc[g] = "apply" /\ Goto(g, "limits")
  /\ inForce' = held[g]
  /\ UNCHANGED <<text, limits, due, older, held, edit, byHand, edits>>

(* Variant: only the policies are taken from a reload. *)
ApplyNoLimits(g) ==
  /\ pc[g] = "limits" /\ Idle(g)
  /\ edit' = IF g = Console THEN NoEdit ELSE edit
  /\ UNCHANGED <<text, inForce, limits, due, byHand, edits>>

ApplyLimits(g) ==
  /\ pc[g] = "limits" /\ Idle(g)
  /\ limits' = held[g]
  /\ edit' = IF g = Console THEN NoEdit ELSE edit
  /\ UNCHANGED <<text, inForce, due, byHand, edits>>

-----------------------------------------------------------------------------
(* The console. *)

(* The file to edit, and the deciding rule if it is one of it (0: no). *)
Place(policies, tool) ==
  LET d == Explain(policies, tool).decided
      own == {p \in DOMAIN policies : policies[p].agent = Exact /\ policies[p].source # 0}
  IN IF d.source # 0 /\ d.agent = Exact THEN [file |-> d.source, at |-> d.at]
     ELSE [file |-> IF own = {} THEN 0 ELSE policies[Min(own)].source, at |-> 0]

(* Variant: the new rule always goes last. *)
EditedLast(rules, tool, action, at) ==
  IF action = "inherit" THEN RemoveConsoleRule(rules, tool)
  ELSE LET exact == ExactRule(rules, tool) IN
       IF exact # 0 THEN SetAction(rules, exact, action)
       ELSE InsertRule(rules, tool, action, 0)

(* Variant: the deciding rule is changed in place. *)
EditedInPlace(rules, tool, action, at) ==
  IF action = "inherit" THEN RemoveConsoleRule(rules, tool)
  ELSE IF at # 0 THEN SetAction(rules, at, action) ELSE InsertRule(rules, tool, action, 0)

(* The rules after the edit. *)
Edited(rules, tool, action, at) ==
  IF action = "inherit" THEN RemoveConsoleRule(rules, tool)
  ELSE LET exact == ExactRule(rules, tool) IN
       IF exact # 0 /\ (at = 0 \/ exact <= at) THEN SetAction(rules, exact, action)
       ELSE InsertRule(rules, tool, action, at)

(* No file of this agent, one that does not parse, nothing to remove, or   *)
(* an empty list, in which no rule can be placed.                          *)
Refused(place, rules, tool, action) ==
  \/ place.file = 0 \/ rules = Broken
  \/ action = "inherit" /\ ConsoleRule(rules, tool) = 0
  \/ action # "inherit" /\ rules = <<>>

(* handlePolicyEdit up to the backup: what is in force gives the place,    *)
(* the file the text.                                                      *)
EditRead(tool, action) ==
  LET place == Place(Policies(inForce), tool)
      rules == IF place.file = 0 THEN <<>> ELSE text[place.file]
  IN
  /\ edits < MaxEdits /\ edits' = edits + 1
  /\ pc[Console] = "idle"
  /\ ~Refused(place, rules, tool, action)
  /\ edit' = [file |-> place.file, src |-> rules,
              out |-> Edited(rules, tool, action, place.at)]
  /\ Goto(Console, "write")
  /\ UNCHANGED <<text, inForce, limits, due, older, held, byHand>>

(* writeAtomic, or a failure that leaves the file as it was. *)
EditWrite ==
  /\ pc[Console] = "write"
  /\ \/ Change(edit.file, edit.out) /\ Goto(Console, "load") /\ UNCHANGED edit
     \/ Goto(Console, "idle") /\ edit' = NoEdit /\ UNCHANGED <<text, due, older>>
  /\ UNCHANGED <<inForce, limits, held, byHand, edits>>

(* Every policy is read again; if that fails the file gets its old text.   *)
EditLoad ==
  /\ pc[Console] = "load"
  /\ IF Loadable(text)
       THEN /\ Goto(Console, "apply") /\ held' = [held EXCEPT ![Console] = text]
            /\ UNCHANGED <<text, due, older, edit>>
       ELSE /\ Change(edit.file, edit.src)
            /\ Goto(Console, "idle") /\ edit' = NoEdit /\ UNCHANGED held
  /\ UNCHANGED <<inForce, limits, byHand, edits>>

-----------------------------------------------------------------------------
Reload(g) == Fire(g) \/ ApplyPolicies(g) \/ ApplyLimits(g)
Editing == EditWrite \/ EditLoad \/ ApplyPolicies(Console) \/ ApplyLimits(Console)

Next ==
  \/ \E f \in File : EditByHand(f)
  \/ \E g \in Reloader : Reload(g)
  \/ \E tool \in Tool, action \in Action \cup {"inherit"} : EditRead(tool, action)
  \/ Editing

Spec == Init /\ [][Next]_vars

(* The timer fires, goroutines run to their end; nobody has to edit. *)
FairSpec == Spec /\ WF_vars(Editing) /\ \A g \in Reloader : WF_vars(Reload(g))

-----------------------------------------------------------------------------
(* Properties. *)

Quiet == \A g \in Loader : pc[g] = "idle"
Settled == inForce = text /\ Quiet

(* What the files hold once the console has carried out an edit alone.     *)
After(place, tool, action) ==
  [text EXCEPT ![place.file] = Edited(@, tool, action, place.at)]
Accepted(place, tool, action) ==
  place.file # 0 /\ ~Refused(place, text[place.file], tool, action)

Conditions(t) == UNION {{f} \X {i \in DOMAIN t[f] : t[f][i].cond} : f \in File}

(* Once what is in force is what the files hold, an edit from the console  *)
(* decides: the tool gets the action asked for whenever no condition       *)
(* holds, and the conditional rules above it in its file keep their say.   *)
EditDecides ==
  Settled => \A tool \in Tool, action \in Action :
    LET place == Place(Policies(text), tool)
        after == After(place, tool, action)
        Say(t, met) == Evaluate(Policies(t), tool, met)
    IN Accepted(place, tool, action) =>
         /\ Say(after, {}).action = action
         /\ \A met \in SUBSET Conditions(text) :
              LET was == Say(text, met) IN
              <<was.source, was.at>> \in met /\ was.source = place.file =>
                Say(after, met) = was

(* Two sets of policies tell the same of a tool: rule for rule the same    *)
(* policy and action, in the same order, though a rule may have moved.     *)
Shown(d) == [action |-> d.action, source |-> d.source, agent |-> d.agent]
SameTold(p, q, tool) ==
  LET was == Explain(p, tool)
      is == Explain(q, tool)
  IN /\ Shown(is.decided) = Shown(was.decided)
     /\ \E moved \in Bijection(DOMAIN was.conditional, DOMAIN is.conditional) :
          \A x, y \in DOMAIN was.conditional :
            /\ Shown(is.conditional[moved[x]]) = Shown(was.conditional[x])
            /\ Before(p, x, y) => Before(q, moved[x], moved[y])

(* It disturbs no other tool: whatever conditions hold, the others are     *)
(* decided by the same policy with the same action.                        *)
OthersUndisturbed ==
  Settled => \A tool \in Tool, action \in Action \cup {"inherit"} :
    LET place == Place(Policies(text), tool)
        after == After(place, tool, action)
    IN Accepted(place, tool, action) =>
         \A other \in Tool \ {tool} : SameTold(Policies(text), Policies(after), other)

(* Once nobody edits any more, policies and limits are those of the files, *)
(* if these can be read at all: no late reload has the last word.          *)
FilesWin == <>[](Loadable(text) => inForce = text /\ limits = text)

(* The rows of GET /tools/decisions are what calls get, whatever set came  *)
(* into force: where no condition of the row holds the call has its action *)
(* and its rule, else the action of the first one that holds; floors and   *)
(* pins included.  (This and the next are asked between two reloads, where *)
(* every set that comes into force is met.)                                *)
StaticTellsCalls ==
  Quiet => LET policies == Policies(inForce) IN
    \A name \in Tool, tool \in FlooredTools :
      LET row == ToolDecision(policies, name, tool) IN
      \A met \in SUBSET Conditions(inForce) :
        LET call == Decision(policies, name, tool, met)
            hold == {x \in DOMAIN row.conditional :
                       <<row.conditional[x].source, row.conditional[x].at>> \in met}
        IN IF hold = {} THEN call = row.decided
           ELSE call.action = row.conditional[First(policies, hold)].action

(* Hiding a tool loses nothing: no call of one that tools/list hides is    *)
(* served or held for a person, whatever its arguments, grants and past    *)
(* decisions, over MCP or HTTP.                                            *)
HiddenIsUncallable ==
  Quiet => LET policies == Policies(inForce) IN
    \A name \in Tool, tool \in FlooredTools :
      DeniedOnly(policies, name, tool) =>
        \A met \in SUBSET Conditions(inForce), granted, remembered \in BOOLEAN :
          /\ HTTPDecision(policies, name, tool, met, granted, remembered).action = "deny"
          /\ MCPDecision(policies, name, tool, met, remembered).action = "deny"

(* The same for every name a tool answers to: the dispatcher takes those   *)
(* of all undeclared subcommands (ResolveCLI), and the policy sees these.  *)
HiddenDispatcherIsUncallable ==
  LET policies == Policies(inForce) IN
  \A listed, name \in Tool, tool \in FlooredTools :
    tool.dispatch # "" /\ DeniedOnly(policies, listed, tool) =>
      \A met \in SUBSET Conditions(inForce) :
        MCPDecision(policies, name, tool, met, FALSE).action = "deny"

(* The same at the moment of an edit from the console, settled or not: the *)
(* set it applies gives the tool the action asked for.                     *)
EditDecidesAtOnce ==
  \A tool \in Tool, action \in Action :
    LET place == Place(Policies(inForce), tool) IN
    Accepted(place, tool, action) /\ Loadable(text) =>
      Evaluate(Policies(After(place, tool, action)), tool, {}).action = action

(* The console writes over nothing it has not read.                        *)
HandEditsSurvive ==
  [][EditWrite /\ text' # text => text[edit.file] = edit.src]_vars
=============================================================================
