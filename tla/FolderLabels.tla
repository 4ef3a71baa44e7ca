----------------------------- MODULE FolderLabels -----------------------------
(***************************************************************************)
(* How the folders of one mailbox become Gmail labels:                     *)
(* _map_and_create_labels and the choice of label_ids in atomic_agents/    *)
(* mailbox_agent.py, ensure_label of connectors/google_client.py, and the  *)
(* folders table of the CheckpointStore, which later runs trust. Two       *)
(* agents may work on the mailbox at once: a run of the Web UI and one of  *)
(* the CLI, or two runs of the Web UI (see MigrationUI).                   *)
(*                                                                         *)
(* The id of a custom label is modelled by its name.                       *)
(***************************************************************************)
EXTENDS Naturals, FiniteSets

CONSTANTS
  Agents,
  Folders,
  Name,        \* the name of each folder, in lower case
  System,      \* the label of the names _translate_system_folder knows
  IdsFit,      \* do the ids that Gmail gives begin with "LABEL_"
  None,
  MaxTroubles, \* bound: errors of Gmail, of the network and of the store
  MaxRuns      \* bound: how often the agents are started, together

Names == {Name[f] : f \in Folders}
Custom == {f \in Folders : Name[f] \notin DOMAIN System}
Accepted == {"INBOX", "SENT", "TRASH", "SPAM", "DRAFT"}

ASSUME NamesAssumption == "INBOX" \notin Names /\ None \notin Agents \union Names \union Accepted
ASSUME IdsAssumption == IdsFit \in BOOLEAN
ASSUME BoundsAssumption == MaxTroubles \in Nat /\ MaxRuns \in Nat

VARIABLES
  gmail,      \* the custom labels: the agent that created each, or None
  row,        \* the folders table
  placed,     \* the labels that messages of each folder were imported with
  pc, dry,
  todo,       \* the folders left to map, the current one included
  folder,
  label,      \* what ensure_label has returned
  map,        \* label_map of the agent
  excused,    \* history: folders whose mapping met an error or another agent
  started,    \* history: the agents that were ever started
  troubles, runs

vars ==
  <<gmail, row, placed, pc, dry, todo, folder, label, map, excused, started, troubles, runs>>
ran == <<started, runs>>

Labels == Names \union Accepted \union {System[n] : n \in DOMAIN System}
At == {"idle", "map", "list", "create", "save", "stream"}
Goto(a, l) == pc' = [pc EXCEPT ![a] = l]
Excuse(a) == excused' = excused \union {folder[a]}

TypeOK ==
  /\ gmail \in [Names -> Agents \union {None}]
  /\ row \in [Folders -> Labels \union {None}]
  /\ placed \in [Folders -> SUBSET (Names \union Accepted)]
  /\ pc \in [Agents -> At]
  /\ dry \in [Agents -> BOOLEAN]
  /\ todo \in [Agents -> SUBSET Folders]
  /\ folder \in [Agents -> Folders]
  /\ label \in [Agents -> Labels]
  /\ map \in [Agents -> [Folders -> Labels \union {None}]]
  /\ excused \subseteq Folders /\ started \subseteq Agents
  /\ troubles \in 0 .. MaxTroubles /\ runs \in 0 .. MaxRuns

Init ==
  /\ gmail = [n \in Names |-> None]
  /\ row = [f \in Folders |-> None]
  /\ placed = [f \in Folders |-> {}]
  /\ pc = [a \in Agents |-> "idle"]
  /\ dry = [a \in Agents |-> FALSE]
  /\ todo = [a \in Agents |-> {}]
  /\ folder = [a \in Agents |-> CHOOSE f \in Folders : TRUE]
  /\ label = [a \in Agents |-> "INBOX"]
  /\ map = [a \in Agents |-> [f \in Folders |-> None]]
  /\ excused = {} /\ started = {} /\ troubles = 0 /\ runs = 0

-----------------------------------------------------------------------------
Start(a) ==
  /\ pc[a] = "idle"
  /\ runs < MaxRuns
  /\ runs' = runs + 1
  /\ started' = started \union {a}
  /\ \E d \in BOOLEAN : dry' = [dry EXCEPT ![a] = d]
  /\ todo' = [todo EXCEPT ![a] = Folders]
  /\ map' = [map EXCEPT ![a] = [f \in Folders |-> None]]
  /\ Goto(a, "map")
  /\ UNCHANGED <<gmail, row, placed, folder, label, excused, troubles>>

\* The process dies, or its run is cancelled.
Stop(a) ==
  /\ pc[a] # "idle"
  /\ Goto(a, "idle")
  /\ UNCHANGED <<gmail, row, placed, dry, todo, folder, label, map, excused, troubles, ran>>

\* label_map[folder] = l, and on to the next folder.
Assign(a, f, l) ==
  /\ map' = [map EXCEPT ![a][f] = l]
  /\ todo' = [todo EXCEPT ![a] = @ \ {f}]
  /\ Goto(a, "map")

\* Mutant: the folders table is not asked.
NotCached(f) == FALSE

Cached(f) == row[f] # None

\* A system folder, a simulated label, a recorded label, or a request.
Map(a) ==
  /\ pc[a] = "map"
  /\ \E f \in todo[a] :
       /\ folder' = [folder EXCEPT ![a] = f]
       /\ \/ /\ f \notin Custom
             /\ Assign(a, f, System[Name[f]])
          \/ /\ f \in Custom /\ dry[a]
             /\ Assign(a, f, Name[f])
          \/ /\ f \in Custom /\ ~dry[a] /\ Cached(f)
             /\ Assign(a, f, row[f])
          \/ /\ f \in Custom /\ ~dry[a] /\ ~Cached(f)
             /\ Goto(a, "list")
             /\ UNCHANGED <<map, todo>>
  /\ UNCHANGED <<gmail, row, placed, dry, label, excused, troubles, ran>>

Mapped(a) ==
  /\ pc[a] = "map"
  /\ todo[a] = {}
  /\ Goto(a, "stream")
  /\ UNCHANGED <<gmail, row, placed, dry, todo, folder, label, map, excused, troubles, ran>>

-----------------------------------------------------------------------------
(* ensure_label *)

name(a) == Name[folder[a]]
Exists(n) == gmail[n] # None
Return(a, l) == label' = [label EXCEPT ![a] = l] /\ Goto(a, "save")

\* Mutant: a label that is there is created again.
NeverFound(n) == FALSE

Found(n) == Exists(n)

\* The label is in the list, or must be created.
List(a) ==
  /\ pc[a] = "list"
  /\ IF Found(name(a))
       THEN Return(a, name(a))
       ELSE Goto(a, "create") /\ UNCHANGED label
  /\ UNCHANGED <<gmail, row, placed, dry, todo, folder, map, excused, troubles, ran>>

Create(a) ==
  /\ pc[a] = "create"
  /\ ~Exists(name(a))
  /\ gmail' = [gmail EXCEPT ![name(a)] = a]
  /\ Return(a, name(a))
  /\ UNCHANGED <<row, placed, dry, todo, folder, map, excused, troubles, ran>>

\* The label is created and the answer lost: _request tries once more.
CreateUnheard(a) ==
  /\ pc[a] = "create"
  /\ ~Exists(name(a))
  /\ troubles < MaxTroubles
  /\ troubles' = troubles + 1
  /\ gmail' = [gmail EXCEPT ![name(a)] = a]
  /\ Excuse(a)
  /\ UNCHANGED <<row, placed, pc, dry, todo, folder, label, map, ran>>

\* Somebody created it since the list was read: 409, a GoogleClientError, which
\* ensure_label answers with INBOX.
CreateConflicts(a) ==
  /\ pc[a] = "create"
  /\ Exists(name(a))
  /\ Return(a, "INBOX")
  /\ excused' = IF gmail[name(a)] = a THEN excused ELSE excused \union {folder[a]}
  /\ UNCHANGED <<gmail, row, placed, dry, todo, folder, map, troubles, ran>>

\* An error of the API is answered with INBOX, an error of the network is raised.
RequestFails(a) ==
  /\ pc[a] \in {"list", "create"}
  /\ troubles < MaxTroubles
  /\ troubles' = troubles + 1
  /\ Excuse(a)
  /\ \/ /\ Return(a, "INBOX")
        /\ UNCHANGED <<map, todo>>
     \/ /\ Assign(a, folder[a], "INBOX")
        /\ UNCHANGED label
  /\ UNCHANGED <<gmail, row, placed, dry, folder, ran>>

-----------------------------------------------------------------------------
\* record_folder_mapping: INSERT OR REPLACE
Save(a) ==
  /\ pc[a] = "save"
  /\ row' = [row EXCEPT ![folder[a]] = label[a]]
  /\ Assign(a, folder[a], label[a])
  /\ UNCHANGED <<gmail, placed, dry, folder, label, excused, troubles, ran>>

\* The store raises: INBOX for this run.
SaveRaises(a) ==
  /\ pc[a] = "save"
  /\ troubles < MaxTroubles
  /\ troubles' = troubles + 1
  /\ Assign(a, folder[a], "INBOX")
  /\ UNCHANGED <<gmail, row, placed, dry, folder, label, excused, ran>>

\* label_ids: other labels than these five must begin with "LABEL_".
Applied(l) == IF l \in Accepted \/ (IdsFit /\ l \in Names) THEN l ELSE "INBOX"

\* The messages of every folder are imported, or simulated.
Stream(a) ==
  /\ pc[a] = "stream"
  /\ placed' = IF dry[a] THEN placed
                         ELSE [f \in Folders |-> placed[f] \union {Applied(map[a][f])}]
  /\ Goto(a, "idle")
  /\ UNCHANGED <<gmail, row, dry, todo, folder, label, map, excused, troubles, ran>>

AgentStep(a) ==
  \/ Start(a) \/ Stop(a) \/ Map(a) \/ Mapped(a)
  \/ List(a) \/ Create(a) \/ CreateUnheard(a) \/ CreateConflicts(a) \/ RequestFails(a)
  \/ Save(a) \/ SaveRaises(a) \/ Stream(a)

Terminated == (\A a \in Agents : pc[a] = "idle") /\ runs = MaxRuns /\ UNCHANGED vars

Next == Terminated \/ \E a \in Agents : AgentStep(a)

Spec == Init /\ [][Next]_vars

-----------------------------------------------------------------------------
(* Properties *)

\* A custom folder is recorded as INBOX, for good, only after an error or when the
\* label was made by another agent: restarts and folders that share a name do not cause it.
InboxExplained == \A f \in Custom : row[f] = "INBOX" => f \in excused

\* As long as one agent alone works on the mailbox, what it has recorded is never
\* recorded again, so that the messages of a folder get the same label in every run.
MappingIsFinal ==
  [][Cardinality(started') <= 1 => \A f \in Folders : row[f] # None => row'[f] = row[f]]_vars

\* "Thread-safe and resilient to interruption": a label that was found and recorded
\* is not replaced by INBOX.
GoodLabelKept == [][\A f \in Custom : row[f] \in Names => row'[f] # "INBOX"]_vars

\* "Maps custom Zoho folders to nested Gmail labels": the messages of a custom folder
\* carry its label, unless an error or another agent came between.
FoldersKeepTheirLabel == \A f \in Custom \ excused : placed[f] \subseteq {Name[f]}
=============================================================================
