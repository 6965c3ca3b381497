----------------------------- MODULE AgentTasks -----------------------------
(***************************************************************************)
(* The agent task of one conversation (task_manager.rs): a map from        *)
(* conversations to initialise-once cells, and the agent a cell comes to   *)
(* hold.  Callers that find no agent share the cell; whoever reaches an    *)
(* empty cell first builds the agent, the others wait for it.  A kill      *)
(* takes the cell out of the map at once, whether or not it holds an agent *)
(* yet.                                                                    *)
(*                                                                         *)
(* The map's operations on one conversation touch no other, so one         *)
(* conversation is modelled.  Its agent is of one kind.  An ACP manager is *)
(* ended by a kill, its process and, with it, the stream of the turn that  *)
(* uses it.  A session of claude or codex, or of Antigravity, is ended by  *)
(* the kills of a cancellation's watchdog and of a restart only, and left  *)
(* by any other to whoever holds it.  An Aionrs agent is asked to stop,    *)
(* and ends its prompt by itself if the request finds it waiting.          *)
(***************************************************************************)
EXTENDS Naturals

CONSTANTS
  MaxCells,   \* cells alive at one time; one nobody can reach is reused
  Agents      \* kinds of agents a conversation may have

AgentKinds == {"Acp", "Session", "Antigravity", "Aionrs"}

ASSUME AgentTasksAssumption == MaxCells \in Nat \ {0} /\ Agents \subseteq AgentKinds

Cells  == 1..MaxCells
NoCell == 0

\* "finished" is a kill that ended the stream cleanly, "dead" one that ended it in an error.
Built      == {"live", "finished", "dead"}
CellStates == {"unused", "empty", "building"} \cup Built
Endings    == {"finished", "dead"}

VARIABLES
  agent,    \* the kind of this conversation's agent, for good
  slot,     \* the cell the map holds for the conversation, or NoCell
  cell,     \* [cell -> its initialisation, and how its agent fares]
  reaping,  \* [cell -> how a kill that waits for its initialisation will end it]
  strays    \* history: cells a kill took out of the map without ending their agent, now or later

tvars == <<agent, slot, cell, reaping, strays>>

NotReaped == "no"
HasAgent(c) == cell[c] \in Built
Reaped(c)   == reaping[c] # NotReaped

TasksTypeOK ==
  /\ agent \in AgentKinds
  /\ slot \in Cells \cup {NoCell}
  /\ cell \in [Cells -> CellStates]
  /\ reaping \in [Cells -> Endings \cup {NotReaped}]
  /\ strays \subseteq Cells

TasksInit ==
  /\ agent \in Agents
  /\ slot = NoCell /\ cell = [c \in Cells |-> "unused"]
  /\ reaping = [c \in Cells |-> NotReaped] /\ strays = {}

\* get_task: an agent whose cell is still being initialised is not found.
Found == slot # NoCell /\ HasAgent(slot)

\* A cell outside the map that nobody holds is gone, its process with it (kill_on_drop).
Reusable(c, held) == c # slot /\ c \notin held /\ ~Reaped(c)

\* The entry of get_or_build_task: the caller shares the cell of the map, or leaves an empty one there.
Seat(c, held) ==
  IF slot # NoCell THEN c = slot /\ UNCHANGED tvars
  ELSE /\ Reusable(c, held) /\ \A d \in Cells : Reusable(d, held) => c <= d
       /\ slot' = c /\ cell' = [cell EXCEPT ![c] = "empty"]
       /\ strays' = strays \ {c} /\ UNCHANGED <<agent, reaping>>

BeginInit(c) ==
  /\ cell[c] = "empty"
  /\ cell' = [cell EXCEPT ![c] = "building"] /\ UNCHANGED <<agent, slot, reaping, strays>>

\* A failed initialisation leaves the cell empty for the next caller.
EndInit(c, ok) ==
  /\ cell[c] = "building"
  /\ cell' = [cell EXCEPT ![c] = IF ok THEN "live" ELSE "empty"]
  /\ UNCHANGED <<agent, slot, reaping, strays>>

\* Whether a kill ends an agent: Session and Antigravity share a manager, which looks at the reason.
Ends(how) == agent = "Acp" \/ (agent # "Aionrs" /\ how = "finished")

\* The agent of cell c meets a kill.
EndAgent(c, how) ==
  /\ cell' = IF Ends(how) THEN [cell EXCEPT ![c] = how] ELSE cell
  /\ strays' = IF Ends(how) THEN strays ELSE strays \cup {c}

\* kill: a cell without an agent is forgotten, though an initialisation may be under way.
Kill(how) ==
  IF slot = NoCell THEN UNCHANGED tvars
  ELSE /\ slot' = NoCell /\ UNCHANGED <<agent, reaping>>
       /\ IF HasAgent(slot) THEN EndAgent(slot, how)
          ELSE strays' = strays \cup {slot} /\ UNCHANGED cell

\* Mutant: kill_and_wait that waits for agents only, not for one being built.
KillAndLeave(how) ==
  IF slot = NoCell THEN UNCHANGED tvars
  ELSE /\ slot' = NoCell /\ UNCHANGED <<agent, reaping>>
       /\ IF HasAgent(slot) THEN EndAgent(slot, how) ELSE UNCHANGED <<cell, strays>>

\* kill_and_wait: the kill of a cell without an agent outlives the call that removed it.
KillAndWait(how) ==
  IF slot = NoCell THEN UNCHANGED tvars
  ELSE /\ slot' = NoCell /\ UNCHANGED agent
       /\ IF HasAgent(slot) THEN EndAgent(slot, how) /\ UNCHANGED reaping
          ELSE reaping' = [reaping EXCEPT ![slot] = how] /\ UNCHANGED <<cell, strays>>

\* The cell a caller of KillAndWait waits for.
Awaited == IF slot # NoCell /\ ~HasAgent(slot) THEN slot ELSE NoCell

\* The waiting kill gets its turn on the cell: an agent is killed, an empty cell is given up.
Reap(c) ==
  /\ Reaped(c) /\ cell[c] # "building"
  /\ IF HasAgent(c) THEN EndAgent(c, reaping[c]) ELSE strays' = strays \cup {c} /\ UNCHANGED cell
  /\ reaping' = [reaping EXCEPT ![c] = NotReaped]
  /\ UNCHANGED <<agent, slot>>
=============================================================================
