------------------------------ MODULE ToolGate ------------------------------
(***************************************************************************)
(* What stands between an agent's tool calls and a project's files: the    *)
(* hooks, the fence around paths, the sandbox of shell commands and the    *)
(* callback asked last (server/agent_runtime/session_manager.py).  JSON    *)
(* that the server keeps for itself may not be touched; other JSON may be  *)
(* written, is tried out before a call and checked after it, and is put    *)
(* back from a copy when the call has broken it.                           *)
(*                                                                         *)
(* The tools run in the SDK's process, shell commands in their own, saves  *)
(* of the server in its threads: between a hook and the tool, and between  *)
(* the check after it and the repair, anyone may write.                    *)
(***************************************************************************)
EXTENDS Naturals

CONSTANTS ToolCalls, NoText, MaxSaves, MaxToolFaults

ASSUME GateAssumption ==
    /\ {MaxSaves, MaxToolFaults} \subseteq Nat /\ "server" \notin ToolCalls
    /\ \A has \in SUBSET (ToolCalls \cup 1..MaxSaves) :
         has # NoText /\ \A whole \in BOOLEAN : [whole |-> whole, has |-> has] # NoText

\* Where a path leads: the ledger of versions (JSON of the project that is not
\* guarded), an episode's script (guarded), a program in the project, and so on.
Json == {"ledger", "script"}
Guarded == {"script"}
Inside == Json \cup {"code"}
OpenToRead == Inside \cup {"projects_root_file", "reference", "tool_results"}
Places == OpenToRead \cup {"sibling_project", "sensitive", "host"}

\* A path says where it leads, unless it is a link; a link's own name need not
\* be one of JSON ("notes").
Straight == {[says |-> p, leads |-> p] : p \in Places}
Links ==
    {[says |-> "alias", leads |-> "script"], [says |-> "script", leads |-> "ledger"]}
    \cup [says: {"notes"}, leads: Json]
NamesJson == Json \cup {"alias"}

PathTools == {"Read", "Write", "Edit"}
WriteTools == {"Write", "Edit"}
BashTools == {"Bash", "BashOutput"}

\* A call of a tool.  An edit names old text that is in the file, that differs
\* from it in what the tool overlooks, or that is empty; what is written leaves
\* the file as whole as it was, breaks it, breaks it with curly quotes or mends it.
ToolRequests ==
    [tool: {"Read"}, name: Straight]
    \cup [tool: {"Write"}, name: Straight \cup Links, old: {"all"}, effect: {"sound", "breaks"}]
    \cup [tool: {"Edit"}, name: Straight \cup Links, old: {"found", "loose"}, effect: {"sound", "breaks", "curly", "mends"}]
    \cup [tool: {"Edit"}, name: Straight \cup Links, old: {"blank"}, effect: {"sound", "breaks"}]
    \cup [tool: {"Bash"}, command: {"skill", "any"}]
    \cup [tool: {"BashOutput", "WebFetch"}]

VARIABLES
    sandboxed,  \* can this platform run commands in the SDK's sandbox?
    json,       \* for each JSON file NoText, or [whole, has]: whose writing is in it
    use,       \* a call: how far it is, what it asks, the copy taken for it, its verdict
    saver,      \* for each JSON file what a save of the server under way has read
    saves,      \* how often the server has saved the file
    toolFaults,
    before,     \* ghost: what the file was right before the call's tool wrote
    disturbed,  \* ghost: calls while which someone else wrote to their file
    unlucky     \* ghost: calls the repair of which failed

gateVars == <<sandboxed, json, use, saver, saves, toolFaults, before, disturbed, unlucky>>

Text(whole, has) == [whole |-> whole, has |-> has]
NewCall == [at |-> "new", asks |-> [tool |-> "none"], copy |-> NoText, verdict |-> "none"]

GateInit ==
    /\ sandboxed \in BOOLEAN
    /\ \E kept \in {NoText, Text(TRUE, {})} : json = [f \in Json |-> IF f \in Guarded THEN Text(TRUE, {}) ELSE kept]
    /\ use = [c \in ToolCalls |-> NewCall]
    /\ saver = [f \in Json |-> NoText]
    /\ saves = [f \in Json |-> 0]
    /\ toolFaults = 0
    /\ before = [c \in ToolCalls |-> NoText]
    /\ disturbed = {}
    /\ unlucky = {}

-----------------------------------------------------------------------------
(* What a call may do                                                      *)

IsSensitive(n) == n.leads = "sensitive"
ReadAllowed(n) == n.leads \in OpenToRead

\* What the path says counts as much as where it leads.
IsProtected(n) == n.leads \in Guarded \/ n.says \in Guarded
WriteAllowed(n) == n.leads \in Inside /\ ~IsProtected(n) /\ n.leads # "code"
PathAllowed(tool, n) ==
    ~IsSensitive(n) /\ (IF tool \in WriteTools THEN WriteAllowed(n) ELSE ReadAllowed(n))

\* Without a sandbox the shell's tools lose their standing permission.
AllowedTools ==
    PathTools \cup {"mcp__arcreel"} \cup (IF sandboxed THEN BashTools ELSE {})

\* In the sandbox a command is wrapped to lose the keys in its environment; out
\* of it the list of permitted commands sees the command as it was asked.
Arrives(command) == IF sandboxed THEN "wrapped" ELSE command
Whitelisted(command) == command = "skill"

\* The callback asked last.
CanUseTool(r) ==
    CASE r.tool = "Bash" -> ~sandboxed /\ Whitelisted(Arrives(r.command))
      [] r.tool = "BashOutput" -> ~sandboxed
      [] OTHER -> FALSE

\* What the sandbox lets a command write.
DeniedWrites == IF sandboxed THEN Guarded ELSE {}

-----------------------------------------------------------------------------
(* The hook before a call                                                 *)

Breaking == {"breaks", "curly"}
After(text, effect) ==
    CASE effect \in Breaking -> FALSE
      [] effect = "mends" -> TRUE
      [] OTHER -> text.whole

\* By the name the call gives, not by where it leads.
ChecksJson(r) == r.tool \in WriteTools /\ r.name.says \in NamesJson
Current(r) == json[r.name.leads]

\* The hook plays the call through on the file as it is now, if it can.
HookRefuses(r) ==
    /\ ChecksJson(r)
    /\ IF r.tool = "Write" THEN r.effect # "sound"
       ELSE /\ r.old # "blank"
            /\ \/ r.effect = "curly"
               \/ r.old = "found" /\ Current(r) # NoText /\ ~After(Current(r), r.effect)

\* Bug: the copy is taken only once the old text was found.
CopyWhenFound(r) ==
    IF ChecksJson(r) /\ r.tool = "Edit" /\ r.old = "found" THEN Current(r) ELSE NoText

\* A copy is taken of the file an edit names, whether or not the old text is found.
CopyOf(r) ==
    IF ChecksJson(r) /\ r.tool = "Edit" /\ r.old # "blank" THEN Current(r) ELSE NoText

Permitted(r) ==
    /\ r.tool \in PathTools => PathAllowed(r.tool, r.name) /\ ~HookRefuses(r)
    /\ r.tool \in AllowedTools \/ CanUseTool(r)

AskTool(c) ==
    \E r \in ToolRequests :
        /\ use[c].at = "new"
        /\ use' = [use EXCEPT ![c] =
              IF Permitted(r)
              THEN [at |-> "running", asks |-> r, verdict |-> "none",
                    copy |-> IF r.tool = "Edit" THEN CopyOf(r) ELSE NoText]
              ELSE [NewCall EXCEPT !.at = "done", !.verdict = "denied"]]
        /\ UNCHANGED <<sandboxed, json, saver, saves, toolFaults, before, disturbed, unlucky>>

-----------------------------------------------------------------------------
(* The tools, in the SDK's process                                         *)

OpenOn(f) ==
    {c \in ToolCalls : /\ use[c].at \in {"running", "ran", "checked"}
                       /\ use[c].asks.tool \in WriteTools
                       /\ use[c].asks.name.leads = f}
Lands(f, text, by) ==
    /\ json' = [json EXCEPT ![f] = text]
    /\ disturbed' = disturbed \cup (OpenOn(f) \ {by})

ToolWrites(c) ==
    LET r == use[c].asks
        f == r.name.leads
    IN  /\ use[c].at = "running" /\ r.tool \in WriteTools
        /\ \/ /\ r.old = "all" \/ (r.old = "blank" /\ json[f] = NoText)
              /\ Lands(f, Text(r.effect \notin Breaking, {c}), c)
           \/ /\ r.old \in {"found", "loose"} /\ json[f] # NoText
              /\ \E whole \in (IF c \in disturbed THEN BOOLEAN ELSE {After(json[f], r.effect)}) :
                    Lands(f, Text(whole, json[f].has \cup {c}), c)
        /\ before' = [before EXCEPT ![c] = json[f]]
        /\ use' = [use EXCEPT ![c].at = "ran"]
        /\ UNCHANGED <<sandboxed, saver, saves, toolFaults, unlucky>>

\* A command writes what the sandbox lets it; without one the scripts and
\* ffmpeg are left, which touch no JSON.
CommandRuns(c) ==
    /\ use[c].at = "running" /\ use[c].asks.tool = "Bash"
    /\ \/ /\ sandboxed
          /\ \E f \in Json \ DeniedWrites, whole \in BOOLEAN : Lands(f, Text(whole, {c}), c)
       \/ UNCHANGED <<json, disturbed>>
    /\ use' = [use EXCEPT ![c].at = "done"]
    /\ UNCHANGED <<sandboxed, saver, saves, toolFaults, before, unlucky>>

\* A tool reads, or fails on its own; no hook follows a failed edit.
ToolDoesNotWrite(c) ==
    /\ use[c].at = "running" /\ use[c].asks.tool # "Bash"
    /\ use' = [use EXCEPT ![c] = [NewCall EXCEPT !.at = "done"]]
    /\ UNCHANGED <<sandboxed, json, saver, saves, toolFaults, before, disturbed, unlucky>>

\* The turn is interrupted, or the client goes away, before the call's hook.
UseIsCut(c) ==
    /\ use[c].at = "ran"
    /\ use' = [use EXCEPT ![c].at = "cut"]
    /\ UNCHANGED <<sandboxed, json, saver, saves, toolFaults, before, disturbed, unlucky>>

-----------------------------------------------------------------------------
(* The hook after a call                                                  *)

PostCheck(c) ==
    LET r == use[c].asks
        fine == ~ChecksJson(r) \/ Current(r).whole
    IN  /\ use[c].at = "ran"
        /\ use' = [use EXCEPT ![c].at = IF fine \/ use[c].copy = NoText THEN "done" ELSE "checked",
                                ![c].verdict = IF fine THEN "fine" ELSE IF use[c].copy = NoText THEN "damaged" ELSE @]
        /\ UNCHANGED <<sandboxed, json, saver, saves, toolFaults, before, disturbed, unlucky>>

PutBack(c) ==
    /\ use[c].at = "checked"
    /\ Lands(use[c].asks.name.leads, use[c].copy, c)
    /\ use' = [use EXCEPT ![c].at = "done", ![c].verdict = "restored"]
    /\ UNCHANGED <<sandboxed, saver, saves, toolFaults, before, unlucky>>

PutBackFails(c) ==
    /\ use[c].at = "checked" /\ toolFaults < MaxToolFaults
    /\ use' = [use EXCEPT ![c].at = "done", ![c].verdict = "damaged"]
    /\ toolFaults' = toolFaults + 1
    /\ unlucky' = unlucky \cup {c}
    /\ UNCHANGED <<sandboxed, json, saver, saves, before, disturbed>>

-----------------------------------------------------------------------------
(* Saves of the server: read under the file's lock, changed, written whole *)

SaverReads(f) ==
    /\ saver[f] = NoText /\ saves[f] < MaxSaves
    /\ json[f] # NoText => json[f].whole
    /\ saver' = [saver EXCEPT ![f] = IF json[f] = NoText THEN {} ELSE json[f].has]
    /\ UNCHANGED <<sandboxed, json, use, saves, toolFaults, before, disturbed, unlucky>>

SaverWrites(f) ==
    /\ saver[f] # NoText
    /\ saves' = [saves EXCEPT ![f] = @ + 1]
    /\ Lands(f, Text(TRUE, saver[f] \cup {saves'[f]}), "server")
    /\ saver' = [saver EXCEPT ![f] = NoText]
    /\ UNCHANGED <<sandboxed, use, toolFaults, before, unlucky>>

GateNext ==
    \/ \E c \in ToolCalls :
        AskTool(c) \/ ToolWrites(c) \/ CommandRuns(c) \/ ToolDoesNotWrite(c) \/ UseIsCut(c)
            \/ PostCheck(c) \/ PutBack(c) \/ PutBackFails(c)
    \/ \E f \in Json : SaverReads(f) \/ SaverWrites(f)

GateSpec == GateInit /\ [][GateNext]_gateVars

-----------------------------------------------------------------------------
\* Why a file may lie broken: a command did it, or a call whose hook is still
\* to come, was cut off, shared the file with another writer, made a new file,
\* reached it by a link whose own name is not JSON's, so that no hook looked, or
\* was told that its copy could not be put back.
AnswersFor(c, f) ==
    LET r == use[c].asks
    IN  \/ r.tool = "Bash"
        \/ /\ r.tool \in WriteTools /\ r.name.leads = f
           /\ \/ use[c].at \in {"ran", "checked", "cut"}
              \/ c \in disturbed
              \/ r.tool = "Edit" /\ r.old = "blank"
              \/ ~ChecksJson(r)
              \/ c \in unlucky /\ use[c].verdict = "damaged"

\* The JSON the server keeps holds all its saves and nothing a tool wrote,
\* though tools are many and links lead anywhere; JSON a tool may write is not
\* left broken but for the reasons above; and a call that is told the file was
\* put back has it as it was before, unless someone else wrote meanwhile.
JsonIsKept ==
    /\ \A f \in Guarded : json[f] = Text(TRUE, 1..saves[f])
    /\ \A f \in Json : json[f] # NoText /\ ~json[f].whole => \E c \in ToolCalls : AnswersFor(c, f)
    /\ \A c \in ToolCalls : use[c].verdict = "restored" => c \in disturbed \/ use[c].copy = before[c]
=============================================================================
