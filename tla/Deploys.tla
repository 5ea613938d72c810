-------------------------------- MODULE Deploys --------------------------------
(***************************************************************************)
(* Several operators deploy one fleet: the config dialog of the Fleets     *)
(* page (ConfigModal) and deploy_fleet, which reads the fleet, renders,    *)
(* validates, writes the fleet's row, then the files of local-mode hosts,  *)
(* and commits, while others edit, move hosts and deploy as well.          *)
(*                                                                         *)
(* The UPDATE of the row is sent before the instances are read (autoflush) *)
(* and keeps the row locked until the transaction ends.                    *)
(***************************************************************************)
EXTENDS Integers, FiniteSets

CONSTANTS
    Dialogs,      \* config dialogs, with the deploy each has under way
    Locals,       \* local-mode hosts
    Agents,       \* agent-mode members
    Configs,      \* contents of the fleet
    First,        \* the one it starts with
    Blocked,      \* those with blocking errors
    Bad,          \* those that `vector validate` rejects
    None,
    MaxEdits,     \* bounds: edits, deploys, hosts that join or leave, faults
    MaxDeploys,
    MaxMoves,
    MaxFaults

ASSUME ConstantsAssumption ==
    /\ Blocked \subseteq Configs /\ Bad \subseteq Configs
    /\ First \in Configs /\ None \notin Configs
    /\ Locals \cap Agents = {}
    /\ MaxEdits \in Nat /\ MaxDeploys \in Nat /\ MaxMoves \in Nat /\ MaxFaults \in Nat

VARIABLES
    draft,        \* what the fleet's tables render to
    gen, snap,    \* the fleet's row: generation and deployed_config
    writing,      \* deploys that have written the row and not ended
    joined,       \* local-mode members
    disk,         \* disk[h]: the configuration on a host
    \* an agent: content of its last answer (the ETag), generation it reports
    seen, applied,
    \* a dialog: errs[d] blocking errors, error[d] a message, result[d] a result
    at, errs, error, result,
    \* its deploy: the generation it read, what it rendered, hosts to write
    base, content, todo,
    \* bounds
    edits, deploys, moves, faults,
    \* history
    unvalidated,  \* deploys whose content nobody could validate
    wrote,        \* wrote[d]: hosts it has written
    spoiled,      \* hosts that missed a deploy or hold one that was undone
    late,         \* hosts that joined between the check for them and the write
    muddled       \* a deploy has used a generation that was not the current one

row == <<gen, snap>>
agents == <<seen, applied>>
page == <<errs, error, result>>
work == <<base, content, todo, unvalidated, wrote>>
bounds == <<edits, deploys, moves, faults>>
vars == <<draft, row, writing, joined, disk, agents, at, page, work, bounds,
          spoiled, late, muddled>>

Hosts == Locals \cup Agents
Maybe == Configs \cup {None}
\* Stations of a deploy and, before and after it, of its dialog.
Working == {"read", "render", "check", "update", "files"}
Answered == {"done", "refused", "failed"}
Stations == {"closed", "preview", "open"} \cup Working \cup Answered

Goes(d, s) == at' = [at EXCEPT ![d] = s]
Fault == faults < MaxFaults /\ faults' = faults + 1

Init ==
    /\ draft = First
    /\ gen = 0 /\ snap = None /\ writing = {}
    /\ joined \in SUBSET Locals
    /\ disk = [h \in Hosts |-> None]
    /\ seen = [a \in Agents |-> None] /\ applied = [a \in Agents |-> 0]
    /\ at = [d \in Dialogs |-> "closed"]
    /\ errs = [d \in Dialogs |-> FALSE] /\ error = [d \in Dialogs |-> FALSE]
    /\ result = [d \in Dialogs |-> FALSE]
    /\ base = [d \in Dialogs |-> 0] /\ content = [d \in Dialogs |-> None]
    /\ todo = [d \in Dialogs |-> {}] /\ unvalidated = {}
    /\ wrote = [d \in Dialogs |-> {}]
    /\ edits = 0 /\ deploys = 0 /\ moves = 0 /\ faults = 0
    /\ spoiled = joined /\ late = {} /\ muddled = FALSE

-----------------------------------------------------------------------------
(* The dialog.                                                              *)

Open(d) ==
    /\ at[d] = "closed" /\ Goes(d, "preview")
    /\ errs' = [errs EXCEPT ![d] = FALSE]
    /\ error' = [error EXCEPT ![d] = FALSE]
    /\ result' = [result EXCEPT ![d] = FALSE]
    /\ UNCHANGED <<draft, row, writing, joined, disk, agents, work, bounds,
                   spoiled, late, muddled>>
Preview(d) ==
    /\ at[d] = "preview" /\ Goes(d, "open")
    /\ errs' = [errs EXCEPT ![d] = draft \in Blocked]
    /\ UNCHANGED <<draft, row, writing, joined, disk, agents, error, result, work,
                   bounds, spoiled, late, muddled>>
PreviewFails(d) ==
    /\ at[d] = "preview" /\ Goes(d, "open") /\ Fault
    /\ error' = [error EXCEPT ![d] = TRUE]
    /\ UNCHANGED <<draft, row, writing, joined, disk, agents, errs, result, work,
                   edits, deploys, moves, spoiled, late, muddled>>
\* The button is there unless only a message is shown, and works unless the
\* dialog knows of blocking errors.
Offered(d) == (~error[d] \/ result[d]) /\ ~errs[d]
Deploy(d) ==
    /\ at[d] = "open" /\ Offered(d) /\ Goes(d, "read")
    /\ deploys < MaxDeploys /\ deploys' = deploys + 1
    /\ error' = [error EXCEPT ![d] = FALSE]
    /\ UNCHANGED <<draft, row, writing, joined, disk, agents, errs, result, work,
                   edits, moves, faults, spoiled, late, muddled>>
\* The answer arrives, or is lost on its way.
Shows(d, errors, message, answer) ==
    /\ errs' = [errs EXCEPT ![d] = errors \/ @]
    /\ error' = [error EXCEPT ![d] = message]
    /\ result' = [result EXCEPT ![d] = answer \/ @]
Answer(d) ==
    /\ at[d] \in Answered /\ Goes(d, "open")
    /\ Shows(d, at[d] = "refused", at[d] # "done", at[d] = "done")
    /\ base' = [base EXCEPT ![d] = 0] /\ content' = [content EXCEPT ![d] = None]
    /\ unvalidated' = unvalidated \ {d} /\ wrote' = [wrote EXCEPT ![d] = {}]
    /\ UNCHANGED <<draft, row, writing, joined, disk, agents, todo, bounds,
                   spoiled, late, muddled>>
LoseAnswer(d) ==
    /\ at[d] \in Answered \ {"failed"} /\ Goes(d, "failed") /\ Fault
    /\ UNCHANGED <<draft, row, writing, joined, disk, agents, page, work, edits,
                   deploys, moves, spoiled, late, muddled>>
Close(d) ==
    /\ at[d] = "open" /\ Goes(d, "closed")
    /\ UNCHANGED <<draft, row, writing, joined, disk, agents, page, work, bounds,
                   spoiled, late, muddled>>

-----------------------------------------------------------------------------
(* deploy_fleet.                                                            *)

ReadFleet(d) ==
    /\ at[d] = "read" /\ Goes(d, "render")
    /\ base' = [base EXCEPT ![d] = gen]
    /\ UNCHANGED <<draft, row, writing, joined, disk, agents, page, content, todo,
                   unvalidated, wrote, bounds, spoiled, late, muddled>>

\* `vector validate` may be missing or time out.
Verdicts(c) == {"unavailable", IF c \in Bad THEN "invalid" ELSE "valid"}
Render(d) ==
    /\ at[d] = "render"
    /\ content' = [content EXCEPT ![d] = draft]
    /\ \/ draft \in Blocked /\ Goes(d, "refused") /\ UNCHANGED unvalidated
       \/ /\ draft \notin Blocked
          /\ \E v \in Verdicts(draft) :
                /\ Goes(d, CASE v = "invalid" -> "refused"
                             [] v = "valid" -> "update"
                             [] OTHER -> "check")
                /\ unvalidated' = IF v = "unavailable" THEN unvalidated \cup {d}
                                  ELSE unvalidated
    /\ UNCHANGED <<draft, row, writing, joined, disk, agents, page, base, todo,
                   wrote, bounds, spoiled, late, muddled>>
\* Mutant: members are not looked up.
Unchecked == TRUE
NoLocals == joined = {}
CheckLocals(d) ==
    /\ at[d] = "check"
    /\ Goes(d, IF NoLocals THEN "update" ELSE "failed")
    /\ UNCHANGED <<draft, row, writing, joined, disk, agents, page, work, bounds,
                   spoiled, late, muddled>>

\* The UPDATE waits for the row; then the members are read.
\* Mutant: it is only sent with the commit.
Unlocked == TRUE
RowFree == writing = {}
Update(d) ==
    /\ at[d] = "update" /\ RowFree /\ Goes(d, "files")
    /\ writing' = writing \cup {d}
    /\ todo' = [todo EXCEPT ![d] = joined]
    /\ UNCHANGED <<draft, row, joined, disk, agents, page, base, content,
                   unvalidated, wrote, bounds, spoiled, late, muddled>>
WriteFile(d, h) ==
    /\ at[d] = "files" /\ h \in todo[d]
    /\ todo' = [todo EXCEPT ![d] = @ \ {h}]
    /\ disk' = [disk EXCEPT ![h] = content[d]]
    /\ wrote' = [wrote EXCEPT ![d] = @ \cup {h}]
    /\ UNCHANGED <<draft, row, writing, joined, agents, at, page, base, content,
                   unvalidated, bounds, spoiled, late, muddled>>
\* The error is an entry of the answer.
WriteFails(d, h) ==
    /\ at[d] = "files" /\ h \in todo[d] /\ Fault
    /\ todo' = [todo EXCEPT ![d] = @ \ {h}]
    /\ spoiled' = spoiled \cup {h}
    /\ UNCHANGED <<draft, row, writing, joined, disk, agents, at, page, base, content,
                   unvalidated, wrote, edits, deploys, moves, late, muddled>>
\* Mutant: only the first deploy of a fleet gets a generation.
FirstGeneration(d) == IF base[d] = 0 THEN 1 ELSE base[d]
NewGeneration(d) == base[d] + 1
Commit(d) ==
    /\ at[d] = "files" /\ todo[d] = {} /\ Goes(d, "done")
    /\ gen' = NewGeneration(d) /\ snap' = content[d]
    /\ writing' = writing \ {d}
    /\ spoiled' = spoiled \ wrote[d]
    /\ muddled' = (muddled \/ base[d] # gen)
    /\ UNCHANGED <<draft, joined, disk, agents, page, work, bounds, late>>
\* An exception (certificate files are written outside of any try), a commit
\* that fails or a crash: the transaction is rolled back, files stay.
\* Mutant: the transaction is left open.
KeepsRow(d) == writing
LeavesRow(d) == writing \ {d}
Abort(d) ==
    /\ at[d] \in Working /\ Fault /\ Goes(d, "failed")
    /\ writing' = LeavesRow(d)
    /\ todo' = [todo EXCEPT ![d] = {}]
    /\ spoiled' = spoiled \cup wrote[d]
    /\ UNCHANGED <<draft, row, joined, disk, agents, page, base, content, unvalidated,
                   wrote, edits, deploys, moves, late, muddled>>

-----------------------------------------------------------------------------
(* Everybody else.                                                          *)

Edit(c) ==
    /\ edits < MaxEdits /\ edits' = edits + 1
    /\ c # draft /\ draft' = c
    /\ UNCHANGED <<row, writing, joined, disk, agents, at, page, work, deploys, moves,
                   faults, spoiled, late, muddled>>
Moves == moves < MaxMoves /\ moves' = moves + 1
Join(h) ==
    /\ Moves /\ h \in Locals \ joined
    /\ joined' = joined \cup {h}
    /\ spoiled' = spoiled \cup {h}
    /\ late' = IF \E d \in unvalidated : at[d] = "update" THEN late \cup {h} ELSE late
    /\ UNCHANGED <<draft, row, writing, disk, agents, at, page, work, edits, deploys,
                   faults, muddled>>
Leave(h) ==
    /\ Moves /\ h \in joined
    /\ joined' = joined \ {h}
    /\ UNCHANGED <<draft, row, writing, disk, agents, at, page, work, edits, deploys,
                   faults, spoiled, late, muddled>>

\* An agent polls, validates what is new and reports (FleetSync has the steps
\* in between).  Mutant: the answer is new when the generation is.
OtherGeneration(a) == applied[a] # gen
OtherContent(a) == seen[a] # snap
Poll(a) ==
    /\ snap # None /\ OtherContent(a)
    /\ seen' = [seen EXCEPT ![a] = snap]
    /\ \/ snap \in Bad /\ UNCHANGED <<disk, applied>>
       \/ /\ snap \notin Bad
          /\ disk' = [disk EXCEPT ![a] = snap]
          /\ applied' = [applied EXCEPT ![a] = gen]
    /\ UNCHANGED <<draft, row, writing, joined, at, page, work, bounds, spoiled,
                   late, muddled>>

-----------------------------------------------------------------------------
Handle(d) == \/ ReadFleet(d) \/ Render(d) \/ CheckLocals(d) \/ Update(d)
             \/ \E h \in Locals : WriteFile(d, h)
             \/ Commit(d)
Use(d) == Open(d) \/ Deploy(d) \/ Close(d)
Wait(d) == Preview(d) \/ Answer(d)
Fail(d) == \/ PreviewFails(d) \/ LoseAnswer(d) \/ Abort(d)
           \/ \E h \in Locals : WriteFails(d, h)
Next == \/ \E d \in Dialogs : Handle(d) \/ Use(d) \/ Wait(d) \/ Fail(d)
        \/ \E c \in Configs : Edit(c)
        \/ \E h \in Locals : Join(h) \/ Leave(h)
        \/ \E a \in Agents : Poll(a)

\* Handlers run to their end, answers arrive, agents poll.
Fairness == /\ \A d \in Dialogs : WF_vars(Handle(d) \/ Wait(d))
            /\ \A a \in Agents : WF_vars(Poll(a))
Spec == Init /\ [][Next]_vars
FairSpec == Spec /\ Fairness

-----------------------------------------------------------------------------
TypeOK ==
    /\ draft \in Configs /\ gen \in Nat /\ snap \in Maybe
    /\ joined \subseteq Locals /\ disk \in [Hosts -> Maybe]
    /\ seen \in [Agents -> Maybe] /\ applied \in [Agents -> Nat]
    /\ at \in [Dialogs -> Stations] /\ writing = {d \in Dialogs : at[d] = "files"}
    /\ errs \in [Dialogs -> BOOLEAN] /\ error \in [Dialogs -> BOOLEAN]
    /\ result \in [Dialogs -> BOOLEAN]
    /\ base \in [Dialogs -> Nat] /\ content \in [Dialogs -> Maybe]
    /\ todo \in [Dialogs -> SUBSET Locals] /\ wrote \in [Dialogs -> SUBSET Locals]
    /\ unvalidated \subseteq Dialogs
    /\ edits \in 0 .. MaxEdits /\ deploys \in 0 .. MaxDeploys
    /\ moves \in 0 .. MaxMoves /\ faults \in 0 .. MaxFaults
    /\ spoiled \subseteq Locals /\ late \subseteq Locals /\ muddled \in BOOLEAN

\* The files of local-mode members are those of the deploy that the row holds,
\* whatever order overlapping deploys took: only a failed write, a deploy that
\* was undone or a recent move leaves another file (deploy_fleet writes files
\* before its commit, under the lock of the row).
FilesFollow ==
    writing = {} => \A h \in joined \ spoiled : disk[h] = snap

\* As long as no deploy ran into another, a generation stands for one content:
\* an agent whose badge is green runs what the fleet was last deployed with
\* (RolloutBadge; "what should every host be running right now").
GreenMeansCurrent ==
    ~muddled => \A a \in Agents :
        /\ applied[a] =< gen
        /\ (gen > 0 /\ applied[a] = gen) => disk[a] = snap

\* What nobody could validate reaches a local-mode host only if the host joined
\* between the check for such hosts and the write; what has blocking errors
\* reaches nobody.
LocalsAreGated ==
    /\ \A h \in Locals \ late : disk[h] \notin Bad
    /\ \A h \in Hosts : disk[h] \notin Blocked

\* Every deploy is answered, also when another one holds the row and fails.
DeploysEnd == \A d \in Dialogs : at[d] \in Working ~> at[d] \notin Working

\* Agents end up on what was deployed last, even when two deploys published it
\* under one generation.
AgentsFollow ==
    \A a \in Agents : <>[](snap \in Configs \ Bad => disk[a] = snap)

\* What the documentation says: "Deploying advances the fleet's generation
\* counter."
DeployAdvances ==
    [][\A d \in Dialogs : at[d] = "files" /\ at'[d] = "done" => gen' > gen]_vars
================================================================================
