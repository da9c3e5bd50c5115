---------------------------- MODULE Persistence ----------------------------
(***************************************************************************)
(* What r2sql promises of what the user writes: it lives in the radare2    *)
(* session and reaches the disk only as a project, when a statement saves  *)
(* it or when a session opened with -w and a project name ends             *)
(* (prompts/r2sql_agent.md, Persistence & Projects).                       *)
(***************************************************************************)
CONSTANTS
    Projects,    \* names of projects
    Notes,       \* what a user can write: a comment, a type, ...
    NoProject,   \* the session saves nothing when it ends
    Missing, Damaged   \* of a project on disk: not there, or not readable

VARIABLES
    disk,      \* the projects on disk
    content,   \* what the radare2 session holds
    keep,      \* the project it is saved to when it ends
    open,      \* there is a session
    room,      \* a project that is saved can be written
    lost       \* the last session did not come to its regular end

vars == <<disk, content, keep, open, room, lost>>
session == <<content, keep, open>>

Contents == [analysed : BOOLEAN, notes : SUBSET Notes]
Fresh == {[analysed |-> a, notes |-> {}] : a \in BOOLEAN}
Nothing == [analysed |-> FALSE, notes |-> {}]
Intact(p) == disk[p] \notin {Missing, Damaged}

(* What saving a project can make of the disk.                             *)
Torn(p) == [disk EXCEPT ![p] = Damaged]
Stored(p) == IF room THEN {[disk EXCEPT ![p] = content]} ELSE {disk, Torn(p)}

Init ==
    /\ disk \in [Projects -> {Missing, Damaged}]
    /\ content = Nothing /\ keep = NoProject /\ open = FALSE /\ room = TRUE /\ lost = FALSE

(* A session of a project starts with all that was saved in it.            *)
Open(p) ==
    /\ ~open /\ open' = TRUE /\ lost' = FALSE
    /\ content' \in IF p \in Projects /\ Intact(p) THEN {disk[p]} ELSE Fresh
    /\ keep' \in {p, NoProject}
    /\ UNCHANGED <<disk, room>>

Edit == open /\ content' \in Contents /\ UNCHANGED <<disk, keep, open, room, lost>>

Save(p) == open /\ disk' \in Stored(p) /\ UNCHANGED <<session, room, lost>>

Load(p) ==
    /\ open /\ content' \in IF Intact(p) THEN {disk[p]} ELSE {content, Nothing}
    /\ UNCHANGED <<disk, keep, open, room, lost>>

Forget(p) == open /\ disk' = [disk EXCEPT ![p] = Missing] /\ UNCHANGED <<session, room, lost>>

Gone == open' = FALSE /\ content' = Nothing /\ keep' = NoProject /\ UNCHANGED room

(* The regular end saves if it can, and touches no other project.          *)
Close ==
    /\ open /\ Gone /\ lost' = FALSE
    /\ disk' \in IF keep \in Projects THEN Stored(keep) ELSE {disk}

(* A kill, of radare2 or of r2sql, loses what was not saved, and can tear  *)
(* the project that is being saved.                                        *)
Kill ==
    /\ open /\ Gone /\ lost' = TRUE
    /\ disk' \in {disk} \cup UNION {Stored(p) \cup {Torn(p)} : p \in Projects \cap {keep}}

(* The disk fills up, or is given room; how the last session ended matters *)
(* until the program runs again.                                           *)
Outside ==
    /\ room' \in BOOLEAN /\ lost' \in IF open THEN {lost} ELSE BOOLEAN
    /\ UNCHANGED <<disk, session>>

Next ==
    \/ \E p \in Projects \cup {NoProject} : Open(p)
    \/ \E p \in Projects : Save(p) \/ Load(p) \/ Forget(p)
    \/ Edit \/ Close \/ Kill \/ Outside

Spec == Init /\ [][Next]_vars
=============================================================================
