------------------------------ MODULE OrderIds ------------------------------
(***************************************************************************)
(* The highest order id of each API client, kept on disk across sessions   *)
(* (src/order_ids.rs and the calls of src/client_core.rs).  Each session   *)
(* is a client of a process; its Saver thread reads the whole file, writes *)
(* a copy with its own line raised to a file beside it, named by the       *)
(* process, and renames it in place.  Nothing locks the file.  A process   *)
(* may crash at any point, a read or a write may fail, and sessions start  *)
(* again.                                                                  *)
(***************************************************************************)
EXTENDS Integers

CONSTANTS
    Sessions,       \* the clients that keep their ids in the file
    Clients,        \* the lines of the file: account and client id
    ClientOf,       \* the line of a session
    Processes,      \* the processes the sessions run in
    ProcessOf,      \* the process of a session
    MaxId,          \* bound: the highest order id placed
    MaxCrashes      \* bound: crashes, failed reads and failed writes in a behaviour

ASSUME OrderIdsAssumption ==
    /\ ClientOf \in [Sessions -> Clients]
    /\ ProcessOf \in [Sessions -> Processes]
    /\ MaxId \in Nat /\ MaxCrashes \in Nat

VARIABLES
    file,           \* the lines on disk, 0 for none
    tmp,            \* the file of a process beside it
    hasTmp,         \* whether it exists
    highest,        \* ClientCore.highest_order_id of a session
    saved,          \* what the Saver thread believes is on disk
    stop,           \* Saver.stop
    last,           \* the thread's reading of it
    now,            \* the thread's reading of highest
    lines,          \* the lines it read of the file
    saverPc,        \* where the thread is
    faults,         \* crashes, failed reads and failed writes so far
    \* For the properties only:
    kept,           \* the highest id a client placed up to a clean end of a session
    recent,         \* the sessions whose lines are those on disk: the read did not
                    \* fail, and nobody renamed a copy since
    owner,          \* whose the file of a process beside is, {} when it is cut short
    sound,          \* the processes whose file beside is of recent lines, and whole
    undone          \* the lines taken back by a copy that is not sound, and those
                    \* of a session that renamed a copy that is not its own

diskVars == <<file, tmp, hasTmp>>
copyVars == <<recent, owner, sound, undone>>
saverVars == <<diskVars, highest, saved, stop, last, now, lines, saverPc, kept, faults, copyVars>>

Ids == 0 .. MaxId
Lines == [Clients -> Ids]
NoLines == [c \in Clients |-> 0]

SaverTypeOK ==
    /\ file \in Lines
    /\ tmp \in [Processes -> Lines]
    /\ hasTmp \in [Processes -> BOOLEAN]
    /\ highest \in [Sessions -> Ids]
    /\ saved \in [Sessions -> Ids]
    /\ stop \in [Sessions -> BOOLEAN]
    /\ last \in [Sessions -> BOOLEAN]
    /\ now \in [Sessions -> Ids]
    /\ lines \in [Sessions -> Lines]
    /\ saverPc \in [Sessions -> {"down", "stop", "highest", "entries", "write", "rename", "next"}]
    /\ kept \in Lines
    /\ faults \in 0 .. MaxCrashes
    /\ recent \subseteq Sessions
    /\ owner \in [Processes -> SUBSET Sessions]
    /\ sound \subseteq Processes
    /\ undone \subseteq Clients

\* The file is what earlier sessions left.
SaverInit ==
    /\ file \in Lines
    /\ tmp = [p \in Processes |-> NoLines]
    /\ hasTmp = [p \in Processes |-> FALSE]
    /\ highest = [s \in Sessions |-> 0]
    /\ saved = [s \in Sessions |-> 0]
    /\ stop = [s \in Sessions |-> FALSE]
    /\ last = [s \in Sessions |-> FALSE]
    /\ now = [s \in Sessions |-> 0]
    /\ lines = [s \in Sessions |-> NoLines]
    /\ saverPc = [s \in Sessions |-> "down"]
    /\ kept = NoLines
    /\ faults = 0
    /\ recent = {} /\ sound = {} /\ undone = {}
    /\ owner = [p \in Processes |-> {}]

Higher(a, b) == IF a >= b THEN a ELSE b

\* entries: the lines of the file, and none at all when it cannot be read.
Entries(text) ==
    \/ /\ text = file
       /\ UNCHANGED faults
    \/ /\ text = NoLines
       /\ faults < MaxCrashes
       /\ faults' = faults + 1

-----------------------------------------------------------------------------
\* keep_order_ids, at the connect: Saver::start loads the saved value, 0 when
\* it has none, and raises highest_order_id to it, then starts the thread.
Start(s) ==
    LET c == ClientOf[s] IN
    /\ saverPc[s] = "down"
    /\ \E text \in {file, NoLines} :
          /\ Entries(text)
          /\ saved' = [saved EXCEPT ![s] = text[c]]
          /\ highest' = [highest EXCEPT ![s] = Higher(@, text[c])]
    /\ stop' = [stop EXCEPT ![s] = FALSE]
    /\ saverPc' = [saverPc EXCEPT ![s] = "stop"]
    /\ UNCHANGED <<diskVars, last, now, lines, kept, copyVars>>

\* An order with a new id, above the highest one used (refusal_for_order_id
\* answers 103 otherwise), and note_order_id.  Not once the Saver is stopped:
\* disconnect() has joined the engine by then.
Place(s, id) ==
    /\ saverPc[s] # "down" /\ ~stop[s]
    /\ id > highest[s]
    /\ highest' = [highest EXCEPT ![s] = id]
    /\ UNCHANGED <<diskVars, saved, stop, last, now, lines, saverPc, kept, faults, copyVars>>

\* stop_keeping_order_ids, at the disconnect: Saver::drop asks the thread to
\* stop and waits for it.
Stop(s) ==
    /\ saverPc[s] # "down" /\ ~stop[s]
    /\ stop' = [stop EXCEPT ![s] = TRUE]
    /\ UNCHANGED <<diskVars, highest, saved, last, now, lines, saverPc, kept, faults, copyVars>>

-----------------------------------------------------------------------------
\* The thread reads the stop request first.
ReadStop(s) ==
    /\ saverPc[s] = "stop"
    /\ last' = [last EXCEPT ![s] = stop[s]]
    /\ saverPc' = [saverPc EXCEPT ![s] = "highest"]
    /\ UNCHANGED <<diskVars, highest, saved, stop, now, lines, kept, faults, copyVars>>

\* Mutant of ReadHighest: a value one above the saved one is not saved.
ReadHighestOffByOne(s) ==
    /\ saverPc[s] = "highest"
    /\ now' = [now EXCEPT ![s] = highest[s]]
    /\ saverPc' = [saverPc EXCEPT ![s] = IF highest[s] > saved[s] + 1 THEN "entries" ELSE "next"]
    /\ UNCHANGED <<diskVars, highest, saved, stop, last, lines, kept, faults, copyVars>>

\* Then the value, which is saved when it moved.
ReadHighest(s) ==
    /\ saverPc[s] = "highest"
    /\ now' = [now EXCEPT ![s] = highest[s]]
    /\ saverPc' = [saverPc EXCEPT ![s] = IF highest[s] > saved[s] THEN "entries" ELSE "next"]
    /\ UNCHANGED <<diskVars, highest, saved, stop, last, lines, kept, faults, copyVars>>

\* save: the whole file is read.  A line that is not below the value is left,
\* and is the client's value too (another process of the same client).
ReadEntries(s) ==
    LET c == ClientOf[s] IN
    /\ saverPc[s] = "entries"
    /\ \E text \in {file, NoLines} :
          /\ Entries(text)
          /\ lines' = [lines EXCEPT ![s] = text]
          /\ recent' = IF text = file THEN recent \cup {s} ELSE recent \ {s}
          /\ IF text[c] >= now[s]
             THEN /\ saved' = [saved EXCEPT ![s] = text[c]]
                  /\ highest' = [highest EXCEPT ![s] = Higher(@, text[c])]
                  /\ saverPc' = [saverPc EXCEPT ![s] = "next"]
             ELSE /\ saverPc' = [saverPc EXCEPT ![s] = "write"]
                  /\ UNCHANGED <<saved, highest>>
    /\ UNCHANGED <<diskVars, stop, last, now, kept, owner, sound, undone>>

\* A file beside the other is written, whole.
Wrote(s, copy) ==
    LET p == ProcessOf[s] IN
    /\ tmp' = [tmp EXCEPT ![p] = copy]
    /\ hasTmp' = [hasTmp EXCEPT ![p] = TRUE]
    /\ owner' = [owner EXCEPT ![p] = {s}]
    /\ sound' = IF s \in recent THEN sound \cup {p} ELSE sound \ {p}
    /\ saverPc' = [saverPc EXCEPT ![s] = "rename"]
    /\ UNCHANGED <<file, highest, saved, stop, last, now, lines, kept, faults, recent, undone>>

\* The file of a process beside the other is gone, renamed or removed.
Removed(p) ==
    /\ tmp' = [tmp EXCEPT ![p] = NoLines]
    /\ hasTmp' = [hasTmp EXCEPT ![p] = FALSE]
    /\ owner' = [owner EXCEPT ![p] = {}]

\* Mutant of WriteTmp: only the client's own line is written.
WriteOwnLine(s) ==
    /\ saverPc[s] = "write"
    /\ Wrote(s, [NoLines EXCEPT ![ClientOf[s]] = now[s]])

\* save: the lines, the client's raised, are written beside the file.
WriteTmp(s) ==
    /\ saverPc[s] = "write"
    /\ Wrote(s, [lines[s] EXCEPT ![ClientOf[s]] = now[s]])

\* save: the file beside is renamed in place.  The name is the process's: when
\* another session of the process wrote it since, that is what is renamed, and
\* when one renamed it first, the rename fails.
Rename(s) ==
    LET p == ProcessOf[s]
        lowered == {c \in Clients : p \notin sound /\ tmp[p][c] < file[c]}
        mistaken == {c \in Clients : owner[p] # {s} /\ c = ClientOf[s]}
    IN
    /\ saverPc[s] = "rename"
    /\ IF hasTmp[p]
       THEN /\ file' = tmp[p]
            /\ Removed(p)
            /\ saved' = [saved EXCEPT ![s] = now[s]]
            /\ highest' = [highest EXCEPT ![s] = Higher(@, now[s])]
            /\ recent' = {} /\ sound' = {}
            /\ undone' = undone \cup lowered \cup mistaken
       ELSE UNCHANGED <<diskVars, saved, highest, copyVars>>
    /\ saverPc' = [saverPc EXCEPT ![s] = "next"]
    /\ UNCHANGED <<stop, last, now, lines, kept, faults>>

\* The write fails, before it began or with the file beside cut short: logged,
\* and tried again with the next pass.
WriteFails(s) ==
    LET p == ProcessOf[s] IN
    /\ saverPc[s] = "write"
    /\ faults < MaxCrashes
    /\ faults' = faults + 1
    /\ \/ UNCHANGED <<tmp, hasTmp, owner, sound>>
       \/ /\ tmp' = [tmp EXCEPT ![p] = NoLines]
          /\ hasTmp' = [hasTmp EXCEPT ![p] = TRUE]
          /\ owner' = [owner EXCEPT ![p] = {}]
          /\ sound' = sound \ {p}
    /\ saverPc' = [saverPc EXCEPT ![s] = "next"]
    /\ UNCHANGED <<file, highest, saved, stop, last, now, lines, kept, recent, undone>>

\* The rename fails: the file beside is removed.
RenameFails(s) ==
    /\ saverPc[s] = "rename"
    /\ faults < MaxCrashes
    /\ faults' = faults + 1
    /\ Removed(ProcessOf[s])
    /\ sound' = sound \ {ProcessOf[s]}
    /\ saverPc' = [saverPc EXCEPT ![s] = "next"]
    /\ UNCHANGED <<file, highest, saved, stop, last, now, lines, kept, recent, undone>>

\* The variables of the thread, or of a pass of its loop, go out of scope.
LoopEnds(s) ==
    /\ last' = [last EXCEPT ![s] = FALSE]
    /\ now' = [now EXCEPT ![s] = 0]
    /\ lines' = [lines EXCEPT ![s] = NoLines]
    /\ recent' = recent \ {s}

\* Mutant of Period: the stop request is read again here, behind the save.
PeriodStopReread(s) ==
    LET c == ClientOf[s] IN
    /\ saverPc[s] = "next"
    /\ IF stop[s]
       THEN /\ saverPc' = [saverPc EXCEPT ![s] = "down"]
            /\ saved' = [saved EXCEPT ![s] = 0]
            /\ kept' = IF saved[s] >= now[s] THEN [kept EXCEPT ![c] = Higher(@, highest[s])] ELSE kept
       ELSE /\ saverPc' = [saverPc EXCEPT ![s] = "stop"]
            /\ UNCHANGED <<saved, kept>>
    /\ LoopEnds(s)
    /\ UNCHANGED <<diskVars, highest, stop, faults, owner, sound, undone>>

\* The thread waits for the next period, or ends after a stop request: a clean
\* end when nothing was left unsaved by a failed write.
Period(s) ==
    LET c == ClientOf[s] IN
    /\ saverPc[s] = "next"
    /\ IF last[s]
       THEN /\ saverPc' = [saverPc EXCEPT ![s] = "down"]
            /\ saved' = [saved EXCEPT ![s] = 0]
            /\ kept' = IF saved[s] >= now[s] THEN [kept EXCEPT ![c] = Higher(@, highest[s])] ELSE kept
       ELSE /\ saverPc' = [saverPc EXCEPT ![s] = "stop"]
            /\ UNCHANGED <<saved, kept>>
    /\ LoopEnds(s)
    /\ UNCHANGED <<diskVars, highest, stop, faults, owner, sound, undone>>

\* A process crashes: its sessions are gone, with what they had in memory.
Crash(p) ==
    LET Gone(f, none) == [s \in Sessions |-> IF ProcessOf[s] = p THEN none ELSE f[s]] IN
    /\ faults < MaxCrashes
    /\ \E s \in Sessions : ProcessOf[s] = p /\ saverPc[s] # "down"
    /\ faults' = faults + 1
    /\ saverPc' = Gone(saverPc, "down")
    /\ highest' = Gone(highest, 0) /\ saved' = Gone(saved, 0) /\ now' = Gone(now, 0)
    /\ stop' = Gone(stop, FALSE) /\ last' = Gone(last, FALSE)
    /\ lines' = Gone(lines, NoLines)
    /\ recent' = {s \in recent : ProcessOf[s] # p}
    /\ UNCHANGED <<diskVars, kept, owner, sound, undone>>

ThreadStep(s) ==
    \/ ReadStop(s) \/ ReadHighest(s) \/ ReadEntries(s)
    \/ WriteTmp(s) \/ Rename(s) \/ Period(s)

SaverNext ==
    \/ \E s \in Sessions : Start(s) \/ Stop(s) \/ ThreadStep(s) \/ WriteFails(s) \/ RenameFails(s)
    \/ \E s \in Sessions, id \in Ids : Place(s, id)
    \/ \E p \in Processes : Crash(p)

SaverSpec == SaverInit /\ [][SaverNext]_saverVars

\* The Saver thread is scheduled.
FairSpec == SaverSpec /\ \A s \in Sessions : WF_saverVars(ThreadStep(s))

-----------------------------------------------------------------------------
\* `The value on disk only goes up, and the other clients' lines are kept':
\* no save lowers a line, of whatever client, but one whose copy is of lines it
\* could not read, or that another session renamed or cut short in between.
OnlyGoesUp == [][\A c \in Clients : file'[c] >= file[c] \/ c \in undone']_<<file, undone>>

\* What a client placed up to a clean end of its session is on disk, so the
\* next session, in whatever process, starts above it: as long as no such save
\* has taken the line back.
KeptOnDisk == \A c \in Clients : kept[c] <= file[c] \/ c \in undone

\* What a session placed does not stay off the disk for ever, unless its process
\* crashed or its line was taken back: highest_order_id only rises while the
\* session is up, so each id placed is on disk in the end.
SavedInTheEnd ==
    \A s \in Sessions : \A id \in Ids \ {0} :
        []<>((saverPc[s] # "down" /\ highest[s] >= id) =>
                 (file[ClientOf[s]] >= id \/ ClientOf[s] \in undone))
=============================================================================
