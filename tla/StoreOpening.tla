---------------------------- MODULE StoreOpening ----------------------------
(***************************************************************************)
(* The file of the metrics store over the life of daly-bms-server: opened  *)
(* in the background of a start, put into quarantine when it is corrupt    *)
(* and made anew, compacted by `--compact-db`; the process may be killed   *)
(* at any moment, and a power cut may spoil the file.                      *)
(*                                                                         *)
(* The content of a file is the set of the batches committed to it.  That  *)
(* compaction keeps what it should is the subject of Tiering.              *)
(***************************************************************************)
EXTENDS Integers, FiniteSets

CONSTANTS
    RestartSec,                         \* contrib/daly-bms.service
    MaxBatches, MaxSeconds, MaxCrashes  \* bounds

VARIABLES
    second,         \* the clock that names the quarantines
    file,           \* the file at db_path: [state, batches]
    quarantines,    \* <db>.corrupt.<second>
    lock,           \* who has the database open
    server,         \* what the server has come to
    downAt,         \* when it ended
    compactor,      \* the phase of --compact-db
    committed,      \* history: batches that were committed
    crashes

storeVars == <<second, file, quarantines, lock, server, downAt, compactor, committed, crashes>>

StoreAssumption == RestartSec \in Nat \ {0}

NoFile == [state |-> "none", batches |-> {}]

StoreInit ==
    /\ second = 0 /\ file = NoFile /\ quarantines = <<>> /\ lock = "free"
    /\ server = "down" /\ downAt = -RestartSec
    /\ compactor = "idle" /\ committed = {} /\ crashes = 0

-----------------------------------------------------------------------------
(* MetricsStore::open: the errors, and what it leaves when it succeeds.    *)

OpenErrors ==
    IF lock # "free" THEN {"locked"}
    ELSE IF file.state = "corrupt" THEN {"corrupt"} ELSE {"refused"}  \* permissions, a full disk

Open(who) ==
    /\ lock = "free" /\ file.state # "corrupt"
    /\ lock' = who
    /\ file' = IF file.state = "none" THEN [state |-> "sound", batches |-> {}] ELSE file

\* Variant: any error is taken for a corruption.
AnyError(error) == TRUE

\* open_error_is_corruption.
IsCorruption(error) == error = "corrupt"

Starts ==
    /\ server = "down" /\ second - downAt >= RestartSec
    /\ server' = "opening"
    /\ UNCHANGED <<second, file, quarantines, lock, downAt, compactor, committed, crashes>>

\* open_metrics_store_with_quarantine, its first attempt: without the store
\* the server goes on.
Opens ==
    /\ server = "opening"
    /\ \/ Open("server") /\ server' = "running"
       \/ /\ \E error \in OpenErrors :
                server' = IF file.state # "none" /\ IsCorruption(error)
                          THEN "corrupt" ELSE "degraded"
          /\ UNCHANGED <<file, lock>>
    /\ UNCHANGED <<second, quarantines, downAt, compactor, committed, crashes>>

Moved(at) == [s \in DOMAIN quarantines \cup {at} |->
                 IF s = at THEN file.batches ELSE quarantines[s]]

\* A rename replaces the file that has the name already.
Quarantines ==
    /\ server = "corrupt"
    /\ \/ /\ file.state # "none"
          /\ quarantines' = Moved(second) /\ file' = NoFile /\ server' = "moved"
       \/ server' = "degraded" /\ UNCHANGED <<file, quarantines>>
    /\ UNCHANGED <<second, lock, downAt, compactor, committed, crashes>>

Recreates ==
    /\ server = "moved"
    /\ \/ Open("server") /\ server' = "running"
       \/ server' = "degraded" /\ UNCHANGED <<file, lock>>
    /\ UNCHANGED <<second, quarantines, downAt, compactor, committed, crashes>>

Commits ==
    /\ server = "running" /\ Cardinality(committed) < MaxBatches
    /\ LET batch == Cardinality(committed)
       IN  /\ committed' = committed \cup {batch}
           /\ file' = [file EXCEPT !.batches = @ \cup {batch}]
    /\ UNCHANGED <<second, quarantines, lock, server, downAt, compactor, crashes>>

\* SIGTERM, and MetricsStore::shutdown if the store is there.
Stops ==
    /\ server # "down"
    /\ server' = "down" /\ downAt' = second
    /\ lock' = IF lock = "server" THEN "free" ELSE lock
    /\ UNCHANGED <<second, file, quarantines, compactor, committed, crashes>>

\* The machine goes down: what was written last may be spoilt.
PowerCut ==
    /\ crashes < MaxCrashes /\ crashes' = crashes + 1
    /\ server' = "down" /\ downAt' = IF server = "down" THEN downAt ELSE second
    /\ compactor' = "idle" /\ lock' = "free"
    /\ \/ lock # "free" /\ file' = [file EXCEPT !.state = "corrupt"]
       \/ UNCHANGED file
    /\ UNCHANGED <<second, quarantines, committed>>

-----------------------------------------------------------------------------
(* compact_database: the tiers and the pages are compacted under two       *)
(* openings of the file.                                                   *)

CompactsTiers ==
    /\ compactor = "idle" /\ Open("compactor")
    /\ compactor' = "tiers"
    /\ UNCHANGED <<second, quarantines, server, downAt, committed, crashes>>

ClosesTiers ==
    /\ compactor = "tiers"
    /\ compactor' = "between" /\ lock' = "free"
    /\ UNCHANGED <<second, file, quarantines, server, downAt, committed, crashes>>

CompactsPages ==
    /\ compactor = "between"
    /\ \/ Open("compactor") /\ compactor' = "pages"
       \/ compactor' = "idle" /\ UNCHANGED <<file, lock>>
    /\ UNCHANGED <<second, quarantines, server, downAt, committed, crashes>>

ClosesPages ==
    /\ compactor = "pages"
    /\ compactor' = "idle" /\ lock' = "free"
    /\ UNCHANGED <<second, file, quarantines, server, downAt, committed, crashes>>

SecondPasses ==
    /\ second < MaxSeconds /\ second' = second + 1
    /\ UNCHANGED <<file, quarantines, lock, server, downAt, compactor, committed, crashes>>

StoreNext ==
    \/ Starts \/ Opens \/ Quarantines \/ Recreates \/ Commits \/ Stops \/ PowerCut
    \/ CompactsTiers \/ ClosesTiers \/ CompactsPages \/ ClosesPages
    \/ SecondPasses

StoreFileSpec == StoreInit /\ [][StoreNext]_storeVars

-----------------------------------------------------------------------------
StoreTypesOK ==
    /\ file.state \in {"none", "sound", "corrupt"} /\ file.batches \subseteq committed
    /\ server \in {"down", "opening", "corrupt", "moved", "running", "degraded"}
    /\ server = "running" <=> lock = "server"
    /\ compactor \in {"tiers", "pages"} <=> lock = "compactor"

\* The history is kept through corruptions, crashes and compactions: what
\* was committed is in the file or in a quarantine, and only a corrupt file
\* is put into one (main.rs:899-908).
HistoryKept ==
    [][ /\ committed' \subseteq file'.batches \cup UNION {quarantines'[s] : s \in DOMAIN quarantines'}
        /\ quarantines' # quarantines => file.state = "corrupt" ]_storeVars
=============================================================================
