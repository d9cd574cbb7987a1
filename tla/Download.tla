------------------------------ MODULE Download ------------------------------
(***************************************************************************)
(* The download of one event log file: DownloadCsvFile copies the response *)
(* into a temporary file under a watchdog that cancels the request when no *)
(* data arrives for the stall timeout, compares the length with what was   *)
(* advertised, and removes what is not whole; archiveLogFile reads the     *)
(* file and removes it.  The watchdog's function runs in a goroutine of    *)
(* its own: data that arrives after it was started re-arms the timer and   *)
(* no longer stops it.                                                     *)
(***************************************************************************)
EXTENDS Integers

CONSTANTS FileLength,    \* pieces the file consists of
          Stall,         \* ticks without data until the watchdog fires
          MaxPause       \* bound: ticks a server that still answers pauses

ASSUME DownloadAssumption ==
    /\ FileLength \in Nat \ {0} /\ Stall \in Nat \ {0} /\ MaxPause \in Nat

VARIABLES
    contentLength, \* advertised in the header, or -1
    logFileLength, \* advertised in the query's record, or 0
    served,        \* pieces the server will send before it stops
    ends,          \* how the server stops: "eof", "close" or "hang"
    stage,            \* "request", "copy", "verify", "read", "ok" or "failed"
    written,       \* pieces in the temporary file
    temp,          \* the temporary file exists
    timer,         \* ticks until the watchdog fires
    fired,         \* its function is running
    cancelled,     \* nobody, "watchdog" or "signal"
    quiet,         \* ticks since the download started or data last arrived
    longest        \* the longest such pause

server == <<contentLength, logFileLength, served, ends>>
downloadVars == <<server, stage, written, temp, timer, fired, cancelled, quiet, longest>>

(* A length is advertised at least once; the server is the mock's, which   *)
(* truncates a body and closes, or one that hangs.                         *)
DownloadInit ==
    /\ contentLength \in {-1, FileLength} /\ logFileLength \in {0, FileLength}
    /\ contentLength >= 0 \/ logFileLength > 0
    /\ served \in 0..FileLength /\ ends \in {"eof", "close", "hang"}
    /\ stage = "request" /\ written = 0 /\ temp = FALSE
    /\ timer = Stall /\ fired = FALSE /\ cancelled = "nobody"
    /\ quiet = 0 /\ longest = 0

(* Mutant: the temporary file of a failed download stays.                  *)
FailKeepsFile == stage' = "failed" /\ UNCHANGED temp

Fail == stage' = "failed" /\ temp' = FALSE

-----------------------------------------------------------------------------
(* requestWithTimeout returns a response with status 200, the temporary    *)
(* file is created and the watchdog is re-armed.                           *)
Respond ==
    /\ stage = "request" /\ cancelled = "nobody" /\ (ends = "hang" => served > 0)
    /\ stage' = "copy" /\ temp' = TRUE
    /\ timer' = Stall /\ quiet' = 0
    /\ UNCHANGED <<server, written, fired, cancelled, longest>>

(* The request fails, has another status, or no file can be created.       *)
RequestFails ==
    /\ stage = "request" /\ Fail
    /\ UNCHANGED <<server, written, timer, fired, cancelled, quiet, longest>>

(* Mutant: only the first data re-arms the watchdog.                       *)
ReadNoReset ==
    /\ stage = "copy" /\ cancelled = "nobody" /\ written < served
    /\ written' = written + 1
    /\ timer' = IF written = 0 THEN Stall ELSE timer
    /\ quiet' = 0
    /\ UNCHANGED <<server, stage, temp, fired, cancelled, longest>>

(* progressReader.Read: data re-arms the watchdog.                         *)
Read ==
    /\ stage = "copy" /\ cancelled = "nobody" /\ written < served
    /\ written' = written + 1
    /\ timer' = Stall /\ quiet' = 0
    /\ UNCHANGED <<server, stage, temp, fired, cancelled, longest>>

(* The body ends.  The client notices an early end when it was told the    *)
(* length or the connection broke.                                         *)
BodyEnds ==
    /\ stage = "copy" /\ written = served
    /\ ends # "hang" \/ served = FileLength
    /\ IF (served < FileLength /\ (ends = "close" \/ contentLength >= 0))
       THEN Fail /\ UNCHANGED written
       ELSE stage' = "verify" /\ UNCHANGED <<temp, written>>
    /\ UNCHANGED <<server, timer, fired, cancelled, quiet, longest>>

(* The read or a write to the file returns an error.                       *)
CopyFails ==
    /\ stage = "copy" /\ Fail
    /\ UNCHANGED <<server, written, timer, fired, cancelled, quiet, longest>>

(* Mutant: the record's length is not compared.                            *)
VerifyHeaderOnly ==
    /\ stage = "verify"
    /\ IF contentLength >= 0 /\ written # contentLength THEN Fail ELSE stage' = "read" /\ UNCHANGED temp
    /\ UNCHANGED <<server, written, timer, fired, cancelled, quiet, longest>>

Verify ==
    /\ stage = "verify"
    /\ IF \/ contentLength >= 0 /\ written # contentLength
          \/ logFileLength > 0 /\ written # logFileLength
       THEN Fail ELSE stage' = "read" /\ UNCHANGED temp
    /\ UNCHANGED <<server, written, timer, fired, cancelled, quiet, longest>>

(* archiveLogFile has read the file, with or without success.              *)
ArchiveLogFile ==
    /\ stage = "read" /\ stage' = "ok" /\ temp' = FALSE
    /\ UNCHANGED <<server, written, timer, fired, cancelled, quiet, longest>>

-----------------------------------------------------------------------------
(* Mutant: the watchdog's timer starts with the body.                      *)
WatchdogLate ==
    /\ fired /\ cancelled = "nobody" /\ stage = "copy"
    /\ cancelled' = "watchdog"
    /\ UNCHANGED <<server, stage, written, temp, timer, fired, quiet, longest>>

Watchdog ==
    /\ fired /\ cancelled = "nobody" /\ stage \in {"request", "copy"}
    /\ cancelled' = "watchdog"
    /\ UNCHANGED <<server, stage, written, temp, timer, fired, quiet, longest>>

Shutdown ==
    /\ cancelled = "nobody" /\ stage \in {"request", "copy"}
    /\ cancelled' = "signal"
    /\ UNCHANGED <<server, stage, written, temp, timer, fired, quiet, longest>>

(* A cancelled request or read returns.                                    *)
Cancelled ==
    /\ cancelled # "nobody" /\ stage \in {"request", "copy"}
    /\ Fail
    /\ UNCHANGED <<server, written, timer, fired, cancelled, quiet, longest>>

(* Time passes while the client waits for the server.                      *)
Tick ==
    /\ stage \in {"request", "copy"} /\ cancelled = "nobody" /\ ~fired
    /\ ends = "hang" \/ quiet < MaxPause
    /\ timer' = timer - 1 /\ fired' = (timer' = 0)
    /\ quiet' = quiet + 1
    /\ longest' = IF quiet' > longest THEN quiet' ELSE longest
    /\ UNCHANGED <<server, stage, written, temp, cancelled>>

DownloadNext ==
    \/ Respond \/ RequestFails \/ Read \/ BodyEnds \/ CopyFails \/ Verify \/ ArchiveLogFile
    \/ Watchdog \/ Shutdown \/ Cancelled \/ Tick

DownloadSpec == DownloadInit /\ [][DownloadNext]_downloadVars

-----------------------------------------------------------------------------
(* What is handed to the collector is the whole file, although the server  *)
(* may stop anywhere (DownloadCsvFile).                                    *)
WholeFileOnly == stage \in {"read", "ok"} => written = FileLength

(* No temporary file outlives the call, however it ends.                   *)
NothingLeft == stage \in {"ok", "failed"} => ~temp

(* The watchdog gives up only a download that got nothing for the whole    *)
(* stall timeout; how long the download takes does not matter.             *)
OnlyStalledCancelled == cancelled = "watchdog" => longest >= Stall

(* A server that never answers, or stops in the middle of the body, does   *)
(* not hold the poll for ever.                                             *)
DownloadEnds == <>(stage \in {"ok", "failed"})

(* Only whole files are read, no temporary file is left behind, and only   *)
(* a silent download is cancelled (DownloadCsvFile).                       *)
DownloadSafe == WholeFileOnly /\ NothingLeft /\ OnlyStalledCancelled

=============================================================================
