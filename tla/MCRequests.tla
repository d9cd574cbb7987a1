----------------------------- MODULE MCRequests -----------------------------
(***************************************************************************)
(* The event log collector's requests: queries with their pages and the    *)
(* shared token (RestQuery), and the download of a log file (Download).    *)
(* A behaviour runs one of the two.                                        *)
(***************************************************************************)
EXTENDS RestQuery, Download

VARIABLE part  \* the component that runs

all == <<part, vars, downloadVars>>

Method(k, g) == [kind |-> k, good |-> g]
BadJwt    == {Method("jwt", FALSE)}
AllLogins == {{Method("jwt", TRUE), Method("clientCred", FALSE)}, BadJwt,
              {Method("clientCred", FALSE)}, {Method("userPass", TRUE)}}

(* While the other runs: collectors that cannot log in have not started,   *)
(* and the download is over.                                               *)
NoQueries == Init /\ auth = BadJwt /\ ~truncate
Downloaded ==
    /\ contentLength = FileLength /\ logFileLength = FileLength
    /\ served = FileLength /\ ends = "eof"
    /\ stage = "ok" /\ written = FileLength /\ temp = FALSE
    /\ timer = Stall /\ fired = FALSE /\ cancelled = "nobody" /\ quiet = 0 /\ longest = 0

MCInit ==
    \/ part = "query" /\ Init /\ Downloaded
    \/ part = "download" /\ NoQueries /\ DownloadInit

InQuery(A)    == part = "query" /\ A /\ UNCHANGED <<part, downloadVars>>
InDownload(A) == part = "download" /\ A /\ UNCHANGED <<part, vars>>

MCNext == InQuery(Next) \/ InDownload(DownloadNext)

(* A collector that is running runs on, and polls again and again.         *)
QueryFairness ==
    \A c \in Clients : WF_all(InQuery(StartQuery(c) \/ ClientStep(c)))

(* Time passes and the client's goroutines run; a server that has not hung *)
(* goes on sending.                                                        *)
DownloadFairness ==
    /\ WF_all(InDownload(Tick)) /\ WF_all(InDownload(Watchdog)) /\ WF_all(InDownload(Cancelled))
    /\ WF_all(InDownload(Verify)) /\ WF_all(InDownload(ArchiveLogFile))
    /\ WF_all(InDownload(ends # "hang" /\ (Respond \/ Read \/ BodyEnds)))

MCSpec == MCInit /\ [][MCNext]_all /\ QueryFairness /\ DownloadFairness
=============================================================================
