--------------------------------- MODULE Logs ---------------------------------
(***************************************************************************)
(* What leaves the database row by row: old log rows, moved to encrypted   *)
(* archives by a tool that may be stopped or run twice at once, and the    *)
(* histories of money, cases and appeals, exported in pages while rows are *)
(* written.                                                                *)
(***************************************************************************)
EXTENDS Integers, FiniteSets, SequencesExt

CONSTANTS
    Tools,         \* runs of the archiving tool
    Outputs,       \* files that an operator names for archives
    Exporters,     \* requests that export a history
    Subjects,      \* agents and customers
    BatchLimit,    \* ArchiveLogBatch's limit
    HistoryPage,   \* PageSize of an export, 500
    MaxRows,       \* bound on log rows, numbered from the oldest
    MaxItems,      \* bound on the rows of a history
    MaxStops       \* bound on archiving runs that fail or are stopped

ASSUME LogsAssumption ==
    /\ BatchLimit \in Nat \ {0} /\ HistoryPage \in Nat \ {0}
    /\ MaxRows \in Nat /\ MaxItems \in Nat /\ MaxStops \in Nat

VARIABLES
    logged,     \* number of log rows written so far
    online,     \* rows of the log table
    archive,    \* file -> its rows; {} where there is none
    tool,       \* run -> [at, output, rows]
    stops,      \* history: runs that failed or were stopped
    history,    \* the table's rows, newest first: [id, subject]
    exporting   \* request -> [at, subject, snapshot, total, page, out]

logVars == <<logged, online, archive, tool, stops, history, exporting>>

Everyone == "admin"
NoTool == [at |-> "none", output |-> "", rows |-> {}]
NoExport == [at |-> "none", subject |-> Everyone, snapshot |-> <<>>,
             total |-> 0, page |-> 0, out |-> <<>>]

-----------------------------------------------------------------------------
\* Archiving.

AppendLog ==
    /\ logged < MaxRows
    /\ logged' = logged + 1
    /\ online' = online \cup {logged + 1}
    /\ UNCHANGED <<archive, tool, stops, history, exporting>>

ArchiveLogs(t, o) ==
    /\ tool[t].at = "none" /\ archive[o] = {}
    /\ tool' = [tool EXCEPT ![t] = [at |-> "open", output |-> o, rows |-> {}]]
    /\ UNCHANGED <<logged, online, archive, stops, history, exporting>>

\* The oldest rows of those written before the day that the run keeps from.
Oldest(cut) == {r \in online : r <= cut /\ Cardinality({q \in online : q < r}) < BatchLimit}

\* Mutant: the rows are read without a lock.
SelectUnlocked(t) ==
    /\ tool[t].at = "open"
    /\ \E cut \in 0 .. logged :
         tool' = IF Oldest(cut) = {} THEN [tool EXCEPT ![t] = NoTool]
                 ELSE [tool EXCEPT ![t].at = "selected", ![t].rows = Oldest(cut)]
    /\ UNCHANGED <<logged, online, archive, stops, history, exporting>>

\* FOR UPDATE, or BEGIN IMMEDIATE: a second run waits for the first.
SelectRows(t) ==
    /\ tool[t].at = "open"
    /\ \A u \in Tools : tool[u].rows = {}
    /\ \E cut \in 0 .. logged :
         tool' = IF Oldest(cut) = {} THEN [tool EXCEPT ![t] = NoTool]
                 ELSE [tool EXCEPT ![t].at = "selected", ![t].rows = Oldest(cut)]
    /\ UNCHANGED <<logged, online, archive, stops, history, exporting>>

\* Mutant: the finished file replaces what has its name.
PublishOver(t) ==
    /\ tool[t].at = "selected"
    /\ archive' = [archive EXCEPT ![tool[t].output] = tool[t].rows]
    /\ tool' = [tool EXCEPT ![t].at = "published"]
    /\ UNCHANGED <<logged, online, stops, history, exporting>>

\* os.Link of the file written and synced under another name.
PublishArchive(t) ==
    /\ tool[t].at = "selected" /\ archive[tool[t].output] = {}
    /\ archive' = [archive EXCEPT ![tool[t].output] = tool[t].rows]
    /\ tool' = [tool EXCEPT ![t].at = "published"]
    /\ UNCHANGED <<logged, online, stops, history, exporting>>

DeleteArchived(t) ==
    /\ tool[t].at = "published"
    /\ online' = online \ tool[t].rows
    /\ tool' = [tool EXCEPT ![t] = NoTool]
    /\ UNCHANGED <<logged, archive, stops, history, exporting>>

\* The file's name is taken: the transaction is rolled back.
PublishRefused(t) ==
    /\ tool[t].at = "selected" /\ archive[tool[t].output] # {}
    /\ tool' = [tool EXCEPT ![t] = NoTool]
    /\ UNCHANGED <<logged, online, archive, stops, history, exporting>>

StopTool(t) ==
    /\ tool[t].at # "none" /\ stops < MaxStops
    /\ tool' = [tool EXCEPT ![t] = NoTool]
    /\ stops' = stops + 1
    /\ UNCHANGED <<logged, online, archive, history, exporting>>

-----------------------------------------------------------------------------
\* Exports.

AppendHistory(s) ==
    /\ Len(history) < MaxItems
    /\ history' = <<[id |-> Len(history) + 1, subject |-> s]>> \o history
    /\ UNCHANGED <<logged, online, archive, tool, stops, exporting>>

\* A case that is seen again moves to the front (c.last_seen DESC).
SeeAgain(n) ==
    /\ n \in 2 .. Len(history)
    /\ history' = <<history[n]>> \o RemoveAt(history, n)
    /\ UNCHANGED <<logged, online, archive, tool, stops, exporting>>

\* The rows of one subject, or all of them.
Selected(h, s) ==
    LET first[n \in 0 .. Len(h)] ==
          IF n = 0 THEN <<>>
          ELSE IF s = Everyone \/ h[n].subject = s THEN Append(first[n - 1], h[n])
          ELSE first[n - 1]
    IN  first[Len(h)]

ReadHistory(h, s, page) ==
    LET all == Selected(h, s)
        from == (page - 1) * HistoryPage
    IN  SubSeq(all, from + 1, CHOOSE n \in {from + HistoryPage, Len(all)} :
                                n <= from + HistoryPage /\ n <= Len(all))

StartExport(e, s) ==
    /\ exporting[e].at = "none"
    /\ exporting' = [exporting EXCEPT ![e] =
         [at |-> "reading", subject |-> s, snapshot |-> history,
          total |-> Len(Selected(history, s)), page |-> 1, out |-> <<>>]]
    /\ UNCHANGED <<logged, online, archive, tool, stops, history>>

\* Mutant: every page is read as the table is then.
RowsNow(e) == history

\* The transaction's snapshot.
RowsSeen(e) == exporting[e].snapshot

ReadPage(e) ==
    LET x == exporting[e] IN
    /\ x.at = "reading"
    /\ exporting' = [exporting EXCEPT
         ![e].out = x.out \o ReadHistory(RowsSeen(e), x.subject, x.page),
         ![e].page = x.page + 1,
         ![e].at = IF x.page * HistoryPage >= x.total THEN "exported" ELSE "reading"]
    /\ UNCHANGED <<logged, online, archive, tool, stops, history>>

\* A failed or abandoned export sends nothing of what it has spooled.
EndExport(e) ==
    /\ exporting[e].at # "none"
    /\ exporting' = [exporting EXCEPT ![e] = NoExport]
    /\ UNCHANGED <<logged, online, archive, tool, stops, history>>

-----------------------------------------------------------------------------
LogInit ==
    /\ logged = 0 /\ online = {} /\ stops = 0 /\ history = <<>>
    /\ archive = [o \in Outputs |-> {}]
    /\ tool = [t \in Tools |-> NoTool]
    /\ exporting = [e \in Exporters |-> NoExport]

ArchiveNext ==
    \/ AppendLog
    \/ \E t \in Tools :
         \/ \E o \in Outputs : ArchiveLogs(t, o)
         \/ SelectRows(t) \/ PublishArchive(t) \/ PublishRefused(t)
         \/ DeleteArchived(t) \/ StopTool(t)

ExportNext ==
    \/ \E s \in Subjects : AppendHistory(s)
    \/ \E n \in 2 .. MaxItems : SeeAgain(n)
    \/ \E e \in Exporters :
         \/ \E s \in Subjects \cup {Everyone} : StartExport(e, s)
         \/ ReadPage(e) \/ EndExport(e)

LogNext == ArchiveNext \/ ExportNext

LogSpec == LogInit /\ [][LogNext]_logVars

-----------------------------------------------------------------------------
\* Nothing is lost: a row is in the table or in an archive, the rows that have left
\* the table are older than those that stay, and a row is in a second archive, or
\* in the table and in an archive, only after a run that stopped or while one works
\* ("A failed export never deletes data").  A finished export is the history as it
\* was when the export began, every row once ("Read a consistent snapshot in
\* bounded batches").
LogsSound ==
    /\ \A r \in 1 .. logged :
         LET kept == {o \in Outputs : r \in archive[o]}
             busy == {t \in Tools : tool[t].at = "published" /\ r \in tool[t].rows}
         IN  /\ r \in online \/ kept # {}
             /\ r \in online => \A q \in r .. logged : q \in online
             /\ Cardinality(kept) + (IF r \in online THEN 1 ELSE 0)
                  <= 1 + stops + Cardinality(busy)
    /\ \A e \in Exporters : exporting[e].at = "exported" =>
         exporting[e].out = Selected(exporting[e].snapshot, exporting[e].subject)
=============================================================================
