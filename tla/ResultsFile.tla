---- MODULE ResultsFile ----
(***************************************************************************)
(* The results file between the challenge server, which reads, extends and *)
(* rewrites it after every challenge (logChallengeResult), and the         *)
(* dashboards, which read it at any moment.  The server may be killed and  *)
(* started again.  The file's text is kept as the opening bracket, one     *)
(* unit per challenge, and the closing bracket: a proper prefix of it is   *)
(* not a JSON document.                                                    *)
(***************************************************************************)
EXTENDS Naturals, Sequences, FiniteSets, SequencesExt

CONSTANTS Readers,     \* requests being served by a dashboard
          MaxRounds,   \* bound on the challenges logged
          MaxCrashes,  \* bound on the times the server is killed
          Absent, Error,
          LBracket, RBracket  \* the brackets of the array

ASSUME FileAssumption ==
    /\ MaxRounds \in Nat /\ MaxCrashes \in Nat
    /\ LBracket \notin Nat /\ RBracket \notin Nat /\ LBracket # RBracket
    /\ Absent \notin Seq(1 .. MaxRounds \cup {LBracket, RBracket})

VARIABLES
    file,       \* the text on disk, or Absent
    writer,         \* where logChallengeResult is: wait, read, open, write; or down
    allResults, \* the array in the server's memory
    logged,     \* challenges whose log was begun; the number stands for the entry
    crashes,
    results,    \* every entry ever logged to the end
    request,    \* per reader: idle, or reading
    text,       \* per reader: what it has read
    since,      \* per reader: how long history was when it opened the file
    shown       \* per reader: the last list shown, or Error

writerVars == <<writer, allResults, logged, crashes, results>>
readerVars == <<request, text, since, shown>>
fileVars == <<file, writerVars, readerVars>>

Doc(list) == <<LBracket>> \o list \o <<RBracket>>

Entries == 1..MaxRounds

WellFormed(s) ==
    /\ Len(s) >= 2
    /\ s[1] = LBracket /\ s[Len(s)] = RBracket
    /\ \A i \in 2..(Len(s) - 1) : s[i] \in Entries

Parsed(s) == SubSeq(s, 2, Len(s) - 1)

FileInit ==
    /\ file = Absent
    /\ writer = "wait"
    /\ allResults = <<>>
    /\ logged = 0
    /\ crashes = 0
    /\ results = <<>>
    /\ request = [r \in Readers |-> "idle"]
    /\ text = [r \in Readers |-> <<>>]
    /\ since = [r \in Readers |-> 0]
    /\ shown = [r \in Readers |-> <<>>]

----------------------------------------------------------------------------
\* The server.

BeginLog ==
    /\ writer = "wait"
    /\ logged < MaxRounds
    /\ logged' = logged + 1
    /\ writer' = "read"
    /\ UNCHANGED <<file, allResults, crashes, results, readerVars>>

\* No file, or one that does not parse: start from an empty array.
Loaded == IF file # Absent /\ WellFormed(file) THEN Parsed(file) ELSE <<>>

\* in >> allResults; push_back(entry)
ReadAndExtend ==
    /\ writer = "read"
    /\ allResults' = Append(Loaded, logged)
    /\ writer' = "open"
    /\ UNCHANGED <<file, logged, crashes, results, readerVars>>

\* Fault: the file is opened for appending.
OpenAppending ==
    /\ writer = "open"
    /\ file' = IF file = Absent THEN <<>> ELSE file
    /\ writer' = "write"
    /\ UNCHANGED <<allResults, logged, crashes, results, readerVars>>

\* ofstream out(RESULTS_FILE) truncates.
OpenTruncating ==
    /\ writer = "open"
    /\ file' = <<>>
    /\ writer' = "write"
    /\ UNCHANGED <<allResults, logged, crashes, results, readerVars>>

\* The stream reaches the disk in any portions.
WriteSome ==
    /\ writer = "write"
    /\ \E n \in (Len(file) + 1)..Len(Doc(allResults)) : file' = file \o SubSeq(Doc(allResults), Len(file) + 1, n)
    /\ UNCHANGED <<writerVars, readerVars>>

CloseFile ==
    /\ writer = "write"
    /\ Len(file) >= Len(Doc(allResults))
    /\ results' = Append(results, logged)
    /\ writer' = "wait"
    /\ UNCHANGED <<file, allResults, logged, crashes, readerVars>>

Crash ==
    /\ writer # "down"
    /\ crashes < MaxCrashes
    /\ crashes' = crashes + 1
    /\ writer' = "down"
    /\ UNCHANGED <<file, allResults, logged, results, readerVars>>

Restart ==
    /\ writer = "down"
    /\ writer' = "wait"
    /\ allResults' = <<>>
    /\ UNCHANGED <<file, logged, crashes, results, readerVars>>

FileWriter == BeginLog \/ ReadAndExtend \/ OpenTruncating \/ WriteSome \/ CloseFile \/ Crash \/ Restart

----------------------------------------------------------------------------
\* A dashboard request: os.path.exists, open, and a read to the end of the file.

OpenForReading(r) ==
    /\ request[r] = "idle"
    /\ IF file = Absent
       THEN /\ shown' = [shown EXCEPT ![r] = <<>>]
            /\ UNCHANGED request
       ELSE /\ request' = [request EXCEPT ![r] = "reading"]
            /\ UNCHANGED shown
    /\ text' = [text EXCEPT ![r] = <<>>]
    /\ since' = [since EXCEPT ![r] = Len(results)]
    /\ UNCHANGED <<file, writerVars>>

\* The next portion, at the reader's own offset in whatever the file holds by now.
ReadSome(r) ==
    /\ request[r] = "reading"
    /\ \E n \in (Len(text[r]) + 1)..Len(file) :
          text' = [text EXCEPT ![r] = @ \o SubSeq(file, Len(@) + 1, n)]
    /\ UNCHANGED <<file, writerVars, request, since, shown>>

\* json.load: /results lets the exception out, the dashboard shows an empty list instead.
EndOfFile(r) ==
    /\ request[r] = "reading"
    /\ Len(text[r]) >= Len(file)
    /\ shown' = [shown EXCEPT ![r] = IF WellFormed(text[r]) THEN Parsed(text[r]) ELSE Error]
    /\ request' = [request EXCEPT ![r] = "idle"]
    /\ UNCHANGED <<file, writerVars, text, since>>

Reader(r) == OpenForReading(r) \/ ReadSome(r) \/ EndOfFile(r)

FileNext == FileWriter \/ \E r \in Readers : Reader(r)

FileSpec == FileInit /\ [][FileNext]_fileVars

----------------------------------------------------------------------------
(***************************************************************************)
(* While the server is not killed no result is ever forgotten: the file    *)
(* is the history, or is being replaced by the history and one entry more. *)
(***************************************************************************)
KeepsHistory ==
    \/ file = Absent /\ results = <<>>
    \/ file = Doc(results)
    \/ writer = "write" /\ allResults = Append(results, logged)

(***************************************************************************)
(* A list that a reader could parse is the history, at least as long as it *)
(* was when the file was opened, even when the file was rewritten between  *)
(* two reads of one request: the text only ever grows at its end.          *)
(***************************************************************************)
ShownIsHistory ==
    \A r \in Readers :
        (request[r] = "idle" /\ shown[r] # Error) =>
            /\ IsPrefix(shown[r], IF writer = "write" THEN allResults ELSE results)
            /\ Len(shown[r]) >= since[r]

(***************************************************************************)
(* A file cut off by a crash stays so only until the next result is        *)
(* logged: the server reads it as empty and writes a document again.       *)
(***************************************************************************)
CutOnlyUntilNextLog ==
    (file # Absent /\ ~WellFormed(file)) => (writer # "wait" \/ (crashes > 0 /\ allResults = <<>>))

(***************************************************************************)
(* What the server keeps and the dashboards show, before the first crash   *)
(* and after any of them.                                                  *)
(***************************************************************************)
FileKeepsResults ==
    /\ crashes = 0 => KeepsHistory /\ ShownIsHistory
    /\ CutOnlyUntilNextLog
====
