------------------------------- MODULE Tools -------------------------------
(***************************************************************************)
(* One call of one of the program's pure functions, with any input of a    *)
(* bounded set, or one round of a child with any rows, and what comes of   *)
(* it.                                                                     *)
(***************************************************************************)
EXTENDS Base64, ConfigFile, LogAdhoc, MailPull

CONSTANTS
    Stamps,   \* time stamps of the stages of a delivery
    Files,    \* texts of configuration files
    Tables    \* results of a select

ASSUME InputsTyped ==
    /\ Stamps \subseteq Stamp
    /\ Files \subseteq Seq(STRING)   \* of characters
    /\ Tables \subseteq Seq(Row)

VARIABLES
    called,   \* the function that was called, if any
    input,
    output

callVars == <<called, input, output>>

-----------------------------------------------------------------------------
\* The delivery done, log_adhoc() writes the record.  The clock is read at
\* most once.
Record ==
    \E stats \in [{"incoming_arrival", "active_arrival", "agent_handoff",
                   "conn_setup_done", "deliver_done"} -> Stamps],
       clock \in Stamps :
        /\ called' = "log_adhoc"
        /\ input' = <<stats, clock>>
        /\ output' = log_adhoc(stats, clock)

\* main() of both programs reads its configuration.
LoadFile ==
    \E file \in Files :
        /\ called' = "_LoadFile"
        /\ input' = file
        /\ output' = _LoadFile(file)

\* A round of a child.  popen may fail.
Pull ==
    \E rows \in Tables : \E popenFails \in SUBSET (1..Len(rows)) :
        /\ called' = "OnChildRun"
        /\ input' = <<rows, popenFails>>
        /\ output' = OnChildRun(rows, popenFails)

NoCall == called = "none" /\ input = <<>> /\ output = <<>>

OneCall == called = "none" /\ (Record \/ LoadFile \/ Pull)

Calls == NoCall /\ [][OneCall]_callVars

-----------------------------------------------------------------------------
(* Properties.                                                             *)

\* The delays of a record account for the end-to-end delay: for all of it,
\* or for more when a clock jumped back, whichever stages were reached
\* (log_adhoc.c:212-259).
DelaysAddUp ==
    called = "log_adhoc" => AddUp(output, input[1], input[2])

\* The program gets from a file what its lines say, apart from blanks and
\* comments, the first value of a key where there are several, unless a line
\* is longer than buf (ConfigFileReader.cpp:47-66).
ConfigAsWritten ==
    called = "_LoadFile" => AsWritten(output, input)

\* A mail has what its row has, whichever columns are empty and wherever they
\* stand; a row without a subject or a sender kills the child and costs the
\* rows behind it; the lists are freed as they were allocated
\* (mysql.c:213-284, worker.cpp:414-493, sendMail.cpp:27-75).
MailAsStored ==
    called = "OnChildRun" => SentAsStored(output, input[1], input[2])
=============================================================================
