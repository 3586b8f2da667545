------------------------------ MODULE MailPull ------------------------------
(***************************************************************************)
(* What a child makes of the rows it has selected: mysql_fill_data copies  *)
(* them into lists of fields (src/c++/base/mysql.c), pullSentInfoFromMysql *)
(* makes mails of the lists and queues them, OnChildRun sends and frees    *)
(* one after the other (worker.cpp, sendMail.cpp).                         *)
(*                                                                         *)
(* A row is a sequence of columns [name, value], a value a sequence of     *)
(* bytes without a zero, and the empty one NULL: the lists do not tell     *)
(* them apart.                                                             *)
(***************************************************************************)
EXTENDS Base64, FiniteSets

NoValue == <<>>
Fields == {"to", "cc", "subject", "content", "sender", "from"}

\* A row of send_email has these columns, and others.
Row ==
    {row \in Seq([name : STRING, value : Seq(1..255)]) :
        /\ \A j, k \in 1..Len(row) : row[j].name = row[k].name => j = k
        /\ \A f \in Fields : \E j \in 1..Len(row) : row[j].name = f}

-----------------------------------------------------------------------------
(* The rows in memory.                                                     *)

\* A list begins with a node that holds nothing.
mysql_fill_data(rows) ==
    [i \in 1..Len(rows) |->
        <<[fieldName |-> NoValue, fieldValue |-> NoValue]>>
            \o [j \in 1..Len(rows[i]) |->
                   [fieldName |-> rows[i][j].name, fieldValue |-> rows[i][j].value]]]

\* Blocks, by what points at them: the calls of calloc for a row,
Allocated(data, i) ==
    {<<"node", i, j>> : j \in 1..Len(data[i])}
        \cup {<<"fieldName", i, j>> : j \in 2..Len(data[i])}
        \cup {<<"fieldValue", i, j>> : j \in {h \in 2..Len(data[i]) : data[i][h].fieldValue # NoValue}}

\* and those of free, in their order: a node, when the next one is known, and
\* the two strings of that; at last the last node.
free_result_data(data, i) ==
    [n \in 1..(3 * Len(data[i]) - 2) |->
        LET prev == (n + 2) \div 3
            current == prev + 1
        IN  IF n % 3 = 1 THEN <<"node", i, prev>>
            ELSE IF n % 3 = 2 THEN <<"fieldName", i, current>>
            ELSE IF data[i][current].fieldValue # NoValue THEN <<"fieldValue", i, current>>
            ELSE NoValue]

\* Nothing is left, and nothing was freed twice.
FreedOnce(data, i) ==
    LET frees == free_result_data(data, i)
    IN  /\ \A n \in DOMAIN frees : frees[n] = NoValue \/ frees[n] \in Allocated(data, i)
        /\ \A block \in Allocated(data, i) :
            \E n \in DOMAIN frees :
                frees[n] = block /\ \A m \in DOMAIN frees : frees[m] = block => m = n

-----------------------------------------------------------------------------
(* The mails.                                                              *)

(* Fault variant: the fields are taken from pointer, not pointer->next. *)
pullSentInfoFromMysqlShort(data) ==
    [i \in 1..Len(data) |->
        [f \in Fields |->
            LET found == {j \in 1..(Len(data[i]) - 1) :
                             data[i][j].fieldName = f /\ data[i][j].fieldValue # NoValue}
            IN  IF found = {} THEN NoValue ELSE data[i][CHOOSE j \in found : TRUE].fieldValue]]

\* send_mail_queue: a mail for each row, NULL where it has no value.  The
\* names of a table's columns differ.
pullSentInfoFromMysql(data) ==
    [i \in 1..Len(data) |->
        [f \in Fields |->
            LET found == {j \in 1..(Len(data[i]) - 1) :
                             data[i][j + 1].fieldName = f /\ data[i][j + 1].fieldValue # NoValue}
            IN  IF found = {} THEN NoValue ELSE data[i][(CHOOSE j \in found : TRUE) + 1].fieldValue]]

\* strlen of a field that is not there ends the process.
Kills(mail) == mail.subject = NoValue \/ mail.sender = NoValue

\* What fprintf makes of a string that is not there: "(null)".
Printed(text) == IF text = NoValue THEN <<40, 110, 117, 108, 108, 41>> ELSE text

\* What sendmail is given.  Without a Cc, there is no such line.
Message(mail) ==
    [mail EXCEPT !.to = Printed(@), !.from = Printed(@), !.content = Printed(@),
                 !.subject = base64_encode(@), !.sender = base64_encode(@)]

\* The queue is worked off, up to a mail that kills.  Where popen fails, the
\* mail is freed like the others, unsent.
OnChildRun(rows, popenFails) ==
    LET data == mysql_fill_data(rows)
        queue == pullSentInfoFromMysql(data)
        kill == {i \in 1..Len(queue) : i \notin popenFails /\ Kills(queue[i])}
        sent == {i \in 1..Len(queue) : i \notin popenFails /\ \A k \in kill : i < k}
    IN  [freed |-> \A i \in 1..Len(data) : FreedOnce(data, i),
         killed |-> kill # {},
         sent |-> [i \in sent |-> Message(queue[i])]]

-----------------------------------------------------------------------------
\* What sendmail gets of a row.
IsMailOf(message, row) ==
    \A j \in 1..Len(row) :
        LET value == row[j].value
        IN  CASE row[j].name \in {"subject", "sender"} -> base64_decode(message[row[j].name]) = value
              [] row[j].name \in Fields \ {"subject", "sender"} ->
                    message[row[j].name] = value \/ (value = NoValue /\ row[j].name # "cc")
              [] OTHER -> TRUE

\* A row whose mail cannot be written.
Incomplete(row) == \E j \in 1..Len(row) : row[j].name \in {"subject", "sender"} /\ row[j].value = NoValue

\* Of the rows before the first incomplete one for which sendmail was started,
\* each is sent as it is stored, unless sendmail was not; of the rows behind
\* it, none.
SentAsStored(out, rows, popenFails) ==
    LET started == 1..Len(rows) \ popenFails
        incomplete == {i \in started : Incomplete(rows[i])}
    IN  /\ DOMAIN out.sent = {i \in started : \A k \in incomplete : i < k}
        /\ \A i \in DOMAIN out.sent : IsMailOf(out.sent[i], rows[i])
        /\ out.killed <=> incomplete # {}
        /\ out.freed
=============================================================================
