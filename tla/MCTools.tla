------------------------------ MODULE MCTools ------------------------------
(* Tools with inputs at the boundaries of each function, for TLC.  The last *)
(* of the lines does not fit into buf.                                     *)
EXTENDS Tools

\* Not reached, the clock's first second, and later; a microsecond before and
\* beyond a full second.
MCStamps ==
    {[sec |-> 0, usec |-> 0]} \cup [sec : {1, 3}, usec : {0, 999999, 1000001}]

\* Up to three lines out of these, with and without a newline at the end.
Lines ==
    {<<>>, <<"a">>, <<"=">>, <<"a", "=">>, <<"a", "=", "b">>, <<"a", "=", "c">>,
     <<" ", "a", "=", "\t", "b", " ">>, <<"b", "=", "b", "\r">>, <<"#", "a", "=", "b">>,
     <<"a", "=", "#", "b">>, <<"c", "=", "b", "#", "c">>, <<"a", "b", "=", "a", "=", "b">>,
     <<"#", "a", "b", "c", "a", "b", "c", "a", "=", "b">>}
MCFiles ==
    {FlattenSeq([k \in 1..Len(f) |-> f[k] \o <<"\n">>]) \o last :
        f \in UNION {[1..n -> Lines] : n \in 0..2}, last \in Lines}

\* Up to two rows of a table in two orders of its columns, with and without
\* each value that may be missing.
Column(name, value) == [name |-> name, value |-> value]
Rows ==
    UNION {{<<Column("to", <<120>>), Column("cc", cc), Column("subject", subject),
              Column("content", content), Column("sender", sender), Column("from", <<121>>),
              Column("status", <<49>>)>>,
            <<Column("status", <<49>>), Column("from", <<121>>), Column("sender", sender),
              Column("subject", subject), Column("to", <<122>>), Column("content", content),
              Column("cc", cc)>>} :
                cc \in {<<>>, <<97>>}, subject \in {<<>>, <<255>>, <<98, 195>>}, content \in {<<>>, <<99>>},
                sender \in {<<>>, <<100, 101, 102>>}}
MCTables == UNION {[1..n -> Rows] : n \in 0..2}
=============================================================================
