------------------------------ MODULE MCConfig ------------------------------
(* Model checking of the configuration; see the .cfg files.                *)
EXTENDS Config

CONSTANTS MaxLines \* lines of the operator's file

MCWords ==
    DigitSet \cup Options
    \cup {"BUFFER", "NETWORK", "DEVICE", "OTHER", "true", "false", "x"}

MCOrders == {<<"relay", "buffer", "network", "device">>}

Option(key, value) ==
    [kind |-> "option", key |-> key, value |-> value, spaces |-> FALSE]
Wide(key, value) == [Option(key, value) EXCEPT !.spaces = TRUE]
Section(kind, name) == [kind |-> kind, name |-> name]

(* Lines with every outcome: known and unknown sections and keys, values   *)
(* that parse, that do not and that have to be fixed, empty values.        *)
Lines ==
    {Section("section", "BUFFER"), Section("section", "NETWORK"),
     Section("section", "OTHER"), Section("open", "BUFFER"),
     Section("trailing", "BUFFER"),
     Option("backlog", <<"1">>), Wide("backlog", <<"1", "2">>),
     Wide("backlog", <<>>), [kind |-> "key", key |-> "backlog"],
     Option("gc", <<"true">>), Option("gc", <<"2">>),
     Wide("port", <<"0">>), Option("port", <<"2">>),
     Option("port", <<"1", "2">>),
     Option("host", <<>>), Wide("host", <<"1", "2">>),
     Option("timeout", <<"x">>),
     Section("section", "DEVICE"), Wide("serial", <<"3">>),
     Option("serial", <<>>),
     [kind |-> "comment"], [kind |-> "empty"]}

MCConfs ==
    {[lines |-> s, crlf |-> c] :
        s \in UNION {[1..n -> Lines] : n \in 0..MaxLines}, c \in BOOLEAN}
=============================================================================
