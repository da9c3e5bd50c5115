----------------------------- MODULE MCProgram ------------------------------
(* Program for TLC: the command lines.                                     *)
EXTENDS Program, TLC

CONSTANTS h1, h2

Once == {<<"-q", "sql">>, <<"-f", "-w">>, <<"-i">>}
Saving == <<"-w", "--project", "p">>

(* The runs of a user, with both backends; a server saves its project.     *)
Tasks == {k \o m : k \in {<<>>, <<"--project", "p">>, Saving}, m \in Once} \cup {Saving \o <<m>> : m \in Servers}
Usual == {<<"-s", "a">> \o t \o b : t \in Tasks, b \in {<<>>, <<"--r2pipe">>}}
            \cup {<<"-s", "a">>, <<"-q", ".cmd", "--no-analyze">> \o Saving}

(* Every line of at most three of these arguments.                         *)
Words == {"-h", "-q", "--mcp", "8080", ""}
Short == UNION {[1..n -> Words] : n \in 0..3}

MCCommandLines == Usual \cup Short
=============================================================================
