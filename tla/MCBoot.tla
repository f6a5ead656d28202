--------------------------------- MODULE MCBoot ---------------------------------
(* Boot with names of two or three characters, values of up to two digits, a buffer *)
(* of nine characters, and files of up to two lines, the last one with or   *)
(* without its end: empty, malformed, unknown, and longer than the buffer. *)
EXTENDS Boot

SmallSpelling == [max_connections |-> <<109, 97, 120>>, port |-> <<112, 111>>,
                  num_cores |-> <<110, 99>>, max_num_routes |-> <<109, 110>>]
SmallDefaults == [max_connections |-> 40, port |-> 8, num_cores |-> 2, max_num_routes |-> 25]

Sign == <<Blank, Equals, Blank>>
Text(number) == digits[number]

Lines ==
  {Spelling[f] \o Sign \o Text(n) : f \in {"port", "max_connections"}, n \in {0, 7, 12}}
    \cup {Spelling["num_cores"] \o Sign \o Text(3),        \* which counts for nothing
          Spelling["max_connections"] \o Sign \o Text(123), \* cut by the buffer's end
          <<Blank>> \o [i \in 1..7 |-> Zero] \o Spelling["port"] \o Sign \o Text(6),
          Spelling["port"] \o Sign \o Text(7) \o <<Blank>>,
          Spelling["port"] \o <<Return, Equals, Blank>> \o Text(5),
          Spelling["port"] \o <<Equals>> \o Text(7),
          Spelling["port"] \o <<Nul>> \o Sign \o Text(4), \* the name ends in front of the NUL
          <<120, 121>> \o Sign \o Text(1),                 \* a name no field has
          Spelling["port"], <<Blank>>, <<>>}

Ended == {l \o <<NewLine>> : l \in Lines}

(* A value that fills its cache, a name that fills the buffer.             *)
Fillers == {Spelling["port"] \o Sign \o Text(123),
          [i \in 1..8 |-> Zero]}

SmallFiles == {<<>>} \cup {l \o m : l \in Ended \cup {<<>>}, m \in Ended \cup Lines \cup Fillers}
=============================================================================
