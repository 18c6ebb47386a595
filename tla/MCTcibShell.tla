---------------------------- MODULE MCTcibShell ----------------------------
(* Instances of TcibShell for TLC. *)
EXTENDS TcibShell

MCImages == {"base", "redis", "valkey"}

\* all ways three directories can lie below one another
Paths ==
    {p \in [MCImages -> {<<a, b, c>> : a, b, c \in MCImages}
                        \cup {<<a, b>> : a, b \in MCImages}
                        \cup {<<a>> : a \in MCImages}] :
        IsLayout([path |-> p, files |-> [m \in MCImages |-> 1], empty |-> {}, from |-> {}])}

One == [m \in MCImages |-> 1]

Plain == {[path |-> p, files |-> One, empty |-> {}, from |-> {}] : p \in Paths}

\* at most one directory holds no config, or one that is empty
Grouping == {[path |-> p, files |-> [One EXCEPT ![m] = 0], empty |-> {}, from |-> {}] :
                p \in Paths, m \in MCImages}
Hollow == {[path |-> p, files |-> One, empty |-> {m}, from |-> {}] :
              p \in Paths, m \in MCImages}

\* one config, or all, with a tcib_from
Own == {[path |-> p, files |-> One, empty |-> {}, from |-> f] :
           p \in Paths, f \in {{m} : m \in MCImages} \cup {MCImages}}

\* without a config file nothing is listed
Sensible(r) == r.hasFile \/ r.config = {}

RequestsOver(layouts) ==
    {r \in [layout : layouts, hasFile : BOOLEAN, config : SUBSET MCImages,
            user : {{}, {"base"}, {"redis"}}, release10 : BOOLEAN,
            optionsOk : {TRUE}, skip : {FALSE}, extra : {"none"}] : Sensible(r)}

\* malformed options, --skip-build and --extra-config, on one layout
Chained == CHOOSE l \in Plain : l.path["valkey"] = <<"base", "redis", "valkey">>
OtherOptions ==
    {r \in [layout : {Chained}, hasFile : BOOLEAN, config : SUBSET MCImages,
            user : {{}}, release10 : {FALSE},
            optionsOk : BOOLEAN, skip : BOOLEAN,
            extra : {"none", "relative", "missing"}] : Sensible(r)}

OwnFrom == {r \in RequestsOver(Own) : r.user = {} /\ ~r.release10}

AllRequests == RequestsOver(Plain \cup Grouping \cup Hollow) \cup OwnFrom \cup OtherOptions
PlainRequests == RequestsOver(Plain)

\* several commands in one process: few layouts, nothing excluded by the
\* user, at most one image listed
ShellRequests ==
    {r \in RequestsOver({Chained} \cup {l \in Grouping \cup Hollow \cup Plain :
                                           l.path["redis"] = <<"valkey", "redis">>
                                           /\ l.path["base"] = <<"base">>}) :
        r.user = {} /\ r.release10 = FALSE /\ Cardinality(r.config) <= 1}
PlainRepeated == {r \in ShellRequests : r.layout \in Plain}
=============================================================================
