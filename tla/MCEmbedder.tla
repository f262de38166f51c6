----------------------------- MODULE MCEmbedder -----------------------------
(***************************************************************************)
(* Instances of Embedder for TLC: pairs of backends that differ in their   *)
(* names, and single backends with every other field varied.               *)
(***************************************************************************)
EXTENDS Embedder

Spelled(w) == [word : {w}, upper : BOOLEAN, pad : BOOLEAN]
Blank == [word : {""}, upper : {FALSE}, pad : BOOLEAN]

Good == [form |-> "hostport", pad |-> FALSE, host |-> "host", port |-> 25565]
Addresses ==
    {[Good EXCEPT !.pad = TRUE], [Good EXCEPT !.form = "blank"],
     [Good EXCEPT !.form = "unsplittable"]}
    \cup {[Good EXCEPT !.host = h] : h \in {"blank", "spaced"}}
    \cup {[Good EXCEPT !.port = p] : p \in {-1, 0, 1, 65535, 65536}}

Backend == [name |-> Text("a"), address |-> Good, version |-> Text("1.8"),
            forwarding |-> Text("none"), detect |-> FALSE]
Named == {[Backend EXCEPT !.name = n] :
            n \in Spelled("a") \cup Spelled("b") \cup Blank}
Single ==
    {[Backend EXCEPT !.address = a] : a \in Addresses}
    \cup {[Backend EXCEPT !.version = v] : v \in Spelled("auto") \cup Blank}
    \cup {[Backend EXCEPT !.forwarding = f] :
            f \in Spelled("legacy") \cup Blank \cup {Text("other")}}
Pairs == {<<b, c>> : b \in Named, c \in Named}
         \cup {<<Backend, [Backend EXCEPT !.name = Text("b"),
                                          !.forwarding = Text("legacy")]>>}
Lists == {<<>>} \cup {<<b>> : b \in Single} \cup Pairs

Base == [who |-> "direct", mode |-> "subprocess", dynamic |-> FALSE,
         pinned |-> FALSE, backends |-> <<Backend>>]
Direct ==
    {[Base EXCEPT !.backends = l] : l \in Lists}
    \cup {[Base EXCEPT !.mode = "other"],
          [Base EXCEPT !.dynamic = TRUE, !.backends = <<>>],
          [Base EXCEPT !.pinned = TRUE],
          [Base EXCEPT !.pinned = TRUE,
             !.backends = <<Backend, [Backend EXCEPT !.name = Text("b")]>>]}
GateBase == [who |-> "gate", enabled |-> TRUE, pinned |-> FALSE,
             mode |-> Text(""), backends |-> <<Backend>>]
Gate == {[GateBase EXCEPT !.backends = <<b>>] : b \in Single}
        \cup {[GateBase EXCEPT !.mode = m] :
                m \in Spelled("embedded") \cup Blank}
        \cup {[GateBase EXCEPT !.enabled = FALSE]}
SmokeConfigs ==
    [who : {"smoke"}, port : BOOLEAN, command : {"malformed", "client"},
     mode : {Text("other"), [Text("subprocess") EXCEPT !.upper = TRUE, !.pad = TRUE]}
            \cup Blank,
     backends : {<<Backend>>, <<[Backend EXCEPT !.address.port = 0]>>}]

MCConfigs == Direct \cup Gate \cup SmokeConfigs
MCNames == {Text("a"), [word |-> "a", upper |-> TRUE, pad |-> TRUE],
            Text("b"), Text("c")}
=============================================================================
