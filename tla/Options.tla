------------------------------ MODULE Options -------------------------------
(***************************************************************************)
(* What New accepts (go/options.go), the Options the two embedders in the  *)
(* repository build (go/integration/gate/config.go, the smoke proxy) and   *)
(* the address table made from them. A text is known by what the code      *)
(* tells apart: its word, "" for none, in upper case or not, padded with   *)
(* blanks or not. Defaults that no check looks at (protocol, logger,       *)
(* restart policy, timeouts, paths) are left out.                          *)
(***************************************************************************)
EXTENDS Integers, Sequences, FiniteSetsExt

CONSTANT Words    \* the words texts are made of, with those the code knows

ASSUME OptionsAssumption ==
    {"", "auto", "none", "legacy", "velocity", "embedded", "subprocess"}
        \subseteq Words

\* The types of a text, of a backend's address and of a backend.
Texts == [word : Words, upper : BOOLEAN, pad : BOOLEAN]
HostPorts == [form : {"blank", "unsplittable", "hostport"}, pad : BOOLEAN,
              host : {"blank", "spaced", "host"}, port : Int]
Backends == [name : Texts, address : HostPorts, version : Texts,
             forwarding : Texts, detect : BOOLEAN]

Text(w) == [word |-> w, upper |-> FALSE, pad |-> FALSE]
TrimSpace(s) == [s EXCEPT !.pad = FALSE]
ToLower(s) == [s EXCEPT !.upper = FALSE]

backendLookupName(name) == ToLower(TrimSpace(name))

Modes == {"embedded", "subprocess"}
ForwardingModes == {Text("none"), Text("legacy"), Text("velocity")}

\* The errors of a New: the package's own, the adapter's and the proxy's.
Errors ==
    {"mode", "backend required", "name required", "duplicate",
     "address required", "address", "forwarding"}
    \cup {"gate mode", "gate forwarding"}
    \cup {"port required", "smoke mode", "client command"}

-----------------------------------------------------------------------------
\* An address that net.SplitHostPort splits, with a host and a port to dial.
Dialable(a) ==
    /\ a.form # "unsplittable"
    /\ a.host = "host"
    /\ a.port \in 1..65535

\* The checks of a trimmed backend: the first that fails names the error.
BackendError(b) ==
    IF b.name.word = "" THEN "name required"
    ELSE IF b.address.form = "blank" THEN "address required"
    ELSE IF ~Dialable(b.address) THEN "address"
    ELSE IF b.forwarding \notin ForwardingModes \cup {Text("")} THEN "forwarding"
    ELSE "nil"

\* A backend without the blanks around its texts.
Trimmed(b) ==
    [b EXCEPT !.name = TrimSpace(@), !.address = TrimSpace(@),
              !.version = TrimSpace(@)]

\* Mutant: auto is recognised before the blanks around it are gone.
NormalizeBackend_FoldsFirst(b) ==
    LET auto == ToLower(b.version) \in {Text(""), Text("auto")}
        t == [b EXCEPT !.name = TrimSpace(@), !.address.pad = FALSE,
                       !.version = IF auto THEN Text("auto") ELSE TrimSpace(@),
                       !.detect = @ \/ auto,
                       !.forwarding = IF @ = Text("") THEN Text("none") ELSE @]
    IN  [err |-> BackendError(t), backend |-> t]

NormalizeBackend(b) ==
    LET t == Trimmed(b)
        auto == ToLower(t.version) \in {Text(""), Text("auto")}
    IN  [err     |-> BackendError(t),
         backend |-> [t EXCEPT !.version = IF auto THEN Text("auto") ELSE @,
                               !.detect = @ \/ auto,
                               !.forwarding = IF @ = Text("") THEN Text("none")
                                              ELSE @]]

\* Mutant: seen holds the names as they are written.
Duplicated_AsWritten(bs, i) == \E j \in 1..(i - 1) : bs[j].name = bs[i].name

\* Backend i has the lookup name of an earlier one.
Duplicated(bs, i) ==
    \E j \in 1..(i - 1) :
        backendLookupName(bs[j].name) = backendLookupName(bs[i].name)

\* What the loop of validate returns for backend i when it gets there.
ErrorAt(bs, i) ==
    LET err == NormalizeBackend(bs[i]).err
    IN  IF err = "nil" /\ Duplicated(bs, i) THEN "duplicate" ELSE err

\* The backend the loop ends at: the first that fails, or the last.
StopsAt(bs) ==
    LET bad == {i \in DOMAIN bs : ErrorAt(bs, i) # "nil"}
    IN  IF bad = {} THEN Len(bs) ELSE Min(bad)

\* The loop has put the normalised backend i into the caller's slice.
Written(bs, i) ==
    i < StopsAt(bs) \/ (i = StopsAt(bs) /\ NormalizeBackend(bs[i]).err = "nil")

\* Options.validate: the verdict, and the backends as the loop leaves them. The
\* slice is the caller's: its entries are rewritten up to the one that failed.
Validate(o) ==
    LET bs == o.backends
    IN  IF o.mode \notin Modes
        THEN [err |-> "mode", backends |-> bs]
        ELSE IF bs = <<>>
        THEN [err |-> IF o.dynamic THEN "nil" ELSE "backend required",
              backends |-> bs]
        ELSE [err |-> ErrorAt(bs, StopsAt(bs)),
              backends |-> [i \in DOMAIN bs |->
                              IF Written(bs, i) THEN NormalizeBackend(bs[i]).backend
                              ELSE bs[i]]]

-----------------------------------------------------------------------------
(***************************************************************************)
(* The embedders' options.                                                 *)
(***************************************************************************)
Refuse(e) == [err |-> e]
Accept(o) == [err |-> "nil", opts |-> o]

\* parseForwarding.
ParseForwarding(v) ==
    LET lower == ToLower(v)
    IN  IF lower = Text("") THEN [err |-> "nil", mode |-> Text("none")]
        ELSE IF lower \in ForwardingModes THEN [err |-> "nil", mode |-> lower]
        ELSE Refuse("gate forwarding")

\* Config.toOptions: it never allows dynamic backends.
ToOptions(c) ==
    LET mode == ToLower(c.mode)
        parsed == [i \in DOMAIN c.backends |->
                     ParseForwarding(c.backends[i].forwarding)]
    IN  IF mode \notin {Text(""), Text("subprocess"), Text("embedded")}
        THEN Refuse("gate mode")
        ELSE IF \E i \in DOMAIN parsed : parsed[i].err # "nil"
        THEN Refuse("gate forwarding")
        ELSE Accept([mode |-> IF mode = Text("embedded") THEN "embedded"
                              ELSE "subprocess",
                     dynamic |-> FALSE,
                     pinned |-> c.pinned,
                     backends |-> [i \in DOMAIN parsed |->
                        [c.backends[i] EXCEPT !.forwarding = parsed[i].mode]]])

\* smokeMode and clientCommand: their result, or "error".
SmokeMode(v) ==
    LET lower == backendLookupName(v)
    IN  IF lower \in {Text(""), Text("embedded")} THEN "embedded"
        ELSE IF lower = Text("subprocess") THEN "subprocess" ELSE "error"
ClientCommand(json) ==
    IF json \in {"unset", "malformed", "empty", "blank argument"} THEN "error"
    ELSE json

\* The smoke proxy's run up to New: the port has to be there, and there is one
\* backend, of a fixed name.
SmokeOptions(c) ==
    IF ~c.port THEN Refuse("port required")
    ELSE IF SmokeMode(c.mode) = "error" THEN Refuse("smoke mode")
    ELSE IF ClientCommand(c.command) = "error" THEN Refuse("client command")
    ELSE Accept([mode |-> SmokeMode(c.mode), dynamic |-> FALSE, pinned |-> FALSE,
                 backends |-> c.backends])

-----------------------------------------------------------------------------
(***************************************************************************)
(* The address table.                                                      *)
(***************************************************************************)
\* storeBackendAddress for every backend in turn: a later one overwrites.
AddressTable(bs, addr) ==
    LET keys(i) == {bs[i].name, backendLookupName(bs[i].name)}
    IN  [n \in UNION {keys(i) : i \in DOMAIN bs} |->
            addr[Max({i \in DOMAIN bs : n \in keys(i)})]]

\* The bind the native configuration gives backend b.
NativeBind(table, b) ==
    IF b.name \in DOMAIN table THEN table[b.name]
    ELSE table[backendLookupName(b.name)]

\* runner.backendAddress, and BackendDialAddress that asks it twice.
BackendAddress(table, name) ==
    IF name \in DOMAIN table THEN table[name]
    ELSE IF backendLookupName(name) \in DOMAIN table
    THEN table[backendLookupName(name)]
    ELSE "not found"
=============================================================================
