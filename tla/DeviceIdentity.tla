--------------------------- MODULE DeviceIdentity ---------------------------
(***************************************************************************)
(* USB receivers by identity (src/src/gps_discovery.cpp, ui.cpp,           *)
(* ui_concentrator.hpp and the device match of Engine::start).  The        *)
(* operator chooses concentrator boards by what an inventory shows; the    *)
(* bus may change between that inventory, the one taken when Start is      *)
(* pressed, the one the engine takes and the moment each receiver process  *)
(* opens its node by name.  A unit with a serial number is known by it,    *)
(* one without by the port it sits in.  Two units may carry the same       *)
(* serial number.                                                          *)
(***************************************************************************)
EXTENDS Naturals, FiniteSets, Sequences

CONSTANTS Units,        \* USB serial units
          Ports,        \* ports they may sit in
          SerialOf,     \* Units -> serial number, NoSerial without one
          NoSerial, None,
          MaxMoves      \* bound on bus changes

ASSUME NoneIsNeither ==
  /\ None \notin Units
  /\ \A x \in Ports \cup {SerialOf[u] : u \in Units} :
       None # <<"serial", x>> /\ None # <<"location", x>>

VARIABLES
  bus,       \* Ports -> unit, or None
  node,      \* units on the bus -> number of their /dev node
  seen,      \* the interface's inventory: set of [path, id]
  partial,   \* its enumeration error: the list may be incomplete
  boards,    \* the two boards of the setup, [id, path]
  phase,     \* "setup", "resolved" or "started"
  checked,   \* board -> unit the engine's inventory matched to it
  opened,    \* board -> unit its receiver process opened, None before that
  left,      \* units unplugged since that inventory
  moves

ivars == <<bus, node, seen, partial, boards, phase, checked, opened, left, moves>>
receivers == <<checked, opened>>
Boards == {1, 2}
NoBoard == [id |-> None, path |-> None]

\* classify_gps_serial_device: the stable identity.
PortOf(u) == CHOOSE p \in Ports : bus[p] = u
StableId(u) == IF SerialOf[u] # NoSerial THEN <<"serial", SerialOf[u]>>
               ELSE <<"location", PortOf(u)>>
Present == {u \in Units : \E p \in Ports : bus[p] = u}
Device(u) == [path |-> node[u], id |-> StableId(u)]

\* discover_concentrator_devices: everything on the bus, or an incomplete
\* enumeration with its error.
Inventory == {Device(u) : u \in Present}

\* select_gps_device for a remembered identity: the one device that has it,
\* none when the identity or its path is ambiguous.
Select(devices, id) ==
  {d \in devices : /\ d.id = id
                   /\ \A e \in devices \ {d} : e.id # id /\ e.path # d.path}

IdentityInit ==
  /\ bus = [p \in Ports |-> None] /\ node = [u \in Units |-> None]
  /\ seen = {} /\ partial = FALSE /\ boards = [i \in Boards |-> NoBoard]
  /\ phase = "setup" /\ moves = 0
  /\ checked = [i \in Boards |-> None] /\ opened = checked /\ left = {}

\* The kernel gives a new unit the lowest free node.
Plug(u, p) ==
  /\ moves < MaxMoves /\ bus[p] = None /\ u \notin Present
  /\ moves' = moves + 1
  /\ bus' = [bus EXCEPT ![p] = u]
  /\ \E n \in 0..Cardinality(Units) :
       /\ \A v \in Present : node[v] # n
       /\ \A m \in 0..(n - 1) : \E v \in Present : node[v] = m
       /\ node' = [node EXCEPT ![u] = n]
  /\ UNCHANGED <<seen, partial, boards, phase, receivers, left>>

Unplug(p) ==
  /\ moves < MaxMoves /\ bus[p] # None
  /\ moves' = moves + 1
  /\ bus' = [bus EXCEPT ![p] = None]
  /\ node' = [node EXCEPT ![bus[p]] = None]
  /\ left' = left \cup {bus[p]}
  /\ UNCHANGED <<seen, partial, boards, phase, receivers>>

\* refresh_concentrators
Refresh ==
  /\ phase = "setup"
  /\ \/ seen' = Inventory /\ partial' = FALSE
     \/ seen' \in SUBSET Inventory /\ partial' = TRUE
  /\ UNCHANGED <<bus, node, boards, phase, receivers, left, moves>>

UsedByOther(i, d) ==
  \E j \in Boards \ {i} : boards[j].id = d.id \/ boards[j].path = d.path

\* The combo of concentrator_settings and its "Select this board" button.
ChooseBoard(i, d) ==
  /\ phase = "setup" /\ ~partial
  /\ ~UsedByOther(i, d) /\ Select(seen, d.id) # {}
  /\ boards' = [boards EXCEPT ![i] = d]
  /\ UNCHANGED <<bus, node, seen, partial, phase, receivers, left, moves>>

ClearBoard(i) ==
  /\ phase = "setup" /\ boards[i] # NoBoard
  /\ boards' = [boards EXCEPT ![i] = NoBoard]
  /\ UNCHANGED <<bus, node, seen, partial, phase, receivers, left, moves>>

\* A path given on the command line, without an identity.
NamePath(i, n) ==
  /\ phase = "setup" /\ boards[i] = NoBoard
  /\ boards' = [boards EXCEPT ![i] = [id |-> None, path |-> n]]
  /\ UNCHANGED <<bus, node, seen, partial, phase, receivers, left, moves>>

\* resolve_concentrators: a fresh inventory, each board by its identity, or
\* by its path and then the identity found there.
Matched(devices, b) ==
  IF b.id # None THEN Select(devices, b.id)
  ELSE UNION {Select(devices, d.id) : d \in {e \in devices : e.path = b.path}}
Resolve ==
  /\ phase = "setup" /\ \E i \in Boards : boards[i] # NoBoard
  /\ seen' = Inventory /\ partial' = FALSE
  /\ LET found == [i \in Boards |-> Matched(seen', boards[i])]
         chosen == [i \in Boards |-> CHOOSE d \in found[i] : TRUE]
     IN IF /\ \A i \in Boards : boards[i] # NoBoard /\ found[i] # {}
           /\ chosen[1].path # chosen[2].path
        THEN boards' = chosen /\ phase' = "resolved"
        ELSE UNCHANGED <<boards, phase>>
  /\ UNCHANGED <<bus, node, receivers, left, moves>>

\* An enumeration that reports an error ends the start.
ResolveRefused ==
  /\ phase = "setup" /\ partial' = TRUE /\ seen' \in SUBSET Inventory
  /\ UNCHANGED <<bus, node, boards, phase, receivers, left, moves>>

\* Engine::start: its own inventory; path and identity must both still match.
\* Nothing is opened yet.
StillMatches_Path(u, b) == node[u] = b.path
StillMatches(u, b) == node[u] = b.path /\ (b.id = None \/ StableId(u) = b.id)
EngineStart ==
  /\ phase = "resolved"
  /\ LET fits(i) == {u \in Present : StillMatches(u, boards[i])}
     IN IF \A i \in Boards : Cardinality(fits(i)) = 1
        THEN /\ phase' = "started" /\ left' = {}
             /\ checked' = [i \in Boards |-> CHOOSE u \in fits(i) : TRUE]
             /\ opened' = [i \in Boards |-> None]
        ELSE phase' = "setup" /\ UNCHANGED <<receivers, left>>
  /\ UNCHANGED <<bus, node, seen, partial, boards, moves>>

\* main of rak_worker.c, one process per board: the node is opened by its name,
\* whichever unit has it by now; without one the run ends.
OpenNode(i) ==
  /\ phase = "started" /\ opened[i] = None
  /\ LET there == {u \in Present : node[u] = boards[i].path}
     IN IF there = {} THEN phase' = "setup" /\ UNCHANGED opened
        ELSE UNCHANGED phase /\ \E u \in there : opened' = [opened EXCEPT ![i] = u]
  /\ UNCHANGED <<bus, node, seen, partial, boards, checked, left, moves>>

Discovery == Refresh \/ Resolve \/ ResolveRefused \/ EngineStart
IdentityNext ==
  \/ \E u \in Units, p \in Ports : Plug(u, p)
  \/ \E p \in Ports : Unplug(p)
  \/ \E i \in Boards : ClearBoard(i) \/ (\E d \in seen : ChooseBoard(i, d))
  \/ \E i \in Boards, n \in 0..1 : NamePath(i, n)
  \/ Discovery \/ \E i \in Boards : OpenNode(i)
IdentitySpec == IdentityInit /\ [][IdentityNext]_ivars
----------------------------------------------------------------------------
\* A survey starts only on two different units, each with the identity the
\* setup names and neither ambiguous when it was resolved; and each receiver
\* process opens the very unit that was checked, whatever was plugged or
\* renumbered meanwhile, unless that unit itself was unplugged after the
\* check: the node is opened by name and nothing compares its identity again
\* (ui.cpp resolve_concentrators, engine.cpp start, rak_worker.c main).
OpenedAsChosen ==
  /\ phase = "started" => checked[1] # checked[2]
  /\ \A i \in Boards : (phase = "started" /\ SerialOf[checked[i]] # NoSerial)
       => boards[i].id = <<"serial", SerialOf[checked[i]]>>
  /\ phase # "setup" => \A i \in Boards :
       Cardinality({d \in seen : d.id = boards[i].id}) = 1
  /\ \A i \in Boards : (phase = "started" /\ opened[i] # None)
       => opened[i] = checked[i] \/ checked[i] \in left
=============================================================================
